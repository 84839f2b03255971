------------------------- MODULE DecisionCoreProofs -------------------------
(***************************************************************************)
(* What DecisionCore guarantees for every value of its constants.          *)
(*                                                                         *)
(* Two invariants of a driver's frame carry the results: Snapshot(d), the  *)
(* prices the breaker judges, and Frame(d), the decision and what it was   *)
(* computed from.  The second needs the types of what agents, coordinator  *)
(* and sizer compute.  The RSI's sums are folds over a set of indices; the *)
(* library states induction for an operator, which the provers cannot      *)
(* instantiate, so it is stated here for a set of numbers.                 *)
(***************************************************************************)
EXTENDS DecisionCore, FiniteSetTheorems, WellFoundedInduction, TLAPS

-----------------------------------------------------------------------------
(* The breaker's snapshot.                                                 *)

Suspended(d) == pc[d] = "gathering" \/ Intends(d)

SoleFeed(d) == FeedersOf(job[d].sym) = {d}

HasFrame(d) == DOMAIN job[d] = {"sym", "prices", "votes", "signal", "qty"}

\* A driver's part of SnapshotInv.
Snapshot(d) ==
  /\ HasFrame(d)
  /\ Suspended(d) => job[d].sym \in Feeds[d]
  /\ Suspended(d) /\ SoleFeed(d) =>
       job[d].prices = Recent(history[job[d].sym], VolWindow)
  /\ Intends(d) => BreakerAllows(job[d].prices)

SnapshotInv ==
  /\ DOMAIN pc = Drivers
  /\ DOMAIN job = Drivers
  /\ DOMAIN history = Symbols
  /\ \A d \in Drivers : Snapshot(d)

\* The steps of driver d that leave the price windows alone do not disturb
\* the snapshot of another driver.
LEMMA OthersUndisturbed ==
  ASSUME SnapshotInv, NEW d \in Drivers, NEW e \in Drivers, e # d,
         NEW from, NEW to, NEW j, Transition(d, from, to, j), UNCHANGED history
  PROVE  Snapshot(e)'
BY DEF SnapshotInv, Snapshot, Transition, Suspended, Intends, SoleFeed, FeedersOf, HasFrame

\* Recording a tick of s by driver d leaves alone the windows of the symbols
\* that others feed alone.
LEMMA OnTickOthers ==
  ASSUME SnapshotInv, NEW d \in Drivers, NEW e \in Drivers, e # d,
         NEW s \in Symbols, NEW p \in Prices, OnTick(d, s, p)
  PROVE  Snapshot(e)'
<1>1. pc'[e] = pc[e] /\ job'[e] = job[e]
  BY DEF OnTick, Transition, SnapshotInv
<1>2. ASSUME Suspended(e), SoleFeed(e)
      PROVE  history'[job[e].sym] = history[job[e].sym]
  <2>1. job[e].sym \in Symbols
    BY <1>2, SourcesAssumption DEF SnapshotInv, Snapshot
  <2>2. job[e].sym # s
    BY <1>2 DEF OnTick, SoleFeed, FeedersOf
  <2> QED BY <2>1, <2>2 DEF OnTick, SnapshotInv
<1> QED
  BY <1>1, <1>2
  DEF SnapshotInv, Snapshot, Suspended, Intends, SoleFeed, FeedersOf, HasFrame

\* The driver that takes a tick holds the window as just recorded.
LEMMA OnTickOwn ==
  ASSUME SnapshotInv, NEW d \in Drivers, NEW s \in Symbols, NEW p \in Prices,
         OnTick(d, s, p)
  PROVE  Snapshot(d)'
<1>1. pc'[d] = "gathering" /\ job'[d] = Gathering(s, Recent(history'[s], VolWindow))
  BY DEF OnTick, Transition, SnapshotInv
<1> QED
  BY <1>1 DEF OnTick, Snapshot, Suspended, Intends, HasFrame, Gathering

\* An agent's answer changes the votes only.
LEMMA AnswerOwn ==
  ASSUME SnapshotInv, NEW d \in Drivers, NEW a, NEW v, Answer(d, a, v)
  PROVE  Snapshot(d)'
<1>1. /\ pc[d] = "gathering" /\ pc'[d] = "gathering"
      /\ job'[d] = [job[d] EXCEPT !.votes[a] = v]
  BY DEF Answer, Transition, SnapshotInv
<1>2. HasFrame(d)
  BY DEF SnapshotInv, Snapshot
<1>3. job'[d].sym = job[d].sym /\ job'[d].prices = job[d].prices /\ HasFrame(d)'
  BY <1>1, <1>2 DEF HasFrame
<1> QED
  BY <1>1, <1>3 DEF SnapshotInv, Snapshot, Suspended, Intends, SoleFeed, FeedersOf, Answer

\* A decision keeps the snapshot it was judged on.
LEMMA DecideOwn ==
  ASSUME SnapshotInv, NEW d \in Drivers, Decide(d)
  PROVE  Snapshot(d)'
<1>1. CASE Noop(d)
  <2>1. pc'[d] = "auditing" /\ job'[d] = NoJob
    BY <1>1 DEF Noop, Transition, SnapshotInv
  <2>2. NoJob.qty = 0 /\ DOMAIN NoJob = {"sym", "prices", "votes", "signal", "qty"}
    BY DEF NoJob
  <2>3. ~Intends(d)' /\ ~Suspended(d)'
    BY <2>1, <2>2 DEF Suspended, Intends
  <2> QED BY <2>1, <2>2, <2>3 DEF Snapshot, HasFrame
<1>2. CASE Shadow(d) \/ PlaceOrder(d)
  <2>1. pc[d] = "gathering" /\ job'[d] = Decided(d) /\ UNCHANGED history
        /\ BreakerAllows(job[d].prices)
    BY <1>2 DEF Shadow, PlaceOrder, Transition, SnapshotInv, Tradeable
  <2>2. HasFrame(d)
    BY DEF SnapshotInv, Snapshot
  <2>3. job'[d].sym = job[d].sym /\ job'[d].prices = job[d].prices /\ HasFrame(d)'
    BY <2>1, <2>2 DEF HasFrame, Decided
  <2> QED
    BY <2>1, <2>3 DEF SnapshotInv, Snapshot, Suspended, Intends, SoleFeed, FeedersOf
<1> QED BY <1>1, <1>2 DEF Decide

\* SnapshotInv is inductive.
LEMMA SnapshotStep ==
  ASSUME SnapshotInv, [Next]_vars
  PROVE  SnapshotInv'
<1>1. CASE UNCHANGED vars
  BY <1>1 DEF vars, SnapshotInv, Snapshot, Suspended, Intends, SoleFeed, FeedersOf, HasFrame
<1>2. ASSUME NEW d \in Drivers, NEW s \in Symbols, NEW p \in Prices, OnTick(d, s, p)
      PROVE  SnapshotInv'
  <2>1. DOMAIN pc' = Drivers /\ DOMAIN job' = Drivers /\ DOMAIN history' = Symbols
    BY <1>2 DEF OnTick, Transition, SnapshotInv
  <2>2. \A e \in Drivers : Snapshot(e)'
    BY <1>2, OnTickOwn, OnTickOthers
  <2> QED BY <2>1, <2>2 DEF SnapshotInv
<1>3. ASSUME NEW d \in Drivers, Progress(d)
      PROVE  SnapshotInv'
  <2>1. PICK from, to, j : Transition(d, from, to, j) /\ UNCHANGED history
    BY <1>3
    DEF Progress, VotesStep, QuantVotes, MacroStub, ModelFails, AnswerUnparseable,
        MacroRaises, MacroVotes, MacroAnswers, Answer, Decide, Noop, Shadow, PlaceOrder, OrderRejected, Audit
  <2>2. DOMAIN pc' = Drivers /\ DOMAIN job' = Drivers /\ DOMAIN history' = Symbols
    BY <2>1 DEF Transition, SnapshotInv
  <2>3. \A e \in Drivers : e # d => Snapshot(e)'
    BY <2>1, OthersUndisturbed
  <2>4. Snapshot(d)'
    <3>1. CASE VotesStep(d)
      BY <3>1, AnswerOwn
      DEF VotesStep, QuantVotes, MacroStub, ModelFails, AnswerUnparseable, MacroRaises,
          MacroVotes, MacroAnswers
    <3>2. CASE Decide(d)
      BY <3>2, DecideOwn
    <3>3. CASE OrderRejected(d)
      <4>1. pc[d] = "ordering" /\ pc'[d] = "auditing" /\ job'[d] = job[d] /\ UNCHANGED history
        BY <3>3 DEF OrderRejected, Transition, SnapshotInv
      <4> QED
        BY <4>1 DEF SnapshotInv, Snapshot, Suspended, Intends, SoleFeed, FeedersOf, HasFrame
    <3>4. CASE Audit(d)
      <4>1. pc'[d] = "idle" /\ job'[d] = NoJob
        BY <3>4 DEF Audit, Transition, SnapshotInv
      <4> QED BY <4>1 DEF Snapshot, Suspended, Intends, HasFrame, NoJob
    <3> QED BY <1>3, <3>1, <3>2, <3>3, <3>4 DEF Progress
  <2> QED BY <2>2, <2>3, <2>4 DEF SnapshotInv
<1> QED BY <1>1, <1>2, <1>3 DEF Next

\* Whatever the agents answer and however the publishers interleave, an order
\* of a symbol that one publisher feeds was judged by the volatility breaker
\* on the newest prices there are when the order leaves.
THEOREM BreakerCurrent == Spec => []BreakerIsCurrent
<1>1. Init => SnapshotInv
  BY DEF Init, SnapshotInv, Snapshot, Suspended, Intends, HasFrame, NoJob
<1>2. SnapshotInv /\ [Next]_vars => SnapshotInv'
  BY SnapshotStep
<1>3. SnapshotInv => BreakerIsCurrent
  BY DEF SnapshotInv, Snapshot, BreakerIsCurrent, Suspended, SoleFeed
<1> QED BY <1>1, <1>2, <1>3, PTL DEF Spec

-----------------------------------------------------------------------------
(* The sizer.                                                              *)

\* A confidence: a fraction between 0 and 1.
IsConfidence(c) == c.num \in Nat /\ c.den \in Nat \ {0} /\ c.num <= c.den

\* Rounding a fraction moves it by at most one half.
LEMMA RoundedNear ==
  ASSUME NEW n \in Nat, NEW d \in Nat \ {0}
  PROVE  /\ RoundHalfEven(n, d) \in Nat
         /\ 2 * (RoundHalfEven(n, d) * d - n) <= d
         /\ 2 * (n - RoundHalfEven(n, d) * d) <= d
<1> DEFINE q == n \div d
           r == n % d
<1>1. q \in Nat /\ r \in 0..(d - 1) /\ n = q * d + r
  OBVIOUS
<1> HIDE DEF q, r
<1>2. RoundHalfEven(n, d) = IF 2 * r < d \/ (2 * r = d /\ q % 2 = 0) THEN q ELSE q + 1
  BY DEF RoundHalfEven, q, r
<1>3. q * d \in Nat /\ (q + 1) * d = q * d + d
  BY <1>1
<1> QED BY <1>1, <1>2, <1>3

\* Multiplication by a natural number is monotonic.
LEMMA TimesMonotonic ==
  ASSUME NEW a \in Int, NEW b \in Int, NEW d \in Nat, a <= b
  PROVE  a * d \in Int /\ b * d \in Int /\ a * d <= b * d
<1>1. PICK k \in Nat : b = a + k
  <2>1. b - a \in Nat /\ b = a + (b - a)
    OBVIOUS
  <2> QED BY <2>1
<1>2. b * d = a * d + k * d
  BY <1>1
<1>3. k * d \in Nat
  OBVIOUS
<1> QED BY <1>2, <1>3

\* A multiple of d at most d / 2 away from a number between two multiples of
\* d lies between them too.
LEMMA NearestWithin ==
  ASSUME NEW d \in Nat \ {0}, NEW n \in Nat, NEW s \in Nat, NEW lo \in Nat, NEW hi \in Nat,
         lo * d <= n, n <= hi * d, 2 * (s * d - n) <= d, 2 * (n - s * d) <= d
  PROVE  lo <= s /\ s <= hi
<1> DEFINE S == s * d
           L == lo * d
           H == hi * d
<1>1. S \in Int /\ L \in Int /\ H \in Int
  OBVIOUS
<1>2. ASSUME hi + 1 <= s PROVE H + d <= S
  <2>1. (hi + 1) * d <= s * d
    BY <1>2, TimesMonotonic
  <2> QED BY <2>1
<1>3. ASSUME s + 1 <= lo PROVE S + d <= L
  <2>1. (s + 1) * d <= lo * d
    BY <1>3, TimesMonotonic
  <2> QED BY <2>1
<1>4. L <= n /\ n <= H /\ 2 * (S - n) <= d /\ 2 * (n - S) <= d
  OBVIOUS
<1> HIDE DEF S, L, H
<1>5. ~(hi + 1 <= s)
  BY <1>1, <1>2, <1>4
<1>6. ~(s + 1 <= lo)
  BY <1>1, <1>3, <1>4
<1> QED BY <1>5, <1>6

\* For every range, floor and confidence: a linear order that is not skipped
\* lies in the range and at most half a share off the line.
THEOREM LinearSizeOnTheLine ==
  ASSUME NEW c, IsConfidence(c), LinearSize(c) # 0
  PROVE  LET exact == MinQty * c.den + (MaxQty - MinQty) * c.num
         IN /\ LinearSize(c) \in MinQty..MaxQty
            /\ 100 * c.num >= MinConf * c.den
            /\ 2 * (LinearSize(c) * c.den - exact) <= c.den
            /\ 2 * (exact - LinearSize(c) * c.den) <= c.den
<1> DEFINE n == MinQty * c.den + (MaxQty - MinQty) * c.num
           size == RoundHalfEven(n, c.den)
<1>1. /\ c.num \in Nat /\ c.den \in Nat \ {0} /\ c.num <= c.den
      /\ MinQty \in Nat /\ MaxQty \in Nat /\ MaxQty - MinQty \in Nat /\ MinConf \in Nat
  BY SizerAssumption DEF IsConfidence
<1>2. /\ ~(100 * c.num < MinConf * c.den)
      /\ LinearSize(c) = size
  BY DEF LinearSize
<1>3. 100 * c.num >= MinConf * c.den
  BY <1>1, <1>2
<1>4. (MaxQty - MinQty) * c.num <= (MaxQty - MinQty) * c.den
  <2>1. c.num * (MaxQty - MinQty) <= c.den * (MaxQty - MinQty)
    BY <1>1, TimesMonotonic
  <2> QED BY <2>1, <1>1
<1>5. /\ n \in Nat
      /\ MinQty * c.den <= n
      /\ n <= MaxQty * c.den
  <2>1. (MaxQty - MinQty) * c.num \in Nat /\ MinQty * c.den \in Nat
    BY <1>1
  <2>2. MinQty * c.den + (MaxQty - MinQty) * c.den = MaxQty * c.den
    BY <1>1
  <2> QED BY <2>1, <2>2, <1>4, <1>1
<1>6. /\ size \in Nat
      /\ 2 * (size * c.den - n) <= c.den
      /\ 2 * (n - size * c.den) <= c.den
  BY <1>1, <1>5, RoundedNear
<1> HIDE DEF size, n
<1>7. size <= MaxQty /\ MinQty <= size
  BY <1>1, <1>5, <1>6, NearestWithin
<1> QED BY <1>1, <1>2, <1>3, <1>6, <1>7 DEF n

-----------------------------------------------------------------------------
(* The vote.                                                               *)

\* A positive weighted sum of signed values is at most the total weight times
\* one of the values that enter it positively.
LEMMA MeanBacked ==
  ASSUME NEW P \in Nat, NEW Q \in Nat, NEW w \in Nat, NEW u \in Nat,
         NEW p \in {-1, 0, 1}, NEW r \in {-1, 0, 1},
         p * (w * P) + r * (u * Q) > 0
  PROVE  \/ p = 1 /\ p * (w * P) + r * (u * Q) <= (w + u) * P
         \/ r = 1 /\ p * (w * P) + r * (u * Q) <= (w + u) * Q
<1>1. w * P \in Nat /\ u * Q \in Nat /\ u * P \in Nat /\ w * Q \in Nat
  OBVIOUS
<1>2. (w + u) * P = w * P + u * P /\ (w + u) * Q = w * Q + u * Q
  OBVIOUS
<1>3. CASE p = 1 /\ r = 1
  <2>1. CASE Q <= P
    <3>1. u * Q <= u * P
      <4>1. Q * u <= P * u
        BY <2>1, TimesMonotonic
      <4> QED BY <4>1
    <3> QED BY <1>1, <1>2, <1>3, <3>1
  <2>2. CASE P <= Q
    <3>1. w * P <= w * Q
      <4>1. P * w <= Q * w
        BY <2>2, TimesMonotonic
      <4> QED BY <4>1
    <3> QED BY <1>1, <1>2, <1>3, <3>1
  <2> QED BY <2>1, <2>2
<1>4. CASE p = 1 /\ r # 1
  BY <1>1, <1>2, <1>4
<1>5. CASE p # 1 /\ r = 1
  BY <1>1, <1>2, <1>5
<1>6. CASE p # 1 /\ r # 1
  BY <1>1, <1>6
<1> QED BY <1>3, <1>4, <1>5, <1>6

\* The sign a vote enters the sum with.
SignedWeight(votes, a) == Sign(votes[a].act) * ActiveWeight(votes, a)

\* For all weights, every positive threshold and all answers: an order is not
\* more confident than the most confident agent that voted for its side.
THEOREM VoteBacked ==
  ASSUME Threshold > 0, NEW votes \in [Agents -> Votes], Aggregate(votes).act # "HOLD"
  PROVE  \E a \in Agents :
           /\ votes[a].act = Aggregate(votes).act
           /\ votes[a].num * Aggregate(votes).den >= Aggregate(votes).num * votes[a].den
<1> DEFINE x == votes["quant"].num
           y == votes["quant"].den
           z == votes["macro"].num
           v == votes["macro"].den
           w == ActiveWeight(votes, "quant")
           u == ActiveWeight(votes, "macro")
           p == Sign(votes["quant"].act)
           r == Sign(votes["macro"].act)
           A == Aggregate(votes)
           P == x * v
           Q == z * y
<1>1. x \in Nat /\ y \in Nat \ {0} /\ z \in Nat /\ v \in Nat \ {0}
  BY DEF Votes, Agents
<1>2. w \in Nat /\ u \in Nat
  BY VoteAssumption DEF ActiveWeight, Agents
<1>3. p \in {-1, 0, 1} /\ r \in {-1, 0, 1}
  BY DEF Sign
<1> DEFINE n == p * w * x * v + r * u * z * y
           D == (w + u) * y * v
<1>4. Score(votes).num = n /\ Score(votes).den = D
  BY DEF Score
<1>5. P \in Nat /\ Q \in Nat /\ D \in Nat /\ n \in Int
  <2>1. P \in Nat /\ Q \in Nat
    BY <1>1
  <2>2. (w + u) * y \in Nat
    BY <1>1, <1>2
  <2>3. D \in Nat
    BY <2>2, <1>1
  <2>4. p * w \in Int /\ r * u \in Int
    BY <1>2, <1>3
  <2>5. p * w * x \in Int /\ r * u * z \in Int
    BY <2>4, <1>1
  <2>6. p * w * x * v \in Int /\ r * u * z * y \in Int
    BY <2>5, <1>1
  <2> QED BY <2>1, <2>3, <2>6
<1>6. n = p * (w * P) + r * (u * Q)
  BY <1>1, <1>2, <1>3
<1>7. x * D = ((w + u) * P) * y /\ z * D = ((w + u) * Q) * v
  BY <1>1, <1>2
<1>8. \/ A = [act |-> "BUY", num |-> n, den |-> D] /\ n > 0
      \/ A = [act |-> "SELL", num |-> -n, den |-> D] /\ -n > 0
  <2> HIDE DEF n, D
  <2>1. D # 0
    BY <1>4 DEF Aggregate, Hold, Vote
  <2>2. Threshold * D > 0
    <3>1. 1 * D <= Threshold * D
      BY <1>5, VoteAssumption, TimesMonotonic
    <3>2. 1 * D = D /\ D > 0
      BY <2>1, <1>5
    <3>3. Threshold * D \in Int
      BY <1>5, VoteAssumption
    <3> QED BY <3>1, <3>2, <3>3, <1>5
  <2>3. \/ A = [act |-> "BUY", num |-> n, den |-> D] /\ 100 * n >= Threshold * D
        \/ A = [act |-> "SELL", num |-> -n, den |-> D] /\ 100 * n <= -(Threshold * D)
    BY <1>4, <2>1 DEF Aggregate, Vote
  <2>4. Threshold * D \in Int
    BY <1>5, VoteAssumption
  <2> QED BY <2>2, <2>3, <2>4, <1>5
<1> HIDE DEF x, y, z, v, w, u, p, r, n, D, P, Q, A
<1>9. ASSUME NEW k \in Int, k > 0, NEW side \in {"BUY", "SELL"},
             A = [act |-> side, num |-> k, den |-> D],
             \/ p = Sign(side) /\ k <= (w + u) * P
             \/ r = Sign(side) /\ k <= (w + u) * Q
      PROVE  \E a \in Agents : votes[a].act = A.act /\ votes[a].num * A.den >= A.num * votes[a].den
  <2>1. A.act = side /\ A.num = k /\ A.den = D
    BY <1>9
  <2>2. CASE p = Sign(side) /\ k <= (w + u) * P
    <3>1. votes["quant"].act = side
      BY <2>2 DEF p, Sign
    <3>2. (w + u) * P \in Int
      BY <1>2, <1>5
    <3>3. k * y <= x * D
      BY <3>2, <2>2, <1>1, <1>7, <1>9, TimesMonotonic
    <3>4. x * D \in Int /\ k * y \in Int
      BY <1>1, <1>5, <1>9
    <3> QED BY <3>1, <3>3, <3>4, <2>1 DEF Agents, x, y
  <2>3. CASE r = Sign(side) /\ k <= (w + u) * Q
    <3>1. votes["macro"].act = side
      BY <2>3 DEF r, Sign
    <3>2. (w + u) * Q \in Int
      BY <1>2, <1>5
    <3>3. k * v <= z * D
      BY <3>2, <2>3, <1>1, <1>7, <1>9, TimesMonotonic
    <3>4. z * D \in Int /\ k * v \in Int
      BY <1>1, <1>5, <1>9
    <3> QED BY <3>1, <3>3, <3>4, <2>1 DEF Agents, z, v
  <2> QED BY <1>9, <2>2, <2>3
<1>10. CASE A = [act |-> "BUY", num |-> n, den |-> D] /\ n > 0
  <2>1. \/ p = 1 /\ n <= (w + u) * P
        \/ r = 1 /\ n <= (w + u) * Q
    BY <1>10, <1>2, <1>3, <1>5, <1>6, MeanBacked
  <2>2. Sign("BUY") = 1
    BY DEF Sign
  <2>3. \E a \in Agents : votes[a].act = A.act /\ votes[a].num * A.den >= A.num * votes[a].den
    BY <1>9, <1>10, <2>1, <2>2, <1>5
  <2> QED BY <2>3 DEF A
<1>11. CASE A = [act |-> "SELL", num |-> -n, den |-> D] /\ -n > 0
  <2>1. -n = (-p) * (w * P) + (-r) * (u * Q)
    <3>1. w * P \in Int /\ u * Q \in Int
      BY <1>2, <1>5
    <3> QED BY <3>1, <1>3, <1>6
  <2>2. -p \in {-1, 0, 1} /\ -r \in {-1, 0, 1}
    BY <1>3
  <2>3. \/ -p = 1 /\ -n <= (w + u) * P
        \/ -r = 1 /\ -n <= (w + u) * Q
    BY <1>11, <1>2, <1>5, <2>1, <2>2, MeanBacked
  <2>4. Sign("SELL") = -1 /\ (-p = 1 => p = -1) /\ (-r = 1 => r = -1)
    BY <1>3 DEF Sign
  <2>5. -n \in Int /\ -n > 0 /\ A = [act |-> "SELL", num |-> -n, den |-> D]
    BY <1>5, <1>11
  <2>6. \/ p = Sign("SELL") /\ -n <= (w + u) * P
        \/ r = Sign("SELL") /\ -n <= (w + u) * Q
    BY <2>3, <2>4
  <2> HIDE DEF A
  <2>7. \E a \in Agents : votes[a].act = A.act /\ votes[a].num * A.den >= A.num * votes[a].den
    BY <1>9, <2>5, <2>6
  <2> QED BY <2>7 DEF A
<1> QED BY <1>8, <1>10, <1>11

-----------------------------------------------------------------------------
(* Sums over a price window, and the RSI.                                  *)

\* Induction over the natural numbers, for a set of them.
LEMMA NatSetInduction ==
  ASSUME NEW T \in SUBSET Nat, 0 \in T, \A n \in T : n + 1 \in T
  PROVE  \A n \in Nat : n \in T
<1> SUFFICES ASSUME Nat \ T # {} PROVE FALSE
  OBVIOUS
<1>1. \E x \in Nat \ T : \A y \in Nat \ T : ~ (<<y, x>> \in OpToRel(<, Nat))
  BY NatLessThanWellFounded, WFMin
<1>2. PICK x \in Nat \ T : \A y \in Nat \ T : ~ (y < x)
  BY <1>1 DEF OpToRel
<1> QED 
  <2>1. x # 0 /\ x - 1 \in Nat 
    OBVIOUS
  <2>2. x - 1 \in T
    BY <1>2, <2>1
  <2> QED BY <2>2

\* The element a fold takes first.
Chosen(s) == CHOOSE x \in s : TRUE

\* One step of the fold that sums a over a set s, where g sums it over smaller sets.
Unfolded(a, g, s) == IF s = {} THEN 0 ELSE a[Chosen(s)] + g[s \ {Chosen(s)}]

\* The subsets of S that k elements at most are in.
UpTo(S, k) == {s \in SUBSET S : Cardinality(s) <= k}

\* Without its first element a set is smaller.
LEMMA UpToStep ==
  ASSUME NEW S, IsFiniteSet(S), NEW k \in Nat, NEW s \in UpTo(S, k + 1), s # {}
  PROVE  Chosen(s) \in s /\ Chosen(s) \in S /\ s \ {Chosen(s)} \in UpTo(S, k)
<1>1. Chosen(s) \in s
  BY DEF Chosen
<1>2. s \subseteq S /\ Cardinality(s) <= k + 1
  BY DEF UpTo
<1>3. IsFiniteSet(s)
  BY <1>2, FS_Subset
<1>4. Cardinality(s) \in Nat /\ Cardinality(s \ {Chosen(s)}) = Cardinality(s) - 1
  BY <1>1, <1>3, FS_CardinalityType, FS_RemoveElement
<1> QED BY <1>1, <1>2, <1>4 DEF UpTo

\* No element is in the smallest one.
LEMMA UpToZero ==
  ASSUME NEW S, IsFiniteSet(S), NEW s \in UpTo(S, 0)
  PROVE  s = {}
<1>1. s \subseteq S /\ Cardinality(s) <= 0
  BY DEF UpTo
<1>2. IsFiniteSet(s)
  BY <1>1, FS_Subset
<1> QED BY <1>1, <1>2, FS_CardinalityType, FS_EmptySet

\* All subsets are reached.
LEMMA UpToAll ==
  ASSUME NEW S, IsFiniteSet(S)
  PROVE  Cardinality(S) \in Nat /\ UpTo(S, Cardinality(S)) = SUBSET S
<1>1. ASSUME NEW s \in SUBSET S PROVE Cardinality(s) <= Cardinality(S)
  BY FS_Subset
<1> QED BY <1>1, FS_CardinalityType DEF UpTo

\* The function that sums a exists, by induction over the size of the subsets.
LEMMA FoldExists ==
  ASSUME NEW S, IsFiniteSet(S), NEW a \in [S -> Nat]
  PROVE  \E g : g = [s \in SUBSET S |-> Unfolded(a, g, s)]
<1> DEFINE Good(k, g) == /\ DOMAIN g = UpTo(S, k)
                         /\ \A s \in UpTo(S, k) : g[s] = Unfolded(a, g, s)
           T == {k \in Nat : \E g : Good(k, g)}
<1>1. 0 \in T
  <2> DEFINE g == [s \in UpTo(S, 0) |-> 0]
  <2>1. \A s \in UpTo(S, 0) : g[s] = Unfolded(a, g, s)
    BY UpToZero DEF Unfolded
  <2>2. Good(0, g)
    BY <2>1
  <2> QED BY <2>2
<1>2. ASSUME NEW k \in T PROVE k + 1 \in T
  <2>1. PICK g : Good(k, g)
    OBVIOUS
  <2> DEFINE h == [s \in UpTo(S, k + 1) |-> Unfolded(a, g, s)]
  <2>2. ASSUME NEW s \in UpTo(S, k) PROVE s \in UpTo(S, k + 1) /\ h[s] = g[s]
    <3>1. s \in UpTo(S, k + 1)
      <4>1. s \subseteq S /\ Cardinality(s) <= k
        BY DEF UpTo
      <4>2. Cardinality(s) \in Nat
        BY <4>1, FS_Subset, FS_CardinalityType
      <4> QED BY <4>1, <4>2 DEF UpTo
    <3> QED BY <2>1, <3>1
  <2>3. ASSUME NEW s \in UpTo(S, k + 1) PROVE h[s] = Unfolded(a, h, s)
    <3>1. CASE s = {}
      BY <3>1 DEF Unfolded
    <3>2. CASE s # {}
      <4>1. s \ {Chosen(s)} \in UpTo(S, k)
        BY <3>2, UpToStep
      <4>2. h[s \ {Chosen(s)}] = g[s \ {Chosen(s)}]
        BY <4>1, <2>2
      <4> QED BY <4>2, <3>2 DEF Unfolded
    <3> QED BY <3>1, <3>2
  <2>4. Good(k + 1, h) /\ k + 1 \in Nat
    BY <2>3
  <2> HIDE DEF Good, h
  <2> QED BY <2>4
<1> HIDE DEF Good
<1>3. \A k \in Nat : k \in T
  BY <1>1, <1>2, NatSetInduction
<1>4. PICK g : Good(Cardinality(S), g)
  BY <1>3, UpToAll
<1>5. DOMAIN g = SUBSET S /\ \A s \in SUBSET S : g[s] = Unfolded(a, g, s)
  BY <1>4, UpToAll DEF Good
<1> DEFINE h == [s \in SUBSET S |-> g[s]]
<1>6. \A s \in SUBSET S : h[s] = Unfolded(a, h, s)
  <2>1. \A s \in SUBSET S : s # {} => s \ {Chosen(s)} \in SUBSET S
    OBVIOUS
  <2> QED BY <1>5, <2>1 DEF Unfolded
<1>7. h = [s \in SUBSET S |-> Unfolded(a, h, s)]
  BY <1>6
<1> QED BY <1>7

\* It sums natural numbers to a natural number, by the same induction.
LEMMA FoldType ==
  ASSUME NEW S, IsFiniteSet(S), NEW a \in [S -> Nat], NEW g,
         g = [s \in SUBSET S |-> Unfolded(a, g, s)]
  PROVE  g[S] \in Nat
<1> DEFINE T == {k \in Nat : \A s \in UpTo(S, k) : g[s] \in Nat}
<1>0. ASSUME NEW s \in SUBSET S PROVE g[s] = Unfolded(a, g, s)
  OBVIOUS
<1>1. 0 \in T
  <2>1. ASSUME NEW s \in UpTo(S, 0) PROVE g[s] \in Nat
    <3>1. s = {} BY UpToZero
    <3>2. g[s] = 0
      BY <1>0, <3>1 DEF Unfolded
    <3> QED BY <3>2
  <2> QED BY <2>1
<1>2. ASSUME NEW k \in T PROVE k + 1 \in T
  <2>1. ASSUME NEW s \in UpTo(S, k + 1) PROVE g[s] \in Nat
    <3>1. s \in SUBSET S BY DEF UpTo
    <3>2. CASE s = {}
      BY <1>0, <3>2 DEF Unfolded
    <3>3. CASE s # {}
      <4>1. Chosen(s) \in S /\ s \ {Chosen(s)} \in UpTo(S, k)
        BY <3>3, UpToStep
      <4>2. g[s] = a[Chosen(s)] + g[s \ {Chosen(s)}]
        BY <3>3, <1>0, <3>1 DEF Unfolded
      <4>3. a[Chosen(s)] \in Nat
        BY <4>1
      <4>4. g[s \ {Chosen(s)}] \in Nat
        BY <4>1
      <4> QED BY <4>2, <4>3, <4>4
    <3> QED BY <3>2, <3>3
  <2>2. k + 1 \in Nat
    OBVIOUS
  <2> QED BY <2>1, <2>2
<1>3. \A k \in Nat : k \in T
  BY <1>1, <1>2, NatSetInduction
<1>4. \A s \in UpTo(S, Cardinality(S)) : g[s] \in Nat
  <2>1. Cardinality(S) \in Nat
    BY UpToAll
  <2> QED BY <1>3, <2>1
<1>5. S \in UpTo(S, Cardinality(S))
  BY UpToAll
<1> QED BY <1>4, <1>5

\* SumOf of the model is this function.
LEMMA SumType ==
  ASSUME NEW S, IsFiniteSet(S), NEW a \in [S -> Nat]
  PROVE  SumOf(a) \in Nat
<1> DEFINE F == CHOOSE g : g = [s \in SUBSET S |-> Unfolded(a, g, s)]
<1>1. F = [s \in SUBSET S |-> Unfolded(a, F, s)]
  BY FoldExists
<1>2. F[S] \in Nat
  BY <1>1, FoldType
<1>3. SumOf(a) = F[S]
  BY DEF SumOf, MapThenSumSet, MapThenFoldSet, Unfolded, Chosen
<1> QED BY <1>2, <1>3


\* The upward and the downward moves of a window add up to natural numbers.
LEMMA MovesType ==
  ASSUME NEW w \in Seq(Nat)
  PROVE  Gains(w) \in Nat /\ Losses(w) \in Nat
<1>1. Len(w) \in Nat /\ IsFiniteSet(1..(Len(w) - 1))
  BY FS_Interval
<1>2. ASSUME NEW i \in 1..(Len(w) - 1)
      PROVE  Plus(w[i + 1] - w[i]) \in Nat /\ Plus(w[i] - w[i + 1]) \in Nat
  <2>1. w[i] \in Nat /\ w[i + 1] \in Nat
    BY <1>1
  <2>2. w[i + 1] - w[i] \in Int /\ w[i] - w[i + 1] \in Int
    BY ONLY <2>1
  <2>3. \A x \in Int : Plus(x) \in Nat
    BY DEF Plus
  <2> QED BY <2>2, <2>3, Zenon
<1>3. /\ [i \in 1..(Len(w) - 1) |-> Plus(w[i + 1] - w[i])] \in [1..(Len(w) - 1) -> Nat]
      /\ [i \in 1..(Len(w) - 1) |-> Plus(w[i] - w[i + 1])] \in [1..(Len(w) - 1) -> Nat]
  BY <1>2
<1> QED BY <1>1, <1>3, SumType DEF Gains, Losses

\* A sequence over a set is one over every larger set.
LEMMA SeqOfLarger ==
  ASSUME NEW S, NEW T, S \subseteq T, NEW s \in Seq(S)
  PROVE  s \in Seq(T)
  OBVIOUS

\* The end of a window is a window, no longer than asked for.
LEMMA RecentType ==
  ASSUME NEW S, NEW s \in Seq(S), NEW n \in Nat
  PROVE  Recent(s, n) \in Seq(S) /\ Len(Recent(s, n)) <= n
<1>1. CASE n >= Len(s)
  BY <1>1 DEF Recent
<1>2. CASE ~(n >= Len(s))
  <2>1. Recent(s, n) = SubSeq(s, Len(s) - n + 1, Len(s))
    BY <1>2 DEF Recent
  <2> QED BY <1>2, <2>1
<1> QED BY <1>1, <1>2

\* What an RSI can be: from 0 to 100.
Ratio == {r \in [num : Nat, den : Nat \ {0}] : r.num <= 100 * r.den}

\* The RSI of every price window lies between 0 and 100 (QuantAgent._compute_rsi).
THEOREM RsiIsPercent ==
  ASSUME NEW prices \in Seq(Prices)
  PROVE  Rsi(prices) \in Ratio
<1> DEFINE w == Recent(prices, Period + 1)
           g == Gains(w)
           l == Losses(w)
<1>1. w \in Seq(Nat)
  <2>1. Period + 1 \in Nat
    BY WindowsAssumption
  <2>2. w \in Seq(Prices)
    BY <2>1, RecentType
  <2>3. Prices \subseteq Nat
    BY SourcesAssumption
  <2> QED BY <2>2, <2>3, SeqOfLarger, Zenon
<1>2. g \in Nat /\ l \in Nat
  BY <1>1, MovesType
<1>3. Rsi(prices) = IF g + l = 0 THEN [num |-> 50, den |-> 1] ELSE [num |-> 100 * g, den |-> g + l]
  BY DEF Rsi
<1> HIDE DEF g, l
<1> QED BY <1>2, <1>3 DEF Ratio

\* The quant agent's vote on an RSI: an action, and a confidence between 0 and 1.
LEMMA RsiVoteType ==
  ASSUME NEW r \in Ratio
  PROVE  RsiVote(r) \in Votes /\ RsiVote(r).act \in Action
<1>1. r.num \in Nat /\ r.den \in Nat \ {0} /\ r.num <= 100 * r.den
  BY DEF Ratio
<1>2. Oversold \in Nat \ {0} /\ Overbought \in Nat /\ 100 - Overbought \in Nat \ {0}
  BY RsiAssumption
<1> DEFINE low == Oversold * r.den
           high == Overbought * r.den
           rest == (100 - Overbought) * r.den
<1>3. low \in Nat \ {0} /\ high \in Nat /\ rest \in Nat \ {0} /\ rest = 100 * r.den - high
  <2>1. 1 * r.den <= Oversold * r.den /\ 1 * r.den <= (100 - Overbought) * r.den
    BY <1>1, <1>2, TimesMonotonic
  <2>2. low \in Int /\ high \in Nat /\ rest \in Int
    BY <1>1, <1>2
  <2>3. rest = 100 * r.den - high
    BY <1>1, <1>2
  <2> HIDE DEF high
  <2> QED BY <1>1, <2>1, <2>2, <2>3
<1> HIDE DEF low, high, rest
<1>4. RsiVote(r) = CASE r.num <= low -> Vote("BUY", low - r.num, low)
                     [] r.num >= high -> Vote("SELL", r.num - high, rest)
                     [] OTHER -> Hold
  BY DEF RsiVote, low, high, rest
<1>5. CASE r.num <= low
  <2>1. \/ RsiVote(r) = Vote("BUY", low - r.num, low)
        \/ r.num >= high /\ RsiVote(r) = Vote("SELL", r.num - high, rest)
    BY <1>4, <1>5
  <2> QED BY <1>1, <1>3, <1>5, <2>1 DEF Votes, Vote, Action
<1>6. CASE ~(r.num <= low) /\ r.num >= high
  <2>1. RsiVote(r) = Vote("SELL", r.num - high, rest)
    BY <1>4, <1>6
  <2> QED BY <1>1, <1>3, <1>6, <2>1 DEF Votes, Vote, Action
<1>7. CASE ~(r.num <= low) /\ ~(r.num >= high)
  <2>1. RsiVote(r) = Hold
    BY <1>4, <1>7
  <2> QED BY <2>1 DEF Votes, Vote, Action, Hold
<1> QED BY <1>5, <1>6, <1>7

\* Whatever the price window, the quant agent votes.
LEMMA QuantVoteType ==
  ASSUME NEW prices \in Seq(Prices)
  PROVE  QuantVote(prices) \in Votes
<1>1. Hold \in Votes
  BY DEF Hold, Votes, Vote, Action
<1> QED BY <1>1, RsiIsPercent, RsiVoteType DEF QuantVote

-----------------------------------------------------------------------------
(* The decision and what it was computed from.                             *)

\* The weighted sum of signed fractions is at most the total weight.
LEMMA MeanBounded ==
  ASSUME NEW P \in Nat, NEW Q \in Nat, NEW w \in Nat, NEW u \in Nat, NEW Y \in Nat,
         NEW p \in {-1, 0, 1}, NEW r \in {-1, 0, 1}, P <= Y, Q <= Y
  PROVE  /\ p * (w * P) + r * (u * Q) <= (w + u) * Y
         /\ -(p * (w * P) + r * (u * Q)) <= (w + u) * Y
<1>1. P * w <= Y * w /\ Q * u <= Y * u
  BY TimesMonotonic
<1>2. w * P \in Nat /\ u * Q \in Nat /\ w * P <= w * Y /\ u * Q <= u * Y
  BY <1>1
<1>3. (w + u) * Y = w * Y + u * Y /\ w * Y \in Nat /\ u * Y \in Nat
  OBVIOUS
<1> DEFINE a == w * P
           b == u * Q
<1>4. p * a \in {-a, 0, a} /\ r * b \in {-b, 0, b}
  BY <1>2
<1> HIDE DEF a, b
<1>5. a \in Nat /\ b \in Nat /\ a <= w * Y /\ b <= u * Y
  BY <1>2 DEF a, b
<1>6. p * a + r * b <= (w + u) * Y /\ -(p * a + r * b) <= (w + u) * Y
  BY <1>3, <1>4, <1>5
<1> QED BY <1>6 DEF a, b

\* Whatever the agents vote, those that raised and all weights included, the
\* coordinator's signal is a vote with an action (TradingCoordinator._aggregate): its
\* confidence, the score without its sign, lies between 0 and 1.
THEOREM SignalIsVote ==
  ASSUME NEW votes \in [Agents -> Votes]
  PROVE  Aggregate(votes) \in Votes /\ Aggregate(votes).act \in Action
<1> DEFINE x == votes["quant"].num
           y == votes["quant"].den
           z == votes["macro"].num
           v == votes["macro"].den
           w == ActiveWeight(votes, "quant")
           u == ActiveWeight(votes, "macro")
           p == Sign(votes["quant"].act)
           r == Sign(votes["macro"].act)
           P == x * v
           Q == z * y
           Y == y * v
           n == p * w * x * v + r * u * z * y
           D == (w + u) * y * v
<1>1. x \in Nat /\ y \in Nat \ {0} /\ z \in Nat /\ v \in Nat \ {0} /\ x <= y /\ z <= v
  BY DEF Votes, Agents
<1>2. w \in Nat /\ u \in Nat
  BY VoteAssumption DEF ActiveWeight, Agents
<1>3. p \in {-1, 0, 1} /\ r \in {-1, 0, 1}
  BY DEF Sign
<1>4. Score(votes).num = n /\ Score(votes).den = D
  BY DEF Score
<1>5. P \in Nat /\ Q \in Nat /\ Y \in Nat /\ P <= Y /\ Q <= Y
  <2>1. x * v <= y * v /\ z * y <= v * y
    BY <1>1, TimesMonotonic
  <2> QED BY <1>1, <2>1
<1>6. n = p * (w * P) + r * (u * Q) /\ D = (w + u) * Y
  BY <1>1, <1>2, <1>3
<1>7. D \in Nat
  <2>1. w + u \in Nat
    BY <1>2
  <2> HIDE DEF w, u, Y
  <2> QED BY <2>1, <1>5, <1>6
<1> HIDE DEF x, y, z, v, w, u, p, r, n, D, P, Q, Y
<1>8. n <= D /\ -n <= D
  BY <1>2, <1>3, <1>5, <1>6, MeanBounded
<1>9. n \in Int
  <2>1. w * P \in Nat /\ u * Q \in Nat
    BY <1>2, <1>5
  <2> QED BY <2>1, <1>3, <1>6
<1>10. Threshold * D \in Nat
  BY <1>7, VoteAssumption
<1>11. Aggregate(votes) =
         IF D = 0 THEN Hold
         ELSE IF 100 * n >= Threshold * D THEN Vote("BUY", n, D)
         ELSE IF 100 * n <= -(Threshold * D) THEN Vote("SELL", -n, D)
         ELSE Vote("HOLD", IF n < 0 THEN -n ELSE n, D)
  BY <1>4 DEF Aggregate
<1> QED BY <1>7, <1>8, <1>9, <1>10, <1>11 DEF Votes, Vote, Hold, Action

\* A size is a natural number.
LEMMA SizeType == ASSUME NEW c \in Votes PROVE Size(c) \in Nat
<1>1. c \in [act : Action \cup {"pending", "raised"}, num : Nat, den : Nat \ {0}]
  BY DEF Votes
<1>2. (MaxQty - MinQty) * c.num \in Nat /\ MinQty * c.den \in Nat
  BY <1>1, SizerAssumption
<1> DEFINE n == MinQty * c.den + (MaxQty - MinQty) * c.num
<1>3. RoundHalfEven(n, c.den) \in Nat
  <2>1. n \in Nat /\ c.den \in Nat \ {0}
    BY <1>1, <1>2
  <2> HIDE DEF n
  <2> QED BY <2>1, RoundedNear
<1> QED BY <1>3, SizerAssumption DEF Size, LinearSize

\* A driver's part: what its frame holds while it gathers, and once it decided.
Frame(d) ==
  /\ pc[d] = "gathering" => job[d] \in Job
  /\ Intends(d) =>
       /\ job[d] \in Job
       /\ job[d].signal = Aggregate(job[d].votes)
       /\ job[d].signal.act # "HOLD"
       /\ job[d].qty = Size(job[d].signal)

\* TypeOK without the switches.
Typed ==
  /\ history \in [Symbols -> Seq(Prices)]
  /\ \A s \in Symbols : Len(history[s]) <= Window
  /\ pc \in [Drivers -> {"idle", "gathering", "ordering", "auditing"}]
  /\ job \in [Drivers -> Job \cup {NoJob}]
  /\ tickCount \in Nat

\* TypeOK of the switches.
Switches == live \in BOOLEAN /\ llm \in BOOLEAN

\* The inductive invariant behind the decision's properties.
FrameInv == Typed /\ \A d \in Drivers : Frame(d)

\* An empty frame holds no order.
LEMMA NoJobIntendsNothing == NoJob.qty = 0
  BY DEF NoJob

\* A step of driver d on its frame alone.
LEMMA FrameOfTransition ==
  ASSUME FrameInv, NEW d \in Drivers, NEW from,
         NEW to \in {"idle", "gathering", "ordering", "auditing"}, NEW j \in Job \cup {NoJob},
         Transition(d, from, to, j), Frame(d)',
         history' \in [Symbols -> Seq(Prices)], \A s \in Symbols : Len(history'[s]) <= Window,
         tickCount' \in Nat
  PROVE  FrameInv'
<1>1. pc' = [pc EXCEPT ![d] = to] /\ job' = [job EXCEPT ![d] = j]
  BY DEF Transition
<1>2. Typed'
  BY <1>1 DEF FrameInv, Typed
<1>3. ASSUME NEW e \in Drivers, e # d PROVE Frame(e)'
  <2>1. pc'[e] = pc[e] /\ job'[e] = job[e]
    BY <1>1, <1>3 DEF FrameInv, Typed
  <2> QED BY <2>1 DEF FrameInv, Frame, Intends
<1> QED BY <1>2, <1>3 DEF FrameInv

\* A tick: the window stays short and typed, the frame is new.
LEMMA FrameOfTick ==
  ASSUME FrameInv, NEW d \in Drivers, NEW s \in Symbols, NEW p \in Prices, OnTick(d, s, p)
  PROVE  FrameInv'
<1> DEFINE j == Gathering(s, Recent(history'[s], VolWindow))
<1>1. Transition(d, "idle", "gathering", j) /\ tickCount' = tickCount + 1
      /\ history' = [history EXCEPT ![s] = Record(history[s], p)]
  BY DEF OnTick
<1>2. Record(history[s], p) \in Seq(Prices) /\ Len(Record(history[s], p)) <= Window
  <2>1. history[s] \in Seq(Prices)
    BY DEF FrameInv, Typed
  <2>2. Append(history[s], p) \in Seq(Prices)
    BY <2>1
  <2> QED BY <2>2, RecentType, WindowsAssumption DEF Record
<1>3. history' \in [Symbols -> Seq(Prices)] /\ \A t \in Symbols : Len(history'[t]) <= Window
  BY <1>1, <1>2 DEF FrameInv, Typed
<1>4. j \in Job
  <2>1. Recent(history'[s], VolWindow) \in Seq(Prices)
    BY <1>3, RecentType, WindowsAssumption
  <2>2. NoVotes \in [Agents -> Votes] /\ Hold \in Votes
    BY DEF NoVotes, Pending, Hold, Vote, Votes, Action
  <2> QED BY <2>1, <2>2 DEF Gathering, Job
<1> HIDE DEF j
<1>5. pc'[d] = "gathering" /\ job'[d] = j
  BY <1>1 DEF Transition, FrameInv, Typed
<1>6. Frame(d)'
  BY <1>4, <1>5 DEF Frame, Intends
<1>7. tickCount' \in Nat
  BY <1>1 DEF FrameInv, Typed
<1> QED BY <1>1, <1>3, <1>4, <1>6, <1>7, FrameOfTransition

\* An answer: a frame that still gathers gets one vote.
LEMMA FrameOfAnswer ==
  ASSUME FrameInv, NEW d \in Drivers, NEW a \in Agents, NEW v \in Votes, Answer(d, a, v)
  PROVE  FrameInv'
<1> DEFINE j == [job[d] EXCEPT !.votes[a] = v]
<1>1. Transition(d, "gathering", "gathering", j) /\ UNCHANGED <<history, tickCount>>
  BY DEF Answer
<1>2. pc[d] = "gathering" /\ job[d] \in Job
  BY <1>1 DEF Transition, FrameInv, Frame
<1>3. j \in Job
  BY <1>2 DEF Job
<1> HIDE DEF j
<1>4. pc'[d] = "gathering" /\ job'[d] = j
  BY <1>1 DEF Transition, FrameInv, Typed
<1>5. Frame(d)'
  BY <1>3, <1>4 DEF Frame, Intends
<1> QED BY <1>1, <1>3, <1>5, FrameOfTransition DEF FrameInv, Typed

\* Every agent's answer is a vote.
LEMMA FrameOfVotes ==
  ASSUME FrameInv, NEW d \in Drivers, VotesStep(d)
  PROVE  FrameInv'
<1>1. "quant" \in Agents /\ "macro" \in Agents
  BY DEF Agents
<1>2. Hold \in Votes /\ Raised \in Votes
  BY DEF Hold, Raised, Vote, Votes, Action
<1>3. CASE QuantVotes(d)
  <2>1. job[d].sym \in Symbols
    BY <1>3 DEF QuantVotes, Answer, Transition, FrameInv, Frame, Job
  <2>2. QuantVote(history[job[d].sym]) \in Votes
    BY <2>1, QuantVoteType DEF FrameInv, Typed
  <2> QED BY <1>1, <1>3, <2>2, FrameOfAnswer DEF QuantVotes
<1>4. ASSUME NEW act \in Action, NEW percent \in Confidences, MacroVotes(d, act, percent)
      PROVE  FrameInv'
  <2>1. Vote(act, percent, 100) \in Votes
    BY VoteAssumption DEF Vote, Votes
  <2> QED BY <1>1, <1>4, <2>1, FrameOfAnswer DEF MacroVotes, MacroAnswers
<1>5. CASE MacroStub(d) \/ ModelFails(d) \/ AnswerUnparseable(d) \/ MacroRaises(d)
  BY <1>1, <1>2, <1>5, FrameOfAnswer
  DEF MacroStub, ModelFails, AnswerUnparseable, MacroRaises, MacroAnswers
<1> QED BY <1>3, <1>4, <1>5 DEF VotesStep

\* A decision: what the frame holds was computed from its votes.
LEMMA FrameOfDecide ==
  ASSUME FrameInv, NEW d \in Drivers, Decide(d)
  PROVE  FrameInv'
<1> DEFINE Goes(to, j) ==
      /\ Transition(d, "gathering", to, j)
      /\ UNCHANGED <<history, tickCount>>
<1>1. ASSUME NEW to \in {"ordering", "auditing"}, NEW j \in Job \cup {NoJob}, Goes(to, j)
      PROVE  pc'[d] = to /\ job'[d] = j /\ (Frame(d)' => FrameInv')
  <2>1. pc'[d] = to /\ job'[d] = j
    BY <1>1 DEF Transition, FrameInv, Typed
  <2> QED BY <1>1, <2>1, FrameOfTransition DEF FrameInv, Typed
<1>2. CASE Noop(d)
  <2>1. Goes("auditing", NoJob)
    BY <1>2 DEF Noop
  <2> HIDE DEF Goes
  <2>2. pc'[d] = "auditing" /\ job'[d] = NoJob /\ (Frame(d)' => FrameInv')
    BY <1>1, <2>1
  <2>3. Frame(d)'
    BY <2>2, NoJobIntendsNothing DEF Frame, Intends
  <2> QED BY <2>2, <2>3
<1>3. CASE Shadow(d) \/ PlaceOrder(d)
  <2>1. PICK to \in {"ordering", "auditing"} : Goes(to, Decided(d)) /\ Tradeable(d)
    BY <1>3 DEF Shadow, PlaceOrder
  <2>2. job[d] \in Job /\ Signal(d).act # "HOLD"
    BY <2>1 DEF Transition, FrameInv, Frame, Tradeable
  <2>3. Signal(d) \in Votes /\ Size(Signal(d)) \in Nat
    BY <2>2, SignalIsVote, SizeType DEF Signal, Job
  <2>4. /\ Decided(d) \in Job
        /\ Decided(d).votes = job[d].votes
        /\ Decided(d).signal = Signal(d)
        /\ Decided(d).qty = Size(Signal(d))
    BY <2>2, <2>3 DEF Job, Decided
  <2> HIDE DEF Goes
  <2>5. pc'[d] = to /\ job'[d] = Decided(d) /\ (Frame(d)' => FrameInv')
    BY <1>1, <2>1, <2>4
  <2>6. Frame(d)'
    BY <2>2, <2>4, <2>5 DEF Frame, Intends, Signal
  <2> QED BY <2>5, <2>6
<1> QED BY <1>2, <1>3 DEF Decide

\* FrameInv is inductive.
LEMMA FrameStep == ASSUME FrameInv, [Next]_vars PROVE FrameInv'
<1>1. CASE UNCHANGED vars
  BY <1>1 DEF vars, FrameInv, Typed, Frame, Intends
<1>2. ASSUME NEW d \in Drivers, OrderRejected(d) PROVE FrameInv'
  <2>1. Transition(d, "ordering", "auditing", job[d]) /\ UNCHANGED <<history, tickCount>>
    BY <1>2 DEF OrderRejected
  <2>2. pc[d] = "ordering" /\ pc'[d] = "auditing" /\ job'[d] = job[d]
    BY <2>1 DEF Transition, FrameInv, Typed
  <2>3. Frame(d)'
    BY <2>2 DEF FrameInv, Frame, Intends
  <2> QED BY <2>1, <2>3, FrameOfTransition DEF FrameInv, Typed
<1>3. ASSUME NEW d \in Drivers, Audit(d) PROVE FrameInv'
  <2>1. Transition(d, "auditing", "idle", NoJob) /\ UNCHANGED <<history, tickCount>>
    BY <1>3 DEF Audit
  <2>2. pc'[d] = "idle"
    BY <2>1 DEF Transition, FrameInv, Typed
  <2>3. Frame(d)'
    BY <2>2 DEF Frame, Intends
  <2> QED BY <2>1, <2>3, FrameOfTransition DEF FrameInv, Typed
<1> QED BY <1>1, <1>2, <1>3, FrameOfTick, FrameOfVotes, FrameOfDecide DEF Next, Progress

\* FrameInv holds at the start.
LEMMA FrameStart == ASSUME Init PROVE FrameInv
<1>1. history \in [Symbols -> Seq(Prices)] /\ \A s \in Symbols : Len(history[s]) <= Window
  <2>1. <<>> \in Seq(Prices) /\ Len(<<>>) <= Window
    BY WindowsAssumption
  <2> QED BY <2>1 DEF Init
<1>2. pc \in [Drivers -> {"idle", "gathering", "ordering", "auditing"}]
      /\ job \in [Drivers -> Job \cup {NoJob}] /\ tickCount \in Nat
  BY DEF Init
<1>3. \A d \in Drivers : Frame(d)
  <2>1. \A d \in Drivers : pc[d] = "idle"
    BY DEF Init
  <2> QED BY <2>1 DEF Frame, Intends
<1> QED BY <1>1, <1>2, <1>3 DEF FrameInv, Typed

\* TypeOK with the switches, which no step moves.
LEMMA SwitchesStep == ASSUME Switches, [Next]_vars PROVE Switches'
<1>1. UNCHANGED settings
  BY DEF Next, vars, OnTick, Progress, VotesStep, QuantVotes, MacroStub, ModelFails,
    AnswerUnparseable, MacroRaises, MacroVotes, MacroAnswers, Answer, Decide, Noop, Shadow,
    PlaceOrder, OrderRejected, Audit
<1> QED BY <1>1, Zenon DEF Switches, settings

\* Type correctness: whatever prices and answers come, windows stay within their length, votes
\* and signals are confidences between 0 and 1, and sizes are natural numbers.
THEOREM TypeCorrect == Spec => []TypeOK
<1>1. Init => FrameInv /\ Switches
  <2>1. Init => Switches
    BY Zenon DEF Init, Switches
  <2> QED BY <2>1, FrameStart
<1>2. FrameInv /\ [Next]_vars => FrameInv'
  BY FrameStep
<1>3. Switches /\ [Next]_vars => Switches'
  BY SwitchesStep
<1>4. FrameInv /\ Switches => TypeOK
  BY Zenon DEF FrameInv, Typed, Switches, TypeOK
<1> QED BY <1>1, <1>2, <1>3, <1>4, PTL DEF Spec

\* For every positive threshold, all weights and answers: an order that is sent or logged is
\* no more confident than some agent that voted for its side (TradingCoordinator._aggregate).
\* With a threshold of 0 a score of 0 buys, and no agent need have voted for it.
THEOREM OrdersAreBacked == ASSUME Threshold > 0 PROVE Spec => []OrderHasBacking
<1>1. FrameInv => OrderHasBacking
  <2> SUFFICES ASSUME FrameInv, NEW d \in Drivers, Intends(d)
               PROVE  \E a \in Agents :
                        LET v == job[d].votes[a]
                            s == job[d].signal
                        IN v.act = s.act /\ v.num * s.den >= s.num * v.den
    BY DEF OrderHasBacking
  <2>1. job[d].votes \in [Agents -> Votes] /\ job[d].signal = Aggregate(job[d].votes)
        /\ Aggregate(job[d].votes).act # "HOLD"
    BY DEF FrameInv, Frame, Job
  <2> QED BY <2>1, VoteBacked
<1> QED BY <1>1, FrameStart, FrameStep, PTL DEF Spec

\* The signal of an order is a confidence, and the order's size is computed from it.
LEMMA SizedOnTheLine ==
  ASSUME FrameInv, NEW d \in Drivers, Intends(d), Linear
  PROVE  /\ IsConfidence(job[d].signal)
         /\ job[d].qty = LinearSize(job[d].signal)
         /\ LinearSize(job[d].signal) # 0
<1>1. job[d].signal \in Votes /\ job[d].qty = Size(job[d].signal) /\ job[d].qty > 0
  BY DEF FrameInv, Frame, Intends, Job
<1> QED BY <1>1 DEF IsConfidence, Votes, Size

\* For every range, floor and agents: the size of an order that is sent or logged lies in the
\* range, half a share at most off the line (ConfidenceLinearSizer.size_for).
THEOREM OrdersAreOnTheLine == Spec => []OrderOnTheLine
<1>1. FrameInv => OrderOnTheLine
  <2> SUFFICES ASSUME FrameInv, Linear, NEW d \in Drivers, Intends(d)
               PROVE  LET c == job[d].signal
                          qty == job[d].qty
                          exact == MinQty * c.den + (MaxQty - MinQty) * c.num
                      IN /\ qty \in MinQty..MaxQty
                         /\ 100 * c.num >= MinConf * c.den
                         /\ 2 * (qty * c.den - exact) <= c.den
                         /\ 2 * (exact - qty * c.den) <= c.den
    BY DEF OrderOnTheLine
  <2> QED BY SizedOnTheLine, LinearSizeOnTheLine
<1> QED BY <1>1, FrameStart, FrameStep, PTL DEF Spec

--------------------------------------------------------------------------------
\* The drivers with a tick in flight, and the state TradingPipeline sees: a gathering driver is
\* one that decides, a job has a symbol while it gathers and an order while it orders.
Busy == {d \in Drivers : pc[d] # "idle"}

ViewedPc == [d \in Drivers |-> IF pc[d] = "gathering" THEN "deciding" ELSE pc[d]]

Blank == [sym |-> "", held |-> 0, last |-> -1, now |-> 0, act |-> "HOLD", qty |-> 0, ts |-> 0]

Viewed(d) == IF pc[d] \in {"gathering", "ordering"} THEN PipelineJob(d) ELSE Blank

\* A driver that leaves "idle" adds one tick in flight, one that returns takes one away.
LEMMA BusyMoves ==
  ASSUME FrameInv, NEW d \in Drivers, NEW from, NEW to, NEW j, Transition(d, from, to, j)
  PROVE  /\ Cardinality(Busy) \in Nat
         /\ from = "idle" /\ to # "idle" => Cardinality(Busy') = Cardinality(Busy) + 1
         /\ from # "idle" /\ to = "idle" => Cardinality(Busy') = Cardinality(Busy) - 1
         /\ from # "idle" /\ to # "idle" => Cardinality(Busy') = Cardinality(Busy)
<1>1. pc[d] = from /\ pc' = [pc EXCEPT ![d] = to] /\ DOMAIN pc = Drivers
  BY DEF Transition, FrameInv, Typed
<1>2. IsFiniteSet(Busy)
  BY SourcesAssumption, FS_Subset DEF Busy
<1>3. CASE from = "idle" /\ to # "idle"
  <2>1. Busy' = Busy \cup {d} /\ d \notin Busy
    BY <1>1, <1>3 DEF Busy
  <2> QED BY <1>2, <1>3, <2>1, FS_AddElement, FS_CardinalityType
<1>4. CASE from # "idle" /\ to = "idle"
  <2>1. Busy' = Busy \ {d} /\ d \in Busy
    BY <1>1, <1>4 DEF Busy
  <2> QED BY <1>2, <1>4, <2>1, FS_RemoveElement, FS_CardinalityType
<1>5. CASE from # "idle" /\ to # "idle"
  <2>1. Busy' = Busy
    BY <1>1, <1>5 DEF Busy
  <2> QED BY <1>2, <1>5, <2>1, FS_CardinalityType
<1>6. CASE from = "idle" /\ to = "idle"
  BY <1>2, <1>6, FS_CardinalityType
<1> QED BY <1>3, <1>4, <1>5, <1>6

\* What a step of driver d changes in the state that TradingPipeline sees.
LEMMA TransitionViewed ==
  ASSUME FrameInv, NEW d \in Drivers, NEW from, NEW to, NEW j, Transition(d, from, to, j)
  PROVE  /\ ViewedPc[d] = IF from = "gathering" THEN "deciding" ELSE from
         /\ ViewedPc' = [ViewedPc EXCEPT ![d] = IF to = "gathering" THEN "deciding" ELSE to]
         /\ [e \in Drivers |-> Viewed(e)]' = [[e \in Drivers |-> Viewed(e)] EXCEPT ![d] = Viewed(d)']
<1>1. pc[d] = from /\ pc' = [pc EXCEPT ![d] = to] /\ DOMAIN pc = Drivers
      /\ job' = [job EXCEPT ![d] = j] /\ DOMAIN job = Drivers
  BY DEF Transition, FrameInv, Typed
<1>2. ASSUME NEW e \in Drivers, e # d PROVE Viewed(e)' = Viewed(e)
  <2>1. pc'[e] = pc[e] /\ job'[e] = job[e]
    BY <1>1, <1>2
  <2> QED BY <2>1 DEF Viewed, PipelineJob
<1>3. [e \in Drivers |-> Viewed(e)]' = [[e \in Drivers |-> Viewed(e)] EXCEPT ![d] = Viewed(d)']
  BY <1>2
<1> QED BY <1>1, <1>3 DEF ViewedPc

ViewedJobs == [d \in Drivers |-> Viewed(d)]
ViewedAudited == tickCount - Cardinality(Busy)

\* TradingPipeline's Transition, said of the state it sees.
Moves(d, from, to, j) ==
  /\ ViewedPc[d] = from /\ ViewedPc' = [ViewedPc EXCEPT ![d] = to]
  /\ ViewedJobs' = [ViewedJobs EXCEPT ![d] = j]

LEMMA PipelineMoves ==
  ASSUME NEW d, NEW from, NEW to, NEW j
  PROVE  Pipeline!Transition(d, from, to, j) <=> Moves(d, from, to, j)
  BY DEF Pipeline!Transition, Moves, ViewedPc, ViewedJobs, Viewed, PipelineJob, Blank

\* "Never traded" is the constant -1 in the instance too.
LEMMA LedgerNever == Pipeline!Never = -1
  BY DEF Pipeline!Never, Pipeline!Ledger!Never

\* A tick is the pipeline's OnTick with an empty portfolio.
LEMMA TickViewed ==
  ASSUME FrameInv, NEW d \in Drivers, NEW s \in Symbols, NEW p \in Prices, OnTick(d, s, p)
  PROVE  Pipeline!Next
<1>1. Transition(d, "idle", "gathering", Gathering(s, Recent(history'[s], VolWindow)))
      /\ s \in Feeds[d] /\ tickCount < MaxTicks /\ tickCount' = tickCount + 1 /\ live' = live
  BY DEF OnTick, settings
<1>2. Viewed(d)' = [sym |-> s, held |-> 0, last |-> -1, now |-> 0, act |-> "HOLD", qty |-> 0, ts |-> 0]
  <2>1. pc'[d] = "gathering" /\ job'[d].sym = s
    BY <1>1 DEF Transition, FrameInv, Typed, Gathering
  <2> QED BY <2>1 DEF Viewed, PipelineJob
<1>3. Pipeline!GuardSnapshot(s) = Viewed(d)'
  BY <1>2 DEF Pipeline!GuardSnapshot
<1>4. Moves(d, "idle", "deciding", Viewed(d)')
  BY <1>1, TransitionViewed DEF Moves, ViewedJobs
<1>5. Pipeline!Transition(d, "idle", "deciding", Pipeline!GuardSnapshot(s))
  BY <1>3, <1>4, PipelineMoves
<1>6. ViewedAudited' = ViewedAudited
  <2>1. Cardinality(Busy) \in Nat /\ Cardinality(Busy') = Cardinality(Busy) + 1
    BY <1>1, BusyMoves
  <2>2. tickCount \in Nat
    BY DEF FrameInv, Typed
  <2> QED BY <1>1, <2>1, <2>2 DEF ViewedAudited
<1>7. Pipeline!OnTick(d, s)
  BY <1>1, <1>5, <1>6 DEF Pipeline!OnTick, Pipeline!portfolio, ViewedAudited, Busy
<1> QED BY <1>7 DEF Pipeline!Next

\* Every step but a tick leaves the count of ticks and the switches alone.
Quiet == UNCHANGED <<settings, history, tickCount>>

\* An agent's vote, an answer or a failure of the model, is a stutter of the pipeline.
LEMMA VotesViewed ==
  ASSUME FrameInv, NEW d \in Drivers, VotesStep(d)
  PROVE  UNCHANGED Pipeline!vars
<1>1. PICK a, v : Answer(d, a, v)
  BY DEF VotesStep, QuantVotes, MacroStub, ModelFails, AnswerUnparseable, MacroRaises,
         MacroVotes, MacroAnswers
<1> DEFINE j == [job[d] EXCEPT !.votes[a] = v]
<1>2. Transition(d, "gathering", "gathering", j) /\ Quiet
  BY <1>1 DEF Answer, Quiet
<1>3. pc[d] = "gathering" /\ pc'[d] = "gathering" /\ job'[d] = j /\ job[d] \in Job
  BY <1>2 DEF Transition, FrameInv, Typed, Frame
<1>4. j.sym = job[d].sym
  BY <1>3 DEF Job
<1>5. Viewed(d)' = Viewed(d)
  BY <1>3, <1>4 DEF Viewed, PipelineJob
<1>6. ViewedPc' = ViewedPc /\ ViewedJobs' = ViewedJobs
  <2>1. DOMAIN pc = Drivers /\ pc' = [pc EXCEPT ![d] = "gathering"]
    BY <1>2 DEF Transition, FrameInv, Typed
  <2>2. pc' = pc
    BY <1>3, <2>1, Zenon DEF FrameInv, Typed
  <2>3. ViewedJobs' = [ViewedJobs EXCEPT ![d] = Viewed(d)']
    BY <1>2, TransitionViewed, Zenon DEF ViewedJobs
  <2>4. ViewedJobs[d] = Viewed(d) /\ DOMAIN ViewedJobs = Drivers
        /\ ViewedJobs = [e \in DOMAIN ViewedJobs |-> ViewedJobs[e]]
    BY DEF ViewedJobs
  <2>5. [ViewedJobs EXCEPT ![d] = ViewedJobs[d]] = ViewedJobs
    BY <2>4
  <2>6. ViewedJobs' = ViewedJobs
    BY <1>5, <2>3, <2>4, <2>5, Zenon
  <2> QED BY <2>2, <2>6 DEF ViewedPc
<1>7. ViewedAudited' = ViewedAudited
  <2>1. Cardinality(Busy') = Cardinality(Busy)
    BY <1>2, BusyMoves
  <2> QED BY <1>2, <2>1 DEF ViewedAudited, Quiet
<1>8. UNCHANGED <<ViewedPc, ViewedJobs, ViewedAudited, live, tickCount>>
  BY <1>2, <1>6, <1>7 DEF Quiet, settings
<1> QED
  BY <1>8 DEF Pipeline!vars, Pipeline!portfolio, Pipeline!counters, ViewedPc, ViewedJobs, ViewedAudited,
    Viewed, PipelineJob, Blank, Busy

\* No size a sizer computes is above the bound the pipeline is given.
LEMMA LargestOrderIsLargest ==
  ASSUME NEW c \in Votes, Size(c) > 0
  PROVE  Size(c) \in 1..LargestOrder
<1>1. Size(c) \in Nat /\ LargestOrder \in Nat /\ MaxQty <= LargestOrder /\ FixedQty <= LargestOrder
  BY SizeType, SizerAssumption DEF LargestOrder
<1>2. CASE Linear
  <2>1. Size(c) = LinearSize(c) /\ IsConfidence(c) /\ LinearSize(c) # 0
    BY <1>2 DEF Size, IsConfidence, Votes
  <2>2. LinearSize(c) \in MinQty..MaxQty
    BY <2>1, LinearSizeOnTheLine
  <2> QED BY <1>1, <2>1, <2>2, SizerAssumption
<1>3. CASE ~Linear
  <2>1. Size(c) = FixedQty
    BY <1>3 DEF Size
  <2> QED BY <1>1, <2>1, SizerAssumption
<1> QED BY <1>2, <1>3

\* A decision is the pipeline's no-op, or an order of a side and a quantity it allows.
LEMMA DecideViewed ==
  ASSUME FrameInv, NEW d \in Drivers, Decide(d)
  PROVE  Pipeline!Next
<1>1. ASSUME NEW to \in {"ordering", "auditing"}, NEW j, Transition(d, "gathering", to, j), Quiet
      PROVE  /\ Moves(d, "deciding", to, Viewed(d)')
             /\ UNCHANGED <<ViewedAudited, live, tickCount>>
             /\ pc[d] = "gathering" /\ pc'[d] = to /\ job'[d] = j
  <2>1. Moves(d, "deciding", to, Viewed(d)')
    BY <1>1, TransitionViewed DEF Moves, ViewedJobs
  <2>2. Cardinality(Busy') = Cardinality(Busy)
    BY <1>1, BusyMoves
  <2>3. UNCHANGED <<ViewedAudited, live, tickCount>>
    BY <1>1, <2>2 DEF ViewedAudited, Quiet, settings
  <2>4. pc[d] = "gathering" /\ pc'[d] = to /\ job'[d] = j
    BY <1>1 DEF Transition, FrameInv, Typed
  <2> QED BY <2>1, <2>3, <2>4
<1>2. CASE Noop(d) \/ Shadow(d)
  <2>1. PICK j : Transition(d, "gathering", "auditing", j) /\ Quiet
    BY <1>2 DEF Noop, Shadow, Quiet
  <2>2. Moves(d, "deciding", "auditing", Viewed(d)') /\ UNCHANGED <<ViewedAudited, live, tickCount>>
        /\ pc'[d] = "auditing"
    BY <1>1, <2>1
  <2>3. Viewed(d)' = Pipeline!NoJob
    BY <2>2, LedgerNever DEF Viewed, PipelineJob, Blank, Pipeline!NoJob
  <2>4. Pipeline!Transition(d, "deciding", "auditing", Pipeline!NoJob)
    BY <2>2, <2>3, PipelineMoves
  <2>5. Pipeline!Noop(d)
    BY <2>2, <2>4 DEF Pipeline!Noop, Pipeline!portfolio, Pipeline!counters, ViewedAudited, Busy
  <2> QED BY <2>5 DEF Pipeline!Next, Pipeline!Progress, Pipeline!Decide
<1>3. CASE PlaceOrder(d)
  <2>1. Transition(d, "gathering", "ordering", Decided(d)) /\ Quiet /\ live /\ Tradeable(d)
    BY <1>3 DEF PlaceOrder, Quiet
  <2>2. /\ Moves(d, "deciding", "ordering", Viewed(d)') /\ UNCHANGED <<ViewedAudited, live, tickCount>>
        /\ pc[d] = "gathering" /\ pc'[d] = "ordering" /\ job'[d] = Decided(d)
    BY <1>1, <2>1
  <2>3. job[d] \in Job
    BY <2>2 DEF FrameInv, Frame
  <2> DEFINE action == Signal(d).act
             qty == Size(Signal(d))
  <2>4. Signal(d) \in Votes /\ action \in Pipeline!Side
    BY <2>1, <2>3, SignalIsVote DEF Signal, Job, Tradeable, Action, Pipeline!Side
  <2>5. qty \in 1..LargestOrder
    BY <2>1, <2>4, LargestOrderIsLargest DEF Tradeable
  <2>6. Decided(d).sym = job[d].sym /\ Decided(d).signal = Signal(d) /\ Decided(d).qty = qty
    BY <2>3 DEF Decided, Job
  <2> HIDE DEF action, qty
  <2>7. Viewed(d)' = [sym |-> job[d].sym, held |-> 0, last |-> -1, now |-> 0,
                      act |-> action, qty |-> qty, ts |-> 0]
    BY <2>2, <2>6 DEF Viewed, PipelineJob, action
  <2>8. ViewedJobs[d] = [sym |-> job[d].sym, held |-> 0, last |-> -1, now |-> 0,
                         act |-> "HOLD", qty |-> 0, ts |-> 0]
    BY <2>2 DEF ViewedJobs, Viewed, PipelineJob
  <2>9. Pipeline!Ordered(ViewedJobs[d], action, qty) = Viewed(d)'
    BY <2>7, <2>8 DEF Pipeline!Ordered
  <2>10. Pipeline!GuardsAllow(ViewedJobs[d], action)
    BY <2>8, LedgerNever
    DEF Pipeline!GuardsAllow, Pipeline!MaxPositionAllows, Pipeline!CoolDownAllows
  <2>11. Pipeline!Transition(d, "deciding", "ordering", Pipeline!Ordered(ViewedJobs[d], action, qty))
    <3>1. PICK x : x = Pipeline!Ordered(ViewedJobs[d], action, qty)
      OBVIOUS
    <3>2. Moves(d, "deciding", "ordering", x)
      BY <2>2, <2>9, <3>1 DEF Moves
    <3>3. Pipeline!Transition(d, "deciding", "ordering", x)
      BY <3>2, PipelineMoves
    <3> QED BY <3>1, <3>3 DEF Pipeline!Transition
  <2>12. Pipeline!PlaceOrder(d, action, qty)
    BY <2>1, <2>2, <2>10, <2>11
    DEF Pipeline!PlaceOrder, Pipeline!portfolio, Pipeline!counters, ViewedAudited, Busy,
      ViewedJobs, Viewed, PipelineJob, Blank
  <2> QED BY <2>4, <2>5, <2>12 DEF Pipeline!Next, Pipeline!Progress, Pipeline!Decide
<1> QED BY <1>2, <1>3 DEF Decide

\* A rejected order and the audit of a tick are the pipeline's.
LEMMA EndViewed ==
  ASSUME FrameInv, NEW d \in Drivers, OrderRejected(d) \/ Audit(d)
  PROVE  Pipeline!Next
<1>1. CASE OrderRejected(d)
  <2>1. Transition(d, "ordering", "auditing", job[d]) /\ Quiet
    BY <1>1 DEF OrderRejected, Quiet
  <2>2. pc'[d] = "auditing"
    BY <2>1 DEF Transition, FrameInv, Typed
  <2>3. Viewed(d)' = Pipeline!NoJob
    BY <2>2, LedgerNever DEF Viewed, PipelineJob, Blank, Pipeline!NoJob
  <2>4. Moves(d, "ordering", "auditing", Viewed(d)')
    BY <2>1, TransitionViewed DEF Moves, ViewedJobs
  <2>5. Pipeline!Transition(d, "ordering", "auditing", Pipeline!NoJob)
    BY <2>3, <2>4, PipelineMoves
  <2>6. Cardinality(Busy') = Cardinality(Busy)
    BY <2>1, BusyMoves
  <2>7. UNCHANGED <<ViewedAudited, live, tickCount>>
    BY <2>1, <2>6 DEF ViewedAudited, Quiet, settings
  <2>8. Pipeline!BrokerRejects(d)
    BY <2>5, <2>7 DEF Pipeline!BrokerRejects, Pipeline!portfolio, Pipeline!counters, ViewedAudited, Busy
  <2> QED BY <2>8 DEF Pipeline!Next, Pipeline!Progress, Pipeline!OrderStep
<1>2. CASE Audit(d)
  <2>1. Transition(d, "auditing", "idle", NoJob) /\ Quiet
    BY <1>2 DEF Audit, Quiet
  <2>2. pc'[d] = "idle"
    BY <2>1 DEF Transition, FrameInv, Typed
  <2>3. Viewed(d)' = Pipeline!NoJob
    BY <2>2, LedgerNever DEF Viewed, PipelineJob, Blank, Pipeline!NoJob
  <2>4. Moves(d, "auditing", "idle", Viewed(d)')
    BY <2>1, TransitionViewed DEF Moves, ViewedJobs
  <2>5. Pipeline!Transition(d, "auditing", "idle", Pipeline!NoJob)
    BY <2>3, <2>4, PipelineMoves
  <2>6. Cardinality(Busy) \in Nat /\ Cardinality(Busy') = Cardinality(Busy) - 1
    BY <2>1, BusyMoves
  <2>7. tickCount \in Nat
    BY DEF FrameInv, Typed
  <2>8. ViewedAudited' = ViewedAudited + 1 /\ UNCHANGED <<live, tickCount>>
    BY <2>1, <2>6, <2>7 DEF ViewedAudited, Quiet, settings
  <2>9. Pipeline!AuditPublished(d)
    BY <2>5, <2>8 DEF Pipeline!AuditPublished, Pipeline!portfolio, ViewedAudited, Busy
  <2> QED BY <2>9 DEF Pipeline!Next, Pipeline!Progress, Pipeline!AuditStep
<1> QED BY <1>1, <1>2

\* Every step of the decision core is a step or a stutter of the pipeline ...
LEMMA StepViewed ==
  ASSUME FrameInv, [Next]_vars
  PROVE  [Pipeline!Next]_(Pipeline!vars)
<1>1. CASE UNCHANGED vars
  <2>1. UNCHANGED <<live, tickCount, pc, job>>
    BY <1>1 DEF vars, settings
  <2>2. UNCHANGED Pipeline!vars
    BY <2>1 DEF Pipeline!vars, Pipeline!portfolio, Pipeline!counters, PipelineJob
  <2> QED BY <2>2
<1>2. CASE Next
  BY <1>2, TickViewed, VotesViewed, DecideViewed, EndViewed DEF Next, Progress
<1> QED BY <1>1, <1>2

\* ... and so is its start.
LEMMA StartViewed == ASSUME Init PROVE Pipeline!Init
<1>1. /\ tickCount = 0 /\ live \in BOOLEAN
      /\ pc = [d \in Drivers |-> "idle"]
  BY Zenon DEF Init
<1>2. Busy = {} /\ ViewedPc = [d \in Drivers |-> "idle"] /\ ViewedJobs = [d \in Drivers |-> Blank]
  BY <1>1 DEF Busy, ViewedPc, ViewedJobs, Viewed
<1>3. ViewedAudited = 0
  BY <1>1, <1>2, FS_EmptySet DEF ViewedAudited
<1>4. ViewedJobs = [d \in Drivers |-> Pipeline!NoJob] /\ Pipeline!Never = -1
  BY <1>2, LedgerNever DEF Blank, Pipeline!NoJob
<1>5. live \in BOOLEAN
  BY <1>1
<1> QED
  BY <1>1, <1>2, <1>3, <1>4, <1>5 DEF Pipeline!Init, ViewedPc, ViewedJobs, Viewed, PipelineJob, ViewedAudited, Busy, Blank

\* Votes, weighing, breaker and sizer refine the trading pipeline: whatever TickContext.record,
\* TradingCoordinator.evaluate and size_for compute, _process takes a step TradingPipeline allows.
THEOREM ImplementsPipeline == Spec => PipelineSpec
<1>1. Init => Pipeline!Init
  BY StartViewed
<1>2. FrameInv /\ [Next]_vars => [Pipeline!Next]_(Pipeline!vars)
  BY StepViewed
<1> QED BY <1>1, <1>2, FrameStart, FrameStep, PTL DEF Spec, PipelineSpec, Pipeline!Spec

================================================================================
