----------------------- MODULE TradingPipelineProofs -----------------------
(***************************************************************************)
(* Theorems about TradingPipeline, for every set of drivers and symbols,   *)
(* every limit and every bound.                                            *)
(***************************************************************************)
EXTENDS TradingPipeline, FiniteSetTheorems, TLAPS

\* The locals of a suspended _process frame, in the phases that use them.
JobOK ==
  \A d \in Drivers :
    /\ pc[d] \in {"deciding", "ordering", "replying"} => job[d] \in Job
    /\ pc[d] \in {"ordering", "replying"} => /\ job[d].act \in Side
                                             /\ job[d].qty \in 1..MaxQty

TypeInv == TypeOK /\ JobOK

LEMMA NoJobFacts == NoJob.act = "HOLD" /\ NoJob.qty = 0 /\ Never = -1
  BY DEF NoJob, Never, Ledger!Never

LEMMA SnapshotIsJob ==
  ASSUME TypeOK, NEW s \in Symbols
  PROVE  /\ GuardSnapshot(s) \in Job
         /\ GuardSnapshot(s).sym = s
         /\ GuardSnapshot(s).held = pos[s]
         /\ GuardSnapshot(s).last = lastTrade[s]
         /\ GuardSnapshot(s).now = clock
<1>1. 0 \in 0..MaxQty /\ 0 \in Nat
  BY LimitsAssumption
<1>2. pos[s] \in Nat /\ lastTrade[s] \in Nat \cup {Never} /\ clock \in Nat
  BY DEF TypeOK
<1>3. QED
  BY <1>1, <1>2 DEF GuardSnapshot, Job

LEMMA OrderIsJob ==
  ASSUME NEW j \in Job, NEW action \in Side, NEW qty \in 1..MaxQty, clock \in Nat
  PROVE  LET o == Ordered(j, action, qty) IN
         /\ o \in Job
         /\ o.act = action /\ o.qty = qty /\ o.ts = clock
         /\ o.sym = j.sym /\ o.held = j.held /\ o.last = j.last /\ o.now = j.now
  BY LimitsAssumption DEF Job, Ordered

LEMMA AfterFillFacts ==
  ASSUME NEW held \in Nat, NEW action \in Side, NEW qty \in 1..MaxQty
  PROVE  /\ Ledger!AfterFill(held, action, qty) \in Nat
         /\ action = "BUY" => Ledger!AfterFill(held, action, qty) = held + qty
         /\ action = "SELL" => Ledger!AfterFill(held, action, qty) <= held
  BY LimitsAssumption DEF Ledger!AfterFill, Side

LEMMA TypeInit == Init => TypeInv
  BY OpeningAssumption DEF Init, TypeInv, TypeOK, JobOK, Phase, Never, Ledger!Never

LEMMA TypeStep == TypeInv /\ [Next]_vars => TypeInv'
<1> SUFFICES ASSUME TypeInv, [Next]_vars PROVE TypeInv'
  OBVIOUS
<1> USE DEF TypeInv, TypeOK, JobOK
<1>1. CASE TimePasses
  BY <1>1 DEF TimePasses, portfolio, counters
<1>2. ASSUME NEW d \in Drivers, NEW s \in Symbols, OnTick(d, s) PROVE TypeInv'
  BY <1>2, SnapshotIsJob DEF OnTick, Transition, Phase, portfolio
<1>3. ASSUME NEW d \in Drivers, Noop(d) PROVE TypeInv'
  BY <1>3 DEF Noop, Transition, Phase, portfolio, counters
<1>4. ASSUME NEW d \in Drivers, Shadow(d) PROVE TypeInv'
  BY <1>4 DEF Shadow, Transition, Phase, portfolio, counters
<1>5. ASSUME NEW d \in Drivers, NEW action \in Side, NEW qty \in 1..MaxQty,
             PlaceOrder(d, action, qty)
      PROVE TypeInv'
  BY <1>5, OrderIsJob DEF PlaceOrder, Transition, Phase, portfolio, counters
<1>6. ASSUME NEW d \in Drivers, ProcessRaises(d) PROVE TypeInv'
  BY <1>6 DEF ProcessRaises, Transition, Phase, portfolio, counters
<1>7. ASSUME NEW d \in Drivers, BrokerAccepts(d) PROVE TypeInv'
  <2>1. job[d] \in Job /\ job[d].act \in Side /\ job[d].qty \in 1..MaxQty
    BY <1>7 DEF BrokerAccepts, Transition
  <2>2. broker' \in [Symbols -> Nat]
    BY <1>7, <2>1, LimitsAssumption DEF BrokerAccepts, Job, Side
  <2>3. QED
    BY <1>7, <2>1, <2>2 DEF BrokerAccepts, Transition, Phase, portfolio, counters
<1>8. ASSUME NEW d \in Drivers, BrokerRejects(d) PROVE TypeInv'
  BY <1>8 DEF BrokerRejects, Transition, Phase, portfolio, counters
<1>9. ASSUME NEW d \in Drivers, ReplyLost(d) PROVE TypeInv'
  BY <1>9 DEF ReplyLost, Transition, Phase, portfolio, counters, Job
<1>10. ASSUME NEW d \in Drivers, RecordFill(d) PROVE TypeInv'
  <2>1. job[d] \in Job /\ job[d].act \in Side /\ job[d].qty \in 1..MaxQty
    BY <1>10 DEF RecordFill, Transition
  <2>2. job[d].sym \in Symbols /\ job[d].ts \in Nat
    BY <2>1 DEF Job
  <2>3. pos' \in [Symbols -> Nat]
    BY <1>10, <2>1, <2>2, AfterFillFacts DEF RecordFill
  <2>4. QED
    BY <1>10, <2>2, <2>3 DEF RecordFill, Transition, Phase
<1>11. ASSUME NEW d \in Drivers, AuditPublished(d) PROVE TypeInv'
  BY <1>11 DEF AuditPublished, Transition, Phase, portfolio
<1>12. ASSUME NEW d \in Drivers, AuditFails(d) PROVE TypeInv'
  BY <1>12 DEF AuditFails, Transition, Phase, portfolio
<1>13. ASSUME NEW d \in Drivers, Cancel(d) PROVE TypeInv'
  BY <1>13 DEF Cancel, Phase, portfolio, counters, Job
<1>14. CASE UNCHANGED vars
  BY <1>14 DEF vars, portfolio, counters
<1>15. QED
  BY <1>1, <1>2, <1>3, <1>4, <1>5, <1>6, <1>7, <1>8, <1>9, <1>10, <1>11, <1>12,
     <1>13, <1>14
  DEF Next, Progress, Decide, OrderStep, AuditStep

\* The state of the pipeline keeps its shape, and a task that waits for the
\* broker holds a complete order.
LEMMA TypeInvariant == Spec => []TypeInv
  BY TypeInit, TypeStep, PTL DEF Spec

\* Every variable of the pipeline keeps its type: positions never go negative
\* (the SELL clamp of record_fill), a suspended frame holds a well-formed order.
THEOREM TypeCorrect == Spec => []TypeOK
<1>1. TypeInv => TypeOK
  BY DEF TypeInv
<1>2. QED
  BY <1>1, TypeInvariant, PTL

-----------------------------------------------------------------------------
(* The position bound.  A driver is "approved" for s while it may still     *)
(* buy s on a snapshot taken below the maximum.  Once the position reached  *)
(* the maximum no driver becomes approved any more, so the room left above  *)
(* it only shrinks: one order of at most MaxQty per approved driver.        *)

Working  == {"deciding", "ordering", "replying"}
Holding(d, s) == pc[d] \in Working /\ job[d].sym = s
Approved(s) == {d \in Drivers : Holding(d, s) /\ job[d].held < MaxShares}
Room(n) == MaxShares - 1 + n * MaxQty

JobsAreFed ==
  \A d \in Drivers : pc[d] \in Working => d \in FeedersOf(job[d].sym)

BuysWereAllowed ==
  \A d \in Drivers :
    pc[d] \in {"ordering", "replying"} /\ job[d].act = "BUY" => job[d].held < MaxShares

ApprovedFitsFor(s) ==
  pos[s] > 0 /\ pos[s] >= MaxShares =>
    pos[s] + Cardinality(Approved(s)) * MaxQty <= Room(Cardinality(FeedersOf(s)))

ApprovedFits == \A s \in Symbols : ApprovedFitsFor(s)

PositionInv == JobsAreFed /\ BuysWereAllowed /\ ApprovedFits

LEMMA ScaleMonotone ==
  ASSUME NEW m \in Nat, NEW n \in Nat, m <= n
  PROVE  m * MaxQty <= n * MaxQty
<1>1. PICK k \in Nat : n = m + k
  <2>1. n - m \in Nat /\ n = m + (n - m)
    OBVIOUS
  <2>2. QED
    BY <2>1
<1>2. n * MaxQty = m * MaxQty + k * MaxQty /\ k * MaxQty \in Nat /\ m * MaxQty \in Nat
  BY <1>1, LimitsAssumption
<1>3. QED
  BY <1>2

LEMMA ScaleStep ==
  ASSUME NEW n \in Nat
  PROVE  /\ (n + 1) * MaxQty = n * MaxQty + MaxQty
         /\ n * MaxQty \in Nat
         /\ MaxQty \in Nat
  BY LimitsAssumption

LEMMA Finiteness ==
  ASSUME NEW s \in Symbols
  PROVE  /\ IsFiniteSet(Approved(s)) /\ IsFiniteSet(FeedersOf(s))
         /\ Cardinality(Approved(s)) \in Nat /\ Cardinality(FeedersOf(s)) \in Nat
<1>1. IsFiniteSet(Approved(s)) /\ IsFiniteSet(FeedersOf(s))
  BY DriversAssumption, FS_Subset DEF Approved, FeedersOf
<1>2. QED
  BY <1>1, FS_CardinalityType

\* The bound on s survives a step that neither buys s nor, at the maximum,
\* approves another driver.
LEMMA NoBuyKeepsFit ==
  ASSUME TypeInv, TypeInv', ApprovedFits, NEW s \in Symbols,
         pos'[s] <= pos[s],
         pos'[s] >= MaxShares => Approved(s)' \subseteq Approved(s)
  PROVE  ApprovedFitsFor(s)'
<1> SUFFICES ASSUME pos'[s] > 0, pos'[s] >= MaxShares
             PROVE  pos'[s] + Cardinality(Approved(s)') * MaxQty
                      <= Room(Cardinality(FeedersOf(s)))
  BY DEF ApprovedFitsFor, FeedersOf, Room
<1>1. pos[s] \in Nat /\ pos'[s] \in Nat /\ MaxShares \in Nat
  BY LimitsAssumption DEF TypeInv, TypeOK
<1>2. pos[s] + Cardinality(Approved(s)) * MaxQty <= Room(Cardinality(FeedersOf(s)))
  BY <1>1 DEF ApprovedFits, ApprovedFitsFor
<1>3. /\ Cardinality(Approved(s)') \in Nat
      /\ Cardinality(Approved(s)) \in Nat
      /\ Cardinality(Approved(s)') <= Cardinality(Approved(s))
  BY Finiteness, FS_Subset, FS_CardinalityType
<1>4. Cardinality(Approved(s)') * MaxQty <= Cardinality(Approved(s)) * MaxQty
  BY <1>3, ScaleMonotone
<1>5. /\ Cardinality(Approved(s)') * MaxQty \in Nat
      /\ Cardinality(Approved(s)) * MaxQty \in Nat
      /\ Room(Cardinality(FeedersOf(s))) \in Int
  BY <1>3, ScaleStep, Finiteness, LimitsAssumption DEF Room
<1>6. QED
  BY <1>1, <1>2, <1>4, <1>5

\* At the maximum a recorded buy uses up its driver's approval; below it, the
\* fill lands within one order of the maximum with the other feeders left.
LEMMA BuyFits ==
  ASSUME TypeInv, TypeInv', PositionInv, NEW d \in Drivers, RecordFill(d),
         job[d].act = "BUY", NEW s \in Symbols, s = job[d].sym
  PROVE  ApprovedFitsFor(s)'
<1> DEFINE n == Cardinality(FeedersOf(s))
           a == Cardinality(Approved(s))
           b == Cardinality(Approved(s)')
<1>1. /\ job[d] \in Job /\ job[d].qty \in 1..MaxQty
      /\ job[d].held \in Nat /\ job[d].held < MaxShares
      /\ d \in FeedersOf(s) /\ d \in Approved(s)
  BY DEF RecordFill, Transition, TypeInv, JobOK, Job, PositionInv, JobsAreFed,
         BuysWereAllowed, Approved, Holding, Working
<1>2. pos'[s] = pos[s] + job[d].qty /\ pos[s] \in Nat
  BY <1>1, AfterFillFacts DEF RecordFill, TypeInv, TypeOK, Side
<1>3. Approved(s)' \subseteq Approved(s) \ {d}
  <2>1. /\ pc'[d] = "auditing"
        /\ \A e \in Drivers \ {d} : pc'[e] = pc[e] /\ job'[e] = job[e]
    BY DEF RecordFill, Transition, TypeInv, TypeOK
  <2>2. QED
    BY <2>1 DEF Approved, Holding, Working
<1>4. Approved(s) \subseteq FeedersOf(s)
  BY DEF PositionInv, JobsAreFed, Approved, Holding
<1>5. n \in Nat /\ a \in Nat /\ IsFiniteSet(Approved(s)) /\ IsFiniteSet(FeedersOf(s))
  BY <1>1, Finiteness
<1>6. b \in Nat /\ b + 1 <= a
  BY <1>1, <1>3, <1>5, FS_RemoveElement, FS_Subset, FS_CardinalityType
<1>7. a <= n
  BY <1>4, <1>5, FS_Subset
<1> HIDE DEF n, a, b
<1>8. /\ b * MaxQty + MaxQty <= a * MaxQty
      /\ a * MaxQty <= n * MaxQty
      /\ b * MaxQty \in Nat /\ a * MaxQty \in Nat /\ n * MaxQty \in Nat /\ MaxQty \in Nat
  <2>1. (b + 1) * MaxQty = b * MaxQty + MaxQty
    BY <1>6, ScaleStep
  <2>2. (b + 1) * MaxQty <= a * MaxQty
    BY <1>5, <1>6, ScaleMonotone
  <2>3. QED
    BY <2>1, <2>2, <1>5, <1>6, <1>7, ScaleMonotone, ScaleStep
<1>9. pos'[s] + b * MaxQty <= MaxShares - 1 + n * MaxQty
  <2>1. CASE pos[s] >= MaxShares
    <3>1. pos[s] > 0
      BY <2>1, <1>1, <1>2, LimitsAssumption
    <3>2. pos[s] + a * MaxQty <= MaxShares - 1 + n * MaxQty
      BY <3>1, <2>1, <1>1 DEF PositionInv, ApprovedFits, ApprovedFitsFor, Room, a, n
    <3>3. QED
      BY <3>2, <1>1, <1>2, <1>8, LimitsAssumption
  <2>2. CASE pos[s] < MaxShares
    BY <2>2, <1>1, <1>2, <1>8, LimitsAssumption
  <2>3. QED
    BY <2>1, <2>2, <1>2, LimitsAssumption
<1>10. QED
  BY <1>9, <1>1 DEF ApprovedFitsFor, Room, FeedersOf, RecordFill, Transition, a, b, n

LEMMA PositionInit == Init => PositionInv
<1> SUFFICES ASSUME Init PROVE PositionInv
  OBVIOUS
<1>1. JobsAreFed /\ BuysWereAllowed
  BY DEF Init, JobsAreFed, BuysWereAllowed, Working
<1>2. ApprovedFits
  BY DEF Init, ApprovedFits, ApprovedFitsFor
<1>3. QED
  BY <1>1, <1>2 DEF PositionInv

\* A step that leaves the portfolio alone and puts no driver to work.
LEMMA QuietKeepsPosition ==
  ASSUME TypeInv, TypeInv', PositionInv, UNCHANGED pos,
         \A d \in Drivers :
           pc'[d] \in Working => pc[d] = pc'[d] /\ job'[d] = job[d]
  PROVE  PositionInv'
<1>1. JobsAreFed' /\ BuysWereAllowed'
  BY DEF PositionInv, JobsAreFed, BuysWereAllowed, FeedersOf, Working
<1>2. ASSUME NEW s \in Symbols PROVE ApprovedFitsFor(s)'
  <2>1. Approved(s)' \subseteq Approved(s)
    BY DEF Approved, Holding
  <2>2. pos'[s] <= pos[s]
    BY <1>2 DEF TypeInv, TypeOK
  <2>3. QED
    BY <2>1, <2>2, NoBuyKeepsFit DEF PositionInv
<1>3. QED
  BY <1>1, <1>2 DEF PositionInv, ApprovedFits

LEMMA PositionStep == TypeInv /\ TypeInv' /\ PositionInv /\ [Next]_vars => PositionInv'
<1> SUFFICES ASSUME TypeInv, TypeInv', PositionInv, [Next]_vars PROVE PositionInv'
  OBVIOUS
<1>0. pc \in [Drivers -> Phase] /\ job \in [Drivers -> Job \cup {NoJob}]
      /\ pos \in [Symbols -> Nat]
  BY DEF TypeInv, TypeOK
<1>1. CASE TimePasses \/ UNCHANGED vars
  BY <1>1, QuietKeepsPosition DEF TimePasses, vars, portfolio
<1>2. ASSUME NEW d \in Drivers, NEW s \in Symbols, OnTick(d, s) PROVE PositionInv'
  <2>1. /\ job'[d] = GuardSnapshot(s) /\ pc'[d] = "deciding" /\ d \in FeedersOf(s)
        /\ \A e \in Drivers \ {d} : pc'[e] = pc[e] /\ job'[e] = job[e]
        /\ pos' = pos
    BY <1>0, <1>2 DEF OnTick, Transition, FeedersOf, portfolio
  <2>2. GuardSnapshot(s).sym = s /\ GuardSnapshot(s).held = pos[s]
    BY DEF GuardSnapshot
  <2>3. JobsAreFed' /\ BuysWereAllowed'
    BY <2>1, <2>2 DEF PositionInv, JobsAreFed, BuysWereAllowed, FeedersOf, Working
  <2>4. ASSUME NEW t \in Symbols PROVE ApprovedFitsFor(t)'
    <3>1. pos'[t] >= MaxShares => Approved(t)' \subseteq Approved(t)
      BY <2>1, <2>2, <1>0, LimitsAssumption DEF Approved, Holding
    <3>2. pos'[t] <= pos[t]
      BY <1>0, <2>1
    <3>3. QED
      BY <3>1, <3>2, NoBuyKeepsFit DEF PositionInv
  <2>5. QED
    BY <2>3, <2>4 DEF PositionInv, ApprovedFits
<1>3. ASSUME NEW d \in Drivers, Noop(d) PROVE PositionInv'
  BY <1>0, <1>3, QuietKeepsPosition DEF Noop, Transition, portfolio, Working
<1>4. ASSUME NEW d \in Drivers, Shadow(d) PROVE PositionInv'
  BY <1>0, <1>4, QuietKeepsPosition DEF Shadow, Transition, portfolio, Working
<1>5. ASSUME NEW d \in Drivers, NEW action \in Side, NEW qty \in 1..MaxQty,
             PlaceOrder(d, action, qty)
      PROVE PositionInv'
  <2>1. /\ pc[d] = "deciding" /\ job'[d] = Ordered(job[d], action, qty)
        /\ pc'[d] = "ordering" /\ job[d] \in Job
        /\ \A e \in Drivers \ {d} : pc'[e] = pc[e] /\ job'[e] = job[e]
        /\ pos' = pos
    BY <1>0, <1>5 DEF PlaceOrder, Transition, portfolio, TypeInv, JobOK
  <2>2. /\ job'[d].sym = job[d].sym /\ job'[d].held = job[d].held
        /\ job'[d].act = action
    BY <2>1 DEF Ordered
  <2>3. action = "BUY" => job[d].held < MaxShares
    BY <1>5 DEF PlaceOrder, GuardsAllow, MaxPositionAllows
  <2>4. JobsAreFed' /\ BuysWereAllowed'
    BY <2>1, <2>2, <2>3 DEF PositionInv, JobsAreFed, BuysWereAllowed, FeedersOf, Working
  <2>5. ASSUME NEW t \in Symbols PROVE ApprovedFitsFor(t)'
    <3>1. Approved(t)' \subseteq Approved(t)
      BY <2>1, <2>2 DEF Approved, Holding, Working
    <3>2. pos'[t] <= pos[t]
      BY <1>0, <2>1
    <3>3. QED
      BY <3>1, <3>2, NoBuyKeepsFit DEF PositionInv
  <2>6. QED
    BY <2>4, <2>5 DEF PositionInv, ApprovedFits
<1>6. ASSUME NEW d \in Drivers, ProcessRaises(d) PROVE PositionInv'
  BY <1>0, <1>6, QuietKeepsPosition DEF ProcessRaises, Transition, portfolio, Working
<1>7. ASSUME NEW d \in Drivers, BrokerAccepts(d) PROVE PositionInv'
  <2>1. /\ pc[d] = "ordering" /\ pc'[d] = "replying" /\ job' = job
        /\ \A e \in Drivers \ {d} : pc'[e] = pc[e]
        /\ pos' = pos
    BY <1>0, <1>7 DEF BrokerAccepts, Transition, portfolio
  <2>2. JobsAreFed' /\ BuysWereAllowed'
    BY <2>1 DEF PositionInv, JobsAreFed, BuysWereAllowed, FeedersOf, Working
  <2>3. ASSUME NEW t \in Symbols PROVE ApprovedFitsFor(t)'
    <3>1. Approved(t)' \subseteq Approved(t)
      BY <2>1 DEF Approved, Holding, Working
    <3>2. pos'[t] <= pos[t]
      BY <1>0, <2>1
    <3>3. QED
      BY <3>1, <3>2, NoBuyKeepsFit DEF PositionInv
  <2>4. QED
    BY <2>2, <2>3 DEF PositionInv, ApprovedFits
<1>8. ASSUME NEW d \in Drivers, BrokerRejects(d) PROVE PositionInv'
  BY <1>0, <1>8, QuietKeepsPosition DEF BrokerRejects, Transition, portfolio, Working
<1>9. ASSUME NEW d \in Drivers, ReplyLost(d) PROVE PositionInv'
  BY <1>0, <1>9, QuietKeepsPosition DEF ReplyLost, Transition, portfolio, Working
<1>10. ASSUME NEW d \in Drivers, RecordFill(d) PROVE PositionInv'
  <2>1. /\ job[d] \in Job /\ job[d].sym \in Symbols
        /\ job[d].act \in Side /\ job[d].qty \in 1..MaxQty
        /\ pc'[d] = "auditing"
        /\ \A e \in Drivers \ {d} : pc'[e] = pc[e] /\ job'[e] = job[e]
        /\ \A t \in Symbols \ {job[d].sym} : pos'[t] = pos[t]
    BY <1>0, <1>10 DEF RecordFill, Transition, TypeInv, JobOK, Job
  <2>2. JobsAreFed' /\ BuysWereAllowed'
    BY <2>1 DEF PositionInv, JobsAreFed, BuysWereAllowed, FeedersOf, Working
  <2>3. ASSUME NEW t \in Symbols PROVE ApprovedFitsFor(t)'
    <3>1. Approved(t)' \subseteq Approved(t)
      BY <2>1 DEF Approved, Holding, Working
    <3>2. CASE t = job[d].sym /\ job[d].act = "BUY"
      BY <3>2, <1>10, <2>1, BuyFits
    <3>3. CASE ~(t = job[d].sym /\ job[d].act = "BUY")
      <4>1. pos'[t] <= pos[t]
        <5>1. CASE t # job[d].sym
          BY <5>1, <2>1, <1>0
        <5>2. CASE t = job[d].sym
          <6>1. job[d].act = "SELL" /\ pos[t] \in Nat
            BY <5>2, <3>3, <2>1, <1>0 DEF Side
          <6>2. pos'[t] = Ledger!AfterFill(pos[t], job[d].act, job[d].qty)
            BY <5>2, <1>0, <1>10 DEF RecordFill
          <6>3. QED
            BY <6>1, <6>2, <2>1, AfterFillFacts
        <5>3. QED
          BY <5>1, <5>2
      <4>2. QED
        BY <4>1, <3>1, NoBuyKeepsFit DEF PositionInv
    <3>4. QED
      BY <3>2, <3>3
  <2>4. QED
    BY <2>2, <2>3 DEF PositionInv, ApprovedFits
<1>11. ASSUME NEW d \in Drivers, AuditPublished(d) PROVE PositionInv'
  BY <1>0, <1>11, QuietKeepsPosition DEF AuditPublished, Transition, portfolio, Working
<1>12. ASSUME NEW d \in Drivers, AuditFails(d) PROVE PositionInv'
  BY <1>0, <1>12, QuietKeepsPosition DEF AuditFails, Transition, portfolio, Working
<1>13. ASSUME NEW d \in Drivers, Cancel(d) PROVE PositionInv'
  BY <1>0, <1>13, QuietKeepsPosition DEF Cancel, portfolio, Working
<1>15. QED
  BY <1>1, <1>2, <1>3, <1>4, <1>5, <1>6, <1>7, <1>8, <1>9, <1>10, <1>11, <1>12, <1>13
  DEF Next, Progress, Decide, OrderStep, AuditStep

\* However many publishers feed a symbol, its position stays within one order
\* of the largest size per publisher above the guard's maximum.
THEOREM PositionBounded == Spec => []PositionBound
<1>1. TypeInv /\ PositionInv => PositionBound
  <2> SUFFICES ASSUME TypeInv, PositionInv, NEW s \in Symbols, pos[s] > 0
               PROVE pos[s] <= MaxShares - 1 + Cardinality(FeedersOf(s)) * MaxQty
    BY DEF PositionBound
  <2>1. /\ pos[s] \in Nat /\ MaxShares \in Nat
        /\ Cardinality(FeedersOf(s)) * MaxQty \in Nat
        /\ Cardinality(Approved(s)) * MaxQty \in Nat
    BY Finiteness, ScaleStep, LimitsAssumption DEF TypeInv, TypeOK
  <2>2. pos[s] >= MaxShares =>
          pos[s] + Cardinality(Approved(s)) * MaxQty
            <= MaxShares - 1 + Cardinality(FeedersOf(s)) * MaxQty
    BY DEF PositionInv, ApprovedFits, ApprovedFitsFor, Room
  <2>3. QED
    BY <2>1, <2>2
<1>2. QED
  BY <1>1, TypeInit, TypeStep, PositionInit, PositionStep, PTL DEF Spec

-----------------------------------------------------------------------------
(* Shadow mode.                                                            *)

LEMMA ShadowStep == TypeInv /\ ShadowNeverTrades /\ [Next]_vars => ShadowNeverTrades'
<1> SUFFICES ASSUME TypeInv, ShadowNeverTrades, [Next]_vars PROVE ShadowNeverTrades'
  OBVIOUS
<1>0. pc \in [Drivers -> Phase]
  BY DEF TypeInv, TypeOK
<1> USE DEF ShadowNeverTrades, Transition, portfolio
<1>1. CASE TimePasses \/ UNCHANGED vars
  BY <1>1 DEF TimePasses, vars
<1>2. ASSUME NEW d \in Drivers, NEW s \in Symbols, OnTick(d, s) PROVE ShadowNeverTrades'
  BY <1>0, <1>2 DEF OnTick
<1>3. ASSUME NEW d \in Drivers, Noop(d) \/ Shadow(d) \/ ProcessRaises(d)
      PROVE ShadowNeverTrades'
  BY <1>0, <1>3 DEF Noop, Shadow, ProcessRaises
<1>4. ASSUME NEW d \in Drivers, NEW action \in Side, NEW qty \in 1..MaxQty,
             PlaceOrder(d, action, qty)
      PROVE ShadowNeverTrades'
  BY <1>4 DEF PlaceOrder
<1>5. ASSUME NEW d \in Drivers, OrderStep(d) PROVE ShadowNeverTrades'
  BY <1>0, <1>5 DEF OrderStep, BrokerAccepts, BrokerRejects, ReplyLost, RecordFill
<1>6. ASSUME NEW d \in Drivers, AuditStep(d) PROVE ShadowNeverTrades'
  BY <1>0, <1>6 DEF AuditStep, AuditPublished, AuditFails
<1>7. ASSUME NEW d \in Drivers, Cancel(d) PROVE ShadowNeverTrades'
  BY <1>0, <1>7 DEF Cancel
<1>8. QED
  BY <1>1, <1>2, <1>3, <1>4, <1>5, <1>6, <1>7 DEF Next, Progress, Decide

\* An executor built with the safety switch off never has an order in flight.
THEOREM ShadowSafe == Spec => []ShadowNeverTrades
<1>1. Init => ShadowNeverTrades
  BY DEF Init, ShadowNeverTrades
<1>2. QED
  BY <1>1, TypeInit, TypeStep, ShadowStep, PTL DEF Spec

-----------------------------------------------------------------------------
(* With one publisher per symbol the snapshot a task judged is still the   *)
(* portfolio when its fill is recorded, so fills are atomic.               *)

SnapshotFresh ==
  \A d \in Drivers :
    pc[d] \in Working =>
      /\ d \in FeedersOf(job[d].sym)
      /\ job[d].held = pos[job[d].sym]
      /\ job[d].last = lastTrade[job[d].sym]
      /\ job[d].now <= clock

OrderApproved ==
  \A d \in Drivers :
    pc[d] \in {"ordering", "replying"} =>
      /\ MaxPositionAllows(job[d], job[d].act)
      /\ CoolDownAllows(job[d])
      /\ job[d].now <= job[d].ts
      /\ job[d].ts <= clock

FreshInv == SnapshotFresh /\ OrderApproved

LEMMA FreshInit == Init => FreshInv
  BY DEF Init, FreshInv, SnapshotFresh, OrderApproved, Working

LEMMA QuietKeepsFresh ==
  ASSUME FreshInv, UNCHANGED portfolio, clock \in Nat, clock' \in {clock, clock + 1},
         TypeInv,
         \A d \in Drivers :
           pc'[d] \in Working => pc[d] = pc'[d] /\ job'[d] = job[d]
  PROVE  FreshInv'
<1>1. ASSUME NEW d \in Drivers, pc'[d] \in Working
      PROVE  job[d].now \in Nat /\ job[d].ts \in Nat
  BY <1>1 DEF TypeInv, JobOK, Job, Working
<1>2. SnapshotFresh'
  BY <1>1 DEF FreshInv, SnapshotFresh, FeedersOf, portfolio
<1>3. OrderApproved'
  BY <1>1 DEF FreshInv, OrderApproved, MaxPositionAllows, CoolDownAllows, Working
<1>4. QED
  BY <1>2, <1>3 DEF FreshInv

LEMMA FreshStep ==
  ASSUME SoleFeeder
  PROVE  TypeInv /\ FreshInv /\ [Next]_vars => FreshInv'
<1> SUFFICES ASSUME TypeInv, FreshInv, [Next]_vars PROVE FreshInv'
  OBVIOUS
<1>0. /\ pc \in [Drivers -> Phase] /\ job \in [Drivers -> Job \cup {NoJob}]
      /\ pos \in [Symbols -> Nat] /\ clock \in Nat
      /\ lastTrade \in [Symbols -> Nat \cup {Never}]
  BY DEF TypeInv, TypeOK
<1>1. CASE TimePasses \/ UNCHANGED vars
  BY <1>0, <1>1, QuietKeepsFresh DEF TimePasses, vars
<1>2. ASSUME NEW d \in Drivers, NEW s \in Symbols, OnTick(d, s) PROVE FreshInv'
  <2>1. /\ job'[d] = GuardSnapshot(s) /\ pc'[d] = "deciding" /\ d \in FeedersOf(s)
        /\ \A e \in Drivers \ {d} : pc'[e] = pc[e] /\ job'[e] = job[e]
        /\ UNCHANGED <<clock, pos, lastTrade>>
    BY <1>0, <1>2 DEF OnTick, Transition, FeedersOf, portfolio
  <2>2. /\ GuardSnapshot(s).sym = s /\ GuardSnapshot(s).held = pos[s]
        /\ GuardSnapshot(s).last = lastTrade[s] /\ GuardSnapshot(s).now = clock
    BY DEF GuardSnapshot
  <2>3. SnapshotFresh'
    BY <1>0, <2>1, <2>2 DEF FreshInv, SnapshotFresh, FeedersOf
  <2>4. OrderApproved'
    BY <2>1 DEF FreshInv, OrderApproved, MaxPositionAllows, CoolDownAllows
  <2>5. QED
    BY <2>3, <2>4 DEF FreshInv
<1>3. ASSUME NEW d \in Drivers, Noop(d) \/ Shadow(d) \/ ProcessRaises(d) PROVE FreshInv'
  BY <1>0, <1>3, QuietKeepsFresh DEF Noop, Shadow, ProcessRaises, Transition, portfolio, Working
<1>4. ASSUME NEW d \in Drivers, NEW action \in Side, NEW qty \in 1..MaxQty,
             PlaceOrder(d, action, qty)
      PROVE FreshInv'
  <2>1. /\ pc[d] = "deciding" /\ job'[d] = Ordered(job[d], action, qty)
        /\ pc'[d] = "ordering" /\ job[d] \in Job
        /\ \A e \in Drivers \ {d} : pc'[e] = pc[e] /\ job'[e] = job[e]
        /\ UNCHANGED <<clock, pos, lastTrade>>
        /\ GuardsAllow(job[d], action)
    BY <1>0, <1>4 DEF PlaceOrder, Transition, portfolio, TypeInv, JobOK
  <2>2. LET o == job'[d] IN
        /\ o.sym = job[d].sym /\ o.held = job[d].held /\ o.last = job[d].last
        /\ o.now = job[d].now /\ o.act = action /\ o.ts = clock
    BY <2>1 DEF Ordered
  <2>3. SnapshotFresh'
    BY <2>1, <2>2 DEF FreshInv, SnapshotFresh, FeedersOf, Working
  <2>4. job[d].now <= clock /\ clock <= clock
    BY <2>1, <1>0 DEF FreshInv, SnapshotFresh, Working
  <2>5. OrderApproved'
    BY <2>1, <2>2, <2>4
    DEF FreshInv, OrderApproved, GuardsAllow, MaxPositionAllows, CoolDownAllows
  <2>6. QED
    BY <2>3, <2>5 DEF FreshInv
<1>5. ASSUME NEW d \in Drivers, BrokerAccepts(d) PROVE FreshInv'
  <2>1. /\ pc[d] = "ordering" /\ pc'[d] = "replying" /\ job' = job
        /\ \A e \in Drivers \ {d} : pc'[e] = pc[e]
        /\ UNCHANGED <<clock, pos, lastTrade>>
    BY <1>0, <1>5 DEF BrokerAccepts, Transition, portfolio
  <2>2. QED
    BY <2>1 DEF FreshInv, SnapshotFresh, OrderApproved, FeedersOf, Working,
                MaxPositionAllows, CoolDownAllows
<1>6. ASSUME NEW d \in Drivers, BrokerRejects(d) \/ ReplyLost(d) PROVE FreshInv'
  BY <1>0, <1>6, QuietKeepsFresh DEF BrokerRejects, ReplyLost, Transition, portfolio, Working
<1>7. ASSUME NEW d \in Drivers, RecordFill(d) PROVE FreshInv'
  <2>1. /\ pc[d] = "replying" /\ pc'[d] = "auditing" /\ job[d].sym \in Symbols
        /\ \A e \in Drivers \ {d} : pc'[e] = pc[e] /\ job'[e] = job[e]
        /\ \A t \in Symbols \ {job[d].sym} :
             pos'[t] = pos[t] /\ lastTrade'[t] = lastTrade[t]
        /\ clock' = clock
    BY <1>0, <1>7 DEF RecordFill, Transition, TypeInv, JobOK, Job
  <2>2. ASSUME NEW e \in Drivers, pc'[e] \in Working
        PROVE  e # d /\ job[e].sym \in Symbols /\ job[e].sym # job[d].sym
    <3>1. e # d /\ pc[e] \in Working /\ job[e].sym \in Symbols
      BY <2>1, <2>2 DEF Working, TypeInv, JobOK, Job
    <3>2. e \in FeedersOf(job[e].sym) /\ d \in FeedersOf(job[d].sym)
      BY <3>1, <2>1 DEF FreshInv, SnapshotFresh, Working
    <3>3. QED
      BY <3>1, <3>2, <2>1 DEF SoleFeeder, FeedersOf
  <2>3. SnapshotFresh'
    BY <2>1, <2>2 DEF FreshInv, SnapshotFresh, FeedersOf
  <2>4. OrderApproved'
    BY <2>1, <2>2 DEF FreshInv, OrderApproved, Working, MaxPositionAllows, CoolDownAllows
  <2>5. QED
    BY <2>3, <2>4 DEF FreshInv
<1>8. ASSUME NEW d \in Drivers, AuditStep(d) PROVE FreshInv'
  BY <1>0, <1>8, QuietKeepsFresh
  DEF AuditStep, AuditPublished, AuditFails, Transition, portfolio, Working
<1>9. ASSUME NEW d \in Drivers, Cancel(d) PROVE FreshInv'
  BY <1>0, <1>9, QuietKeepsFresh DEF Cancel, portfolio, Working
<1>10. QED
  BY <1>1, <1>2, <1>3, <1>4, <1>5, <1>6, <1>7, <1>8, <1>9
  DEF Next, Progress, Decide, OrderStep

\* A recorded fill is one the guards would allow at the moment it is recorded.
LEMMA FillIsAtomic ==
  ASSUME TypeInv, FreshInv, NEW d \in Drivers, RecordFill(d)
  PROVE  /\ Ledger!Fill(job[d].sym, job[d].act, job[d].qty, job[d].ts)
         /\ job[d].sym \in Symbols /\ job[d].act \in {"BUY", "SELL"}
         /\ job[d].qty \in 1..MaxQty /\ job[d].ts \in 0..clock
<1> DEFINE s == job[d].sym
<1>1. /\ job[d] \in Job /\ s \in Symbols /\ job[d].act \in Side
      /\ job[d].qty \in 1..MaxQty /\ job[d].ts \in Nat /\ job[d].now \in Nat
      /\ pc[d] = "replying" /\ clock \in Nat
      /\ job[d].last \in Nat \cup {Never}
  BY DEF RecordFill, Transition, TypeInv, TypeOK, JobOK, Job
<1>2. job[d].now <= job[d].ts /\ job[d].ts <= clock
  BY <1>1 DEF FreshInv, OrderApproved
<1>3. job[d].act = "BUY" => pos[s] < MaxShares
  BY <1>1 DEF FreshInv, OrderApproved, SnapshotFresh, Working, MaxPositionAllows
<1>4. lastTrade[s] = Ledger!Never \/ job[d].ts - lastTrade[s] >= Cooldown
  <2>1. job[d].last = lastTrade[s] /\ CoolDownAllows(job[d])
    BY <1>1 DEF FreshInv, OrderApproved, SnapshotFresh, Working
  <2>2. CASE job[d].last = Never
    BY <2>1, <2>2 DEF Never
  <2>3. CASE job[d].last # Never
    BY <2>1, <2>3, <1>1, <1>2, LimitsAssumption DEF CoolDownAllows
  <2>4. QED
    BY <2>2, <2>3
<1>5. QED
  BY <1>1, <1>2, <1>3, <1>4 DEF Ledger!Fill, RecordFill, Side

LEMMA StepIsLedgerStep ==
  ASSUME TypeInv, FreshInv, [Next]_vars
  PROVE  [Ledger!Next]_(Ledger!vars)
<1>1. CASE TimePasses
  BY <1>1 DEF TimePasses, portfolio, Ledger!Next, Ledger!TimePasses
<1>2. ASSUME NEW d \in Drivers, RecordFill(d) PROVE Ledger!Next
  BY <1>2, FillIsAtomic DEF Ledger!Next
<1>3. ASSUME NEW d \in Drivers,
             \/ \E s \in Symbols : OnTick(d, s)
             \/ Decide(d)
             \/ BrokerAccepts(d) \/ BrokerRejects(d) \/ ReplyLost(d)
             \/ AuditStep(d)
             \/ Cancel(d)
      PROVE UNCHANGED <<clock, pos, lastTrade>>
  BY <1>3 DEF OnTick, Decide, Noop, Shadow, PlaceOrder, ProcessRaises, BrokerAccepts,
              BrokerRejects, ReplyLost, AuditStep, AuditPublished, AuditFails, Cancel,
              portfolio
<1>4. CASE UNCHANGED vars
  BY <1>4 DEF vars, portfolio, Ledger!vars
<1>5. QED
  BY <1>1, <1>2, <1>3, <1>4 DEF Next, Progress, OrderStep, Ledger!vars

\* With one publisher per symbol, snapshot, awaits and broker reply together
\* behave as one atomic guarded fill.
THEOREM ImplementsLedger == SoleFeeder => (Spec => LedgerSpec)
<1> SUFFICES ASSUME SoleFeeder PROVE Spec => LedgerSpec
  OBVIOUS
<1>1. Init => Ledger!Init
  BY DEF Init, Ledger!Init, Never
<1>2. TypeInv /\ FreshInv /\ [Next]_vars => [Ledger!Next]_(Ledger!vars)
  BY StepIsLedgerStep
<1>3. TypeInv /\ FreshInv /\ [Next]_vars => FreshInv'
  BY FreshStep
<1>4. QED
  BY <1>1, <1>2, <1>3, TypeInit, TypeStep, FreshInit, PTL DEF Spec, LedgerSpec, Ledger!Spec

\* With one publisher per symbol the cool-down separates recorded trades.
THEOREM CoolDownSpaced == SoleFeeder => (Spec => CoolDownSpacing)
<1> SUFFICES ASSUME SoleFeeder PROVE Spec => CoolDownSpacing
  OBVIOUS
<1> DEFINE Spaced ==
      \A s \in Symbols :
        (pos[s]' # pos[s] \/ lastTrade[s]' # lastTrade[s]) =>
          lastTrade[s] = Never \/ lastTrade[s]' - lastTrade[s] >= Cooldown
<1>1. ASSUME TypeInv, FreshInv, [Next]_vars PROVE Spaced
  <2>1. [Ledger!Next]_(Ledger!vars)
    BY <1>1, StepIsLedgerStep
  <2>2. ASSUME NEW s \in Symbols, NEW action \in {"BUY", "SELL"},
               NEW qty \in 1..MaxQty, NEW ts \in 0..clock, Ledger!Fill(s, action, qty, ts)
        PROVE  Spaced
    BY <1>1, <2>2 DEF Ledger!Fill, TypeInv, TypeOK, Never
  <2>3. QED
    BY <2>1, <2>2 DEF Ledger!Next, Ledger!TimePasses, Ledger!vars
<1>2. TypeInv /\ FreshInv /\ [Next]_vars => FreshInv'
  BY FreshStep
<1>3. TypeInv /\ FreshInv /\ [Next]_vars => [Spaced]_vars
  BY <1>1
<1> HIDE DEF Spaced
<1>4. Spec => [][Spaced]_vars
  BY <1>2, <1>3, TypeInit, TypeStep, FreshInit, PTL DEF Spec
<1>5. QED
  BY <1>4 DEF CoolDownSpacing, Spaced

-----------------------------------------------------------------------------
(* Tick accounting.                                                        *)

Unsettled == {d \in Drivers : pc[d] \in InFlight \cup {"cancelled"}}

LEMMA UnsettledFinite == IsFiniteSet(Unsettled) /\ Cardinality(Unsettled) \in Nat
  BY DriversAssumption, FS_Subset, FS_CardinalityType DEF Unsettled

\* A task that starts a tick adds itself to the unsettled ones, one that
\* settles it removes itself, any other step keeps them.
LEMMA UnsettledChange ==
  ASSUME pc \in [Drivers -> Phase], NEW d \in Drivers, NEW to \in Phase,
         pc' = [pc EXCEPT ![d] = to]
  PROVE  /\ pc[d] = "idle" /\ to = "deciding" =>
              Cardinality(Unsettled') = Cardinality(Unsettled) + 1
         /\ pc[d] \in InFlight /\ to = "idle" =>
              Cardinality(Unsettled') = Cardinality(Unsettled) - 1
         /\ pc[d] \in InFlight /\ to \in InFlight \cup {"cancelled"} =>
              Unsettled' = Unsettled
         /\ pc[d] = "idle" /\ to = "stopped" => Unsettled' = Unsettled
<1>1. ASSUME pc[d] = "idle", to = "deciding"
      PROVE  Cardinality(Unsettled') = Cardinality(Unsettled) + 1
  <2>1. Unsettled' = Unsettled \cup {d} /\ d \notin Unsettled
    BY <1>1 DEF Unsettled, InFlight
  <2>2. QED
    BY <2>1, UnsettledFinite, FS_AddElement
<1>2. ASSUME pc[d] \in InFlight, to = "idle"
      PROVE  Cardinality(Unsettled') = Cardinality(Unsettled) - 1
  <2>1. Unsettled' = Unsettled \ {d} /\ d \in Unsettled
    BY <1>2 DEF Unsettled, InFlight
  <2>2. QED
    BY <2>1, UnsettledFinite, FS_RemoveElement
<1>3. ASSUME pc[d] \in InFlight, to \in InFlight \cup {"cancelled"}
      PROVE  Unsettled' = Unsettled
  BY <1>3 DEF Unsettled, InFlight
<1>4. ASSUME pc[d] = "idle", to = "stopped" PROVE Unsettled' = Unsettled
  BY <1>4 DEF Unsettled, InFlight
<1>5. QED
  BY <1>1, <1>2, <1>3, <1>4

LEMMA TickStep == TypeInv /\ TickAccounting /\ [Next]_vars => TickAccounting'
<1> SUFFICES ASSUME TypeInv, TickAccounting, [Next]_vars PROVE TickAccounting'
  OBVIOUS
<1> DEFINE balance == audited + auditFailureCount + errorCount + Cardinality(Unsettled)
<1>0. /\ pc \in [Drivers -> Phase]
      /\ audited \in Nat /\ auditFailureCount \in Nat /\ errorCount \in Nat
      /\ tickCount \in Nat /\ Cardinality(Unsettled) \in Nat
      /\ tickCount = balance
  BY UnsettledFinite DEF TypeInv, TypeOK, TickAccounting, Unsettled
<1> SUFFICES tickCount' = balance'
  BY DEF TickAccounting, Unsettled
<1>1. CASE TimePasses \/ UNCHANGED vars
  BY <1>0, <1>1 DEF TimePasses, vars, counters, Unsettled
<1>2. ASSUME NEW d \in Drivers, NEW s \in Symbols, OnTick(d, s) PROVE tickCount' = balance'
  <2>1. Cardinality(Unsettled') = Cardinality(Unsettled) + 1
    BY <1>0, <1>2, UnsettledChange DEF OnTick, Transition, Phase
  <2>2. QED
    BY <1>0, <1>2, <2>1 DEF OnTick
<1>3. ASSUME NEW d \in Drivers, ProcessRaises(d) PROVE tickCount' = balance'
  <2>1. Cardinality(Unsettled') = Cardinality(Unsettled) - 1
    BY <1>0, <1>3, UnsettledChange DEF ProcessRaises, Transition, Phase, InFlight
  <2>2. QED
    BY <1>0, <1>3, <2>1 DEF ProcessRaises
<1>4. ASSUME NEW d \in Drivers, AuditPublished(d) PROVE tickCount' = balance'
  <2>1. Cardinality(Unsettled') = Cardinality(Unsettled) - 1
    BY <1>0, <1>4, UnsettledChange DEF AuditPublished, Transition, Phase, InFlight
  <2>2. QED
    BY <1>0, <1>4, <2>1 DEF AuditPublished
<1>5. ASSUME NEW d \in Drivers, AuditFails(d) PROVE tickCount' = balance'
  <2>1. Cardinality(Unsettled') = Cardinality(Unsettled) - 1
    BY <1>0, <1>5, UnsettledChange DEF AuditFails, Transition, Phase, InFlight
  <2>2. QED
    BY <1>0, <1>5, <2>1 DEF AuditFails
<1>6. ASSUME NEW d \in Drivers,
             \/ Noop(d)
             \/ Shadow(d)
             \/ \E action \in Side, qty \in 1..MaxQty : PlaceOrder(d, action, qty)
             \/ OrderStep(d)
      PROVE tickCount' = balance'
  <2>1. PICK to \in InFlight : pc[d] \in InFlight /\ pc' = [pc EXCEPT ![d] = to]
    BY <1>6 DEF Noop, Shadow, PlaceOrder, OrderStep, BrokerAccepts, BrokerRejects,
                ReplyLost, RecordFill, Transition, InFlight
  <2>2. UNCHANGED <<tickCount, errorCount, auditFailureCount, audited>>
    BY <1>6 DEF Noop, Shadow, PlaceOrder, OrderStep, BrokerAccepts, BrokerRejects,
                ReplyLost, RecordFill, counters
  <2>3. to \in Phase
    BY DEF InFlight, Phase
  <2>4. Unsettled' = Unsettled
    BY <1>0, <2>1, <2>3, UnsettledChange
  <2>5. QED
    BY <1>0, <2>2, <2>4
<1>7. ASSUME NEW d \in Drivers, Cancel(d) PROVE tickCount' = balance'
  <2>1. PICK to \in Phase : /\ pc' = [pc EXCEPT ![d] = to]
                            /\ \/ pc[d] = "idle" /\ to = "stopped"
                               \/ pc[d] \in InFlight /\ to = "cancelled"
    BY <1>0, <1>7 DEF Cancel, InFlight, Phase
  <2>2. Unsettled' = Unsettled
    BY <1>0, <2>1, UnsettledChange
  <2>3. QED
    BY <1>0, <1>7, <2>2 DEF Cancel, counters
<1>8. QED
  BY <1>1, <1>2, <1>3, <1>4, <1>5, <1>6, <1>7 DEF Next, Progress, Decide, AuditStep

\* No interleaving, failure or cancellation loses a tick from the counters or
\* counts it twice.
THEOREM TicksAccounted == Spec => []TickAccounting
<1>1. Init => TickAccounting
  <2> SUFFICES ASSUME Init PROVE TickAccounting
    OBVIOUS
  <2>1. {d \in Drivers : pc[d] \in InFlight \cup {"cancelled"}} = {}
    BY DEF Init, InFlight
  <2>2. QED
    BY <2>1, FS_EmptySet DEF Init, TickAccounting
<1>2. QED
  BY <1>1, TypeInit, TypeStep, TickStep, PTL DEF Spec

-----------------------------------------------------------------------------
(* Portfolio and broker account.                                           *)

Awaits(d, s) == pc[d] = "replying" /\ job[d].sym = s

LEMMA BrokerStep ==
  ASSUME SoleFeeder
  PROVE  TypeInv /\ TypeInv' /\ FreshInv /\ FreshInv' /\ BrokerAgrees /\ [Next]_vars
           => BrokerAgrees'
<1> SUFFICES ASSUME TypeInv, TypeInv', FreshInv, FreshInv', BrokerAgrees, [Next]_vars,
                    NEW s \in Symbols, s \notin lost'
             PROVE  \/ Tracks(s, pos[s])' /\ \A d \in FeedersOf(s) : ~Awaits(d, s)'
                    \/ \E d \in FeedersOf(s) :
                         /\ Awaits(d, s)'
                         /\ Tracks(s, Ledger!AfterFill(pos[s], job[d].act, job[d].qty))'
  BY DEF BrokerAgrees, Awaits, FeedersOf
<1> DEFINE Agreed ==
      \/ Tracks(s, pos[s]) /\ \A d \in FeedersOf(s) : ~Awaits(d, s)
      \/ \E d \in FeedersOf(s) :
           /\ Awaits(d, s)
           /\ Tracks(s, Ledger!AfterFill(pos[s], job[d].act, job[d].qty))
<1>0. /\ pc \in [Drivers -> Phase] /\ job \in [Drivers -> Job \cup {NoJob}]
      /\ broker \in [Symbols -> Nat] /\ pos \in [Symbols -> Nat]
      /\ Opening[s] \in Nat
  BY OpeningAssumption DEF TypeInv, TypeOK
<1>a. s \notin lost => Agreed
  BY DEF BrokerAgrees, Awaits
<1>b. \A d, e \in FeedersOf(s) : d = e
  BY DEF SoleFeeder, FeedersOf
<1>1. ASSUME UNCHANGED <<broker, pos, lost>>,
             \A d \in FeedersOf(s) : Awaits(d, s)' <=> Awaits(d, s),
             \A d \in FeedersOf(s) : Awaits(d, s) => job'[d] = job[d]
      PROVE  Agreed'
  BY <1>1, <1>a DEF FeedersOf, Tracks
<1>2. CASE TimePasses \/ UNCHANGED vars
  BY <1>1, <1>2 DEF TimePasses, vars, portfolio, Awaits
<1>3. ASSUME NEW d \in Drivers, NEW t \in Symbols, OnTick(d, t) PROVE Agreed'
  BY <1>0, <1>1, <1>3 DEF OnTick, Transition, portfolio, Awaits, FeedersOf
<1>4. ASSUME NEW d \in Drivers, Noop(d) \/ Shadow(d) \/ ProcessRaises(d) PROVE Agreed'
  BY <1>0, <1>1, <1>4 DEF Noop, Shadow, ProcessRaises, Transition, portfolio, Awaits, FeedersOf
<1>5. ASSUME NEW d \in Drivers, NEW action \in Side, NEW qty \in 1..MaxQty,
             PlaceOrder(d, action, qty)
      PROVE  Agreed'
  BY <1>0, <1>1, <1>5 DEF PlaceOrder, Transition, portfolio, Awaits, FeedersOf
<1>6. ASSUME NEW d \in Drivers, BrokerAccepts(d) PROVE Agreed'
  <2>1. /\ pc[d] = "ordering" /\ pc'[d] = "replying" /\ job' = job
        /\ \A e \in Drivers \ {d} : pc'[e] = pc[e]
        /\ pos' = pos /\ lost' = lost
        /\ job[d].sym \in Symbols /\ job[d].act \in Side /\ job[d].qty \in 1..MaxQty
    BY <1>0, <1>6 DEF BrokerAccepts, Transition, portfolio, TypeInv, JobOK, Job
  <2>2. d \in FeedersOf(job[d].sym)
    BY <2>1 DEF FreshInv, SnapshotFresh, Working
  <2>3. CASE job[d].sym = s
    <3>1. Tracks(s, pos[s])
      BY <1>a, <1>b, <2>1, <2>2, <2>3 DEF Awaits
    <3>2. broker'[s] = IF job[d].act = "BUY" THEN broker[s] + job[d].qty
                                             ELSE broker[s] - job[d].qty
      BY <1>0, <1>6, <2>3 DEF BrokerAccepts
    <3>3. job[d].act = "SELL" => broker[s] >= job[d].qty
      BY <1>6, <2>3 DEF BrokerAccepts
    <3>4. Tracks(s, Ledger!AfterFill(pos[s], job[d].act, job[d].qty))'
      <4>0. broker[s] \in Nat /\ pos[s] \in Nat /\ job[d].qty \in Nat
        BY <1>0, <2>1, LimitsAssumption
      <4>1. CASE job[d].act = "BUY"
        BY <4>0, <4>1, <3>1, <3>2, <2>1, <1>0 DEF Ledger!AfterFill, Tracks
      <4>2. CASE job[d].act = "SELL"
        BY <4>0, <4>2, <3>1, <3>2, <3>3, <2>1, <1>0 DEF Ledger!AfterFill, Tracks
      <4>3. QED
        BY <4>1, <4>2, <2>1 DEF Side
    <3>5. QED
      BY <3>4, <2>1, <2>2, <2>3 DEF Awaits, FeedersOf
  <2>4. CASE job[d].sym # s
    <3>1. broker'[s] = broker[s]
      BY <1>0, <1>6, <2>4 DEF BrokerAccepts
    <3>2. \A e \in FeedersOf(s) : Awaits(e, s)' <=> Awaits(e, s)
      BY <2>1, <2>4 DEF Awaits, FeedersOf
    <3>3. QED
      BY <3>1, <3>2, <2>1, <1>a DEF FeedersOf, Tracks
  <2>5. QED
    BY <2>3, <2>4
<1>7. ASSUME NEW d \in Drivers, BrokerRejects(d) PROVE Agreed'
  BY <1>0, <1>1, <1>7 DEF BrokerRejects, Transition, portfolio, Awaits, FeedersOf
<1>8. ASSUME NEW d \in Drivers, ReplyLost(d) PROVE Agreed'
  <2>1. /\ job[d].sym # s /\ s \notin lost
        /\ \A e \in Drivers \ {d} : pc'[e] = pc[e] /\ job'[e] = job[e]
        /\ pc'[d] = "auditing" /\ UNCHANGED <<broker, pos>>
    BY <1>0, <1>8 DEF ReplyLost, Transition, portfolio
  <2>2. \A e \in FeedersOf(s) : /\ Awaits(e, s)' <=> Awaits(e, s)
                                /\ Awaits(e, s) => job'[e] = job[e]
    BY <2>1 DEF Awaits, FeedersOf
  <2>3. QED
    BY <2>1, <2>2, <1>a DEF FeedersOf, Tracks
<1>9. ASSUME NEW d \in Drivers, RecordFill(d) PROVE Agreed'
  <2>1. /\ pc[d] = "replying" /\ pc'[d] = "auditing" /\ job[d].sym \in Symbols
        /\ \A e \in Drivers \ {d} : pc'[e] = pc[e] /\ job'[e] = job[e]
        /\ \A t \in Symbols \ {job[d].sym} : pos'[t] = pos[t]
        /\ UNCHANGED <<broker, lost>>
    BY <1>0, <1>9 DEF RecordFill, Transition, TypeInv, JobOK, Job
  <2>2. d \in FeedersOf(job[d].sym)
    BY <2>1 DEF FreshInv, SnapshotFresh, Working
  <2>3. CASE job[d].sym = s
    <3>1. Tracks(s, Ledger!AfterFill(pos[s], job[d].act, job[d].qty))
      BY <1>a, <1>b, <2>1, <2>2, <2>3 DEF Awaits
    <3>2. pos'[s] = Ledger!AfterFill(pos[s], job[d].act, job[d].qty)
      BY <1>0, <1>9, <2>3 DEF RecordFill
    <3>3. \A e \in FeedersOf(s) : ~Awaits(e, s)'
      BY <1>b, <2>1, <2>2, <2>3 DEF Awaits
    <3>4. QED
      BY <3>1, <3>2, <3>3, <2>1 DEF FeedersOf, Tracks
  <2>4. CASE job[d].sym # s
    <3>1. \A e \in FeedersOf(s) : /\ Awaits(e, s)' <=> Awaits(e, s)
                                  /\ Awaits(e, s) => job'[e] = job[e]
      BY <2>1, <2>4 DEF Awaits, FeedersOf
    <3>2. QED
      BY <3>1, <2>1, <2>4, <1>a DEF FeedersOf, Tracks
  <2>5. QED
    BY <2>3, <2>4
<1>10. ASSUME NEW d \in Drivers, AuditStep(d) PROVE Agreed'
  BY <1>0, <1>1, <1>10
  DEF AuditStep, AuditPublished, AuditFails, Transition, portfolio, Awaits, FeedersOf
<1>11. ASSUME NEW d \in Drivers, Cancel(d) PROVE Agreed'
  <2>1. /\ ~Awaits(d, s) /\ s \notin lost
        /\ \A e \in Drivers \ {d} : pc'[e] = pc[e] /\ job'[e] = job[e]
        /\ pc'[d] \in {"stopped", "cancelled"} /\ UNCHANGED <<broker, pos>>
    BY <1>0, <1>11 DEF Cancel, portfolio, Awaits
  <2>2. \A e \in FeedersOf(s) : /\ Awaits(e, s)' <=> Awaits(e, s)
                                /\ Awaits(e, s) => job'[e] = job[e]
    BY <2>1 DEF Awaits, FeedersOf
  <2>3. QED
    BY <2>1, <2>2, <1>a DEF FeedersOf, Tracks
<1>12. Agreed'
  BY <1>2, <1>3, <1>4, <1>5, <1>6, <1>7, <1>8, <1>9, <1>10, <1>11
  DEF Next, Progress, Decide, OrderStep
<1>13. QED
  BY <1>12 DEF FeedersOf

\* With one publisher per symbol, and whatever the account holds when the
\* process starts, the portfolio never claims more than the account has and
\* never misses more than what was there at the start, until an accepted
\* order's reply is lost.
THEOREM BrokerTracked == SoleFeeder => (Spec => []BrokerAgrees)
<1> SUFFICES ASSUME SoleFeeder PROVE Spec => []BrokerAgrees
  OBVIOUS
<1>1. Init => BrokerAgrees
  BY OpeningAssumption DEF Init, BrokerAgrees, Tracks, FeedersOf
<1>2. TypeInv /\ FreshInv /\ [Next]_vars => FreshInv'
  BY FreshStep
<1>3. TypeInv /\ TypeInv' /\ FreshInv /\ FreshInv' /\ BrokerAgrees /\ [Next]_vars
        => BrokerAgrees'
  BY BrokerStep
<1>4. QED
  BY <1>1, <1>2, <1>3, TypeInit, TypeStep, FreshInit, PTL DEF Spec
=============================================================================
