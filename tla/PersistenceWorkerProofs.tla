----------------------- MODULE PersistenceWorkerProofs -----------------------
(***************************************************************************)
(* Theorems about PersistenceWorker, for every threshold, buffer limit,    *)
(* key assignment and bound.                                               *)
(***************************************************************************)
EXTENDS PersistenceWorker, SequenceTheorems, FunctionTheorems, FiniteSetTheorems,
        TLAPS

\* Who holds the batch, and how far stop() got: the batch belongs to the flush
\* or to the drain, and stop() leaves each task behind it done and empty.
Stages ==
  /\ batch # <<>> => tickPc = "flushing" \/ stopPc = "draining"
  /\ tickPc = "flushing" => stopPc \in {"up", "cancelTick"}
  /\ stopPc \in {"cancelAudit", "draining", "stopped"} => tickPc = "done" /\ inbox = <<>>
  /\ stopPc \in {"draining", "stopped"} => buffer = <<>>

IInv == TypeOK /\ Stages /\ BufferBelowThreshold /\ TickConservation

-----------------------------------------------------------------------------
(* Sequences.                                                              *)

LEMMA TailFacts ==
  ASSUME NEW S, NEW s \in Seq(S), s # <<>>
  PROVE  Tail(s) \in Seq(S) /\ Head(s) \in S /\ Len(s) = Len(Tail(s)) + 1
                            /\ Len(s) \in Nat /\ Len(Tail(s)) \in Nat
  BY HeadTailProperties

LEMMA EmptyFacts ==
  ASSUME NEW S
  PROVE  <<>> \in Seq(S) /\ Len(<<>>) = 0
  BY EmptySeq

\* A read appends one tick to a buffer below its limit: nothing is evicted.
LEMMA EnqueueFacts ==
  ASSUME buffer \in Seq(1..MaxPublished), BufferBelowThreshold, NEW t \in 1..MaxPublished
  PROVE  /\ EnqueueTick(buffer, t) \in Seq(1..MaxPublished)
         /\ Len(EnqueueTick(buffer, t)) = Len(buffer) + 1
         /\ Len(buffer) # BufferMax
<1>1. Len(buffer) \in Nat /\ Len(buffer) # BufferMax
  BY WorkerAssumption DEF BufferBelowThreshold
<1>2. EnqueueTick(buffer, t) = Append(buffer, t)
  BY <1>1 DEF EnqueueTick
<1>3. QED
  BY <1>1, <1>2, AppendProperties

\* An iteration moves the buffer into the batch or keeps it below the threshold.
LEMMA FlushOrReadFacts ==
  ASSUME NEW b \in Seq(1..MaxPublished), FlushOrRead(b), batch = <<>>,
         tickPc = "reading", due \in BOOLEAN
  PROVE  /\ buffer' \in Seq(1..MaxPublished) /\ batch' \in Seq(1..MaxPublished)
         /\ Len(buffer') + Len(batch') = Len(b)
         /\ Len(buffer') \in Nat /\ Len(batch') \in Nat
         /\ Len(buffer') < FlushThreshold
         /\ tickPc' \in {"reading", "flushing"}
         /\ tickPc' = "reading" => batch' = <<>>
         /\ due' \in BOOLEAN
<1>1. Len(b) \in Nat /\ Len(<<>>) = 0 /\ <<>> \in Seq(1..MaxPublished)
  BY EmptySeq
<1>2. CASE Len(b) >= FlushThreshold \/ (due /\ b # <<>>)
  <2>1. batch' = b /\ buffer' = <<>> /\ tickPc' = "flushing" /\ due' = FALSE
    BY <1>2 DEF FlushOrRead
  <2>2. Len(buffer') = 0 /\ Len(batch') = Len(b)
    BY <2>1, <1>1
  <2>3. buffer' \in Seq(1..MaxPublished) /\ batch' \in Seq(1..MaxPublished)
    BY <2>1, <1>1
  <2>4. Len(buffer') < FlushThreshold
    BY <2>2, WorkerAssumption
  <2>5. due' \in BOOLEAN
    BY <2>1, Zenon
  <2>6. QED
    BY <2>1, <2>2, <2>3, <2>4, <2>5, <1>1
<1>3. CASE ~(Len(b) >= FlushThreshold \/ (due /\ b # <<>>))
  <2>1. buffer' = b /\ batch' = <<>> /\ tickPc' = "reading" /\ due' = due
    BY <1>3 DEF FlushOrRead
  <2>2. Len(buffer') = Len(b) /\ Len(batch') = 0
    BY <2>1, <1>1
  <2>3. buffer' \in Seq(1..MaxPublished) /\ batch' \in Seq(1..MaxPublished)
    BY <2>1, <1>1
  <2>4. Len(buffer') < FlushThreshold
    BY <2>2, <1>1, <1>3, WorkerAssumption
  <2>5. QED
    BY <2>1, <2>2, <2>3, <2>4, <1>1
<1>4. QED
  BY <1>2, <1>3

LEMMA StoredFacts ==
  ASSUME table \subseteq 1..MaxPublished, NEW b \in Seq(1..MaxPublished)
  PROVE  StoredAfter(table, b) \subseteq 1..MaxPublished
<1>1. \A i \in 1..Len(b) : b[i] \in 1..MaxPublished
  BY ElementOfSeq
<1>2. QED
  BY <1>1 DEF StoredAfter, Elements

LEMMA InsertFacts ==
  ASSUME TypeOK, NEW ok \in BOOLEAN, NEW committed \in BOOLEAN, InsertReturns(ok, committed)
  PROVE  /\ table' \subseteq 1..MaxPublished
         /\ inserted' \in Nat /\ dropped' \in Nat
         /\ inserted' + dropped' = inserted + dropped + Len(batch)
         /\ batch' = <<>> /\ Len(batch) \in Nat
<1>1. batch \in Seq(1..MaxPublished) /\ Len(batch) \in Nat
  BY DEF TypeOK
<1>2. StoredAfter(table, batch) \subseteq 1..MaxPublished
  BY <1>1, StoredFacts DEF TypeOK
<1>3. table' \subseteq 1..MaxPublished
  BY <1>2 DEF InsertReturns, TypeOK
<1>4. batch' = <<>>
  BY DEF InsertReturns
<1>5. CASE ok
  BY <1>1, <1>3, <1>4, <1>5 DEF InsertReturns, TypeOK
<1>6. CASE ~ok
  BY <1>1, <1>3, <1>4, <1>6 DEF InsertReturns, TypeOK
<1>7. QED
  BY <1>5, <1>6
-----------------------------------------------------------------------------
(* The inductive invariant.                                                *)

LEMMA InitIInv == Init => IInv
<1> SUFFICES ASSUME Init PROVE IInv
  OBVIOUS
<1>1. TypeOK
  BY EmptyFacts, BoundAssumption DEF Init, TypeOK, Messages
<1>2. BufferBelowThreshold
  BY EmptyFacts, WorkerAssumption DEF Init, BufferBelowThreshold
<1>3. TickConservation
  BY EmptyFacts DEF Init, TickConservation
<1>4. Stages
  BY DEF Init, Stages
<1>5. QED
  BY <1>1, <1>2, <1>3, <1>4 DEF IInv

\* The lengths the sums of TickConservation add are numbers.
LEMMA LengthFacts ==
  ASSUME TypeOK
  PROVE  Len(inbox) \in Nat /\ Len(buffer) \in Nat /\ Len(batch) \in Nat
  BY DEF TypeOK

LEMMA PublishStep ==
  ASSUME IInv, NEW wellFormed \in BOOLEAN, Publish(wellFormed)
  PROVE  IInv'
<1> USE DEF IInv
<1>1. published \in Nat /\ published' = published + 1 /\ published' \in 1..MaxPublished
  BY BoundAssumption DEF TypeOK, Publish
<1>2. CASE tickPc \in {"reading", "flushing"}
  <2> DEFINE m == IF wellFormed THEN published + 1 ELSE Malformed
  <2>1. m \in Messages
    BY <1>1 DEF Messages
  <2>2. inbox' = Append(inbox, m) /\ missed' = missed
    BY <1>2 DEF Publish
  <2>3. inbox' \in Seq(Messages) /\ Len(inbox') = Len(inbox) + 1
    BY <2>1, <2>2, AppendProperties DEF TypeOK
  <2>4. TypeOK'
    BY <1>1, <2>2, <2>3 DEF TypeOK, Publish, auditVars
  <2>5. TickConservation'
    BY <1>1, <2>2, <2>3, LengthFacts DEF TypeOK, TickConservation, Publish
  <2>6. Stages' /\ BufferBelowThreshold'
    BY <1>2 DEF Stages, BufferBelowThreshold, Publish
  <2>7. QED
    BY <2>4, <2>5, <2>6
<1>3. CASE tickPc \notin {"reading", "flushing"}
  <2>1. inbox' = inbox /\ missed' = missed + 1
    BY <1>3 DEF Publish
  <2>2. TypeOK'
    BY <1>1, <2>1 DEF TypeOK, Publish, auditVars
  <2>3. TickConservation'
    BY <1>1, <2>1, LengthFacts DEF TypeOK, TickConservation, Publish
  <2>4. Stages' /\ BufferBelowThreshold'
    BY <2>1 DEF Stages, BufferBelowThreshold, Publish
  <2>5. QED
    BY <2>2, <2>3, <2>4
<1>4. QED
  BY <1>2, <1>3

\* What a step of the audit loop, or one that only moves a program counter or a
\* clock, leaves alone.
Quiet ==
  UNCHANGED <<inbox, buffer, batch, inserted, dropped, table, missed, malformed,
              lost, published>>

LEMMA QuietSteps ==
  ASSUME IInv, Quiet, Stages', tickPc' \in {"subscribing", "reading", "flushing", "backoff", "done"},
         auditPc' \in {"subscribing", "listening", "inserting", "backoff", "done"},
         stopPc' \in {"up", "cancelTick", "cancelAudit", "draining", "stopped"},
         due' \in BOOLEAN, envelopes' \in Nat,
         auditInbox' \in Nat, executionsInserted' \in Nat, executionsFailed' \in Nat,
         auditMissed' \in Nat, auditLost' \in Nat
  PROVE  IInv'
<1>1. TypeOK'
  BY DEF IInv, TypeOK, Quiet
<1>2. BufferBelowThreshold' /\ TickConservation'
  BY DEF IInv, BufferBelowThreshold, TickConservation, Quiet
<1>3. QED
  BY <1>1, <1>2 DEF IInv

LEMMA PublishEnvelopeStep ==
  ASSUME IInv, PublishEnvelope
  PROVE  IInv'
  BY QuietSteps DEF PublishEnvelope, Quiet, IInv, TypeOK, Stages, tickVars

LEMMA FlushIntervalStep ==
  ASSUME IInv, FlushIntervalElapses
  PROVE  IInv'
  BY QuietSteps DEF FlushIntervalElapses, Quiet, IInv, TypeOK, Stages, auditVars

LEMMA SubscribeStep ==
  ASSUME IInv, TickSubscribe \/ TickBackoffEnds
  PROVE  IInv'
  BY QuietSteps DEF TickSubscribe, TickBackoffEnds, TickLoopRuns, Quiet, IInv, TypeOK, Stages,
                    auditVars

LEMMA AuditLoopStep ==
  ASSUME IInv, AuditLoop \/ AuditSessionCrashes
  PROVE  IInv'
<1> USE DEF Quiet, IInv, TypeOK, Stages, tickVars
<1>1. CASE AuditSubscribe
  BY <1>1, QuietSteps DEF AuditSubscribe
<1>2. ASSUME NEW w \in BOOLEAN, HandleAudit(w) PROVE IInv'
  BY <1>2, QuietSteps DEF HandleAudit
<1>3. ASSUME NEW ok \in BOOLEAN, AuditInsertReturns(ok) PROVE IInv'
  BY <1>3, QuietSteps DEF AuditInsertReturns
<1>4. CASE AuditBackoffEnds
  BY <1>4, QuietSteps DEF AuditBackoffEnds
<1>5. CASE AuditSessionCrashes
  BY <1>5, QuietSteps DEF AuditSessionCrashes
<1>6. QED
  BY <1>1, <1>2, <1>3, <1>4, <1>5 DEF AuditLoop

LEMMA StopBegins ==
  ASSUME IInv, Stop
  PROVE  IInv'
  BY QuietSteps DEF Stop, Quiet, IInv, TypeOK, Stages, tickVars, auditVars

\* The tick loop.
LEMMA ReadTickStep ==
  ASSUME IInv, ReadTick
  PROVE  IInv'
<1> DEFINE t == Head(inbox)
           b == EnqueueTick(buffer, t)
<1> USE DEF IInv
<1>1. /\ inbox' \in Seq(Messages) /\ Len(inbox) = Len(inbox') + 1
      /\ Len(inbox') \in Nat /\ t \in 1..MaxPublished
  BY TailFacts DEF ReadTick, TypeOK, Messages
<1>2. /\ b \in Seq(1..MaxPublished) /\ Len(b) = Len(buffer) + 1
      /\ dropped' = dropped
  BY <1>1, EnqueueFacts DEF ReadTick, TypeOK
<1>3. batch = <<>> /\ tickPc = "reading" /\ due \in BOOLEAN /\ stopPc = "up" /\ FlushOrRead(b)
  BY DEF ReadTick, TickLoopRuns, Stages, TypeOK
<1>4. /\ buffer' \in Seq(1..MaxPublished) /\ batch' \in Seq(1..MaxPublished)
      /\ Len(buffer') + Len(batch') = Len(b)
      /\ Len(buffer') \in Nat /\ Len(batch') \in Nat
      /\ Len(buffer') < FlushThreshold
      /\ tickPc' \in {"reading", "flushing"}
      /\ tickPc' = "reading" => batch' = <<>>
      /\ due' \in BOOLEAN
  BY <1>2, <1>3, FlushOrReadFacts
<1>5. TypeOK'
  BY <1>1, <1>2, <1>4 DEF TypeOK, ReadTick, auditVars
<1>6. Stages'
  BY <1>3, <1>4 DEF Stages, ReadTick
<1>7. TickConservation'
  <2>1. Len(batch) = 0
    BY <1>3, EmptyFacts
  <2>2. /\ Len(inbox) = Len(inbox') + 1 /\ Len(buffer') + Len(batch') = Len(buffer) + 1
        /\ Len(inbox') \in Nat /\ Len(buffer') \in Nat /\ Len(batch') \in Nat
    BY <1>1, <1>2, <1>4
  <2>3. /\ published' = published /\ missed' = missed /\ malformed' = malformed
        /\ inserted' = inserted /\ dropped' = dropped /\ lost' = lost
    BY <1>2 DEF ReadTick
  <2>4. /\ published \in Nat /\ missed \in Nat /\ malformed \in Nat /\ inserted \in Nat
        /\ dropped \in Nat /\ lost \in Nat
        /\ Len(inbox) \in Nat /\ Len(buffer) \in Nat /\ Len(batch) \in Nat
    BY LengthFacts DEF TypeOK
  <2>5. published = missed + Len(inbox) + malformed + Len(buffer) + Len(batch)
                    + inserted + dropped + lost
    BY DEF TickConservation
  <2> DEFINE i == Len(inbox)   f == Len(buffer)   n == Len(batch)
             i2 == Len(inbox')  f2 == Len(buffer')  n2 == Len(batch')
  <2>6. /\ i2 + f2 + n2 = i + f + n
        /\ i \in Nat /\ i2 \in Nat /\ f \in Nat /\ f2 \in Nat /\ n \in Nat /\ n2 \in Nat
        /\ published = missed + i + malformed + f + n + inserted + dropped + lost
    BY <2>1, <2>2, <2>4, <2>5
  <2> HIDE DEF i, f, n, i2, f2, n2
  <2>7. published = missed + i2 + malformed + f2 + n2 + inserted + dropped + lost
    BY ONLY <2>4, <2>6
  <2> QED BY <2>3, <2>7 DEF TickConservation, i2, f2, n2
<1>8. BufferBelowThreshold'
  BY <1>4 DEF BufferBelowThreshold
<1>9. QED
  BY <1>5, <1>6, <1>7, <1>8

LEMMA ReadNoTickStep ==
  ASSUME IInv, ReadMalformed \/ ReadNothing
  PROVE  IInv'
<1> USE DEF IInv
<1>1. /\ inbox' \in Seq(Messages) /\ Len(inbox') \in Nat /\ malformed' \in Nat
      /\ Len(inbox') + malformed' = Len(inbox) + malformed
  <2>1. inbox \in Seq(Messages) /\ malformed \in Nat /\ Len(inbox) \in Nat
    BY LengthFacts DEF TypeOK
  <2>2. CASE ReadMalformed
    <3>1. inbox # <<>> /\ inbox' = Tail(inbox) /\ malformed' = malformed + 1
      BY <2>2 DEF ReadMalformed
    <3>2. QED
      BY <2>1, <3>1, TailFacts
  <2>3. CASE ReadNothing
    <3>1. inbox' = inbox /\ malformed' = malformed
      BY <2>3 DEF ReadNothing
    <3>2. QED
      BY <2>1, <3>1
  <2>4. QED
    BY <2>2, <2>3
<1>2. /\ batch = <<>> /\ tickPc = "reading" /\ due \in BOOLEAN /\ stopPc = "up"
      /\ FlushOrRead(buffer) /\ buffer \in Seq(1..MaxPublished)
  BY DEF ReadMalformed, ReadNothing, TickLoopRuns, Stages, TypeOK
<1>3. /\ buffer' \in Seq(1..MaxPublished) /\ batch' \in Seq(1..MaxPublished)
      /\ Len(buffer') + Len(batch') = Len(buffer)
      /\ Len(buffer') \in Nat /\ Len(batch') \in Nat
      /\ Len(buffer') < FlushThreshold
      /\ tickPc' \in {"reading", "flushing"}
      /\ tickPc' = "reading" => batch' = <<>>
      /\ due' \in BOOLEAN
  BY <1>2, FlushOrReadFacts
<1>4. UNCHANGED <<inserted, dropped, table, missed, lost, auditVars, stopPc, published,
                  envelopes>>
  BY DEF ReadMalformed, ReadNothing
<1>5. TypeOK'
  BY <1>1, <1>3, <1>4 DEF TypeOK, auditVars
<1>6. Stages'
  BY <1>2, <1>3, <1>4 DEF Stages
<1>7. TickConservation'
  <2>1. Len(batch) = 0
    BY <1>2, EmptyFacts
  <2>2. /\ Len(inbox') + malformed' = Len(inbox) + malformed
        /\ Len(buffer') + Len(batch') = Len(buffer)
        /\ Len(inbox') \in Nat /\ malformed' \in Nat
        /\ Len(buffer') \in Nat /\ Len(batch') \in Nat
    BY <1>1, <1>3
  <2>3. /\ published' = published /\ missed' = missed
        /\ inserted' = inserted /\ dropped' = dropped /\ lost' = lost
    BY <1>4
  <2>4. /\ published \in Nat /\ missed \in Nat /\ malformed \in Nat /\ inserted \in Nat
        /\ dropped \in Nat /\ lost \in Nat
        /\ Len(inbox) \in Nat /\ Len(buffer) \in Nat /\ Len(batch) \in Nat
    BY LengthFacts DEF TypeOK
  <2>5. published = missed + Len(inbox) + malformed + Len(buffer) + Len(batch)
                    + inserted + dropped + lost
    BY DEF TickConservation
  <2> DEFINE i == Len(inbox)   b == Len(buffer)   n == Len(batch)
             i2 == Len(inbox')  b2 == Len(buffer')  n2 == Len(batch')
             m2 == malformed'
  <2>6. /\ i2 + m2 = i + malformed /\ b2 + n2 = b + n
        /\ i \in Nat /\ i2 \in Nat /\ b \in Nat /\ b2 \in Nat /\ n \in Nat /\ n2 \in Nat /\ m2 \in Nat
        /\ published = missed + i + malformed + b + n + inserted + dropped + lost
    BY <2>1, <2>2, <2>4, <2>5
  <2> HIDE DEF i, b, n, i2, b2, n2, m2
  <2>7. published = missed + i2 + m2 + b2 + n2 + inserted + dropped + lost
    BY ONLY <2>4, <2>6
  <2> QED BY <2>3, <2>7 DEF TickConservation, i2, m2, b2, n2
<1>8. BufferBelowThreshold'
  BY <1>3 DEF BufferBelowThreshold
<1>9. QED
  BY <1>5, <1>6, <1>7, <1>8

\* An insert that returns, under the loop or under the drain.
LEMMA InsertStep ==
  ASSUME IInv, NEW ok \in BOOLEAN, NEW committed \in BOOLEAN,
         FlushReturns(ok, committed) \/ DrainReturns(ok, committed)
  PROVE  IInv'
<1> USE DEF IInv
<1>1. InsertReturns(ok, committed)
  BY DEF FlushReturns, DrainReturns
<1>2. /\ table' \subseteq 1..MaxPublished
      /\ inserted' \in Nat /\ dropped' \in Nat
      /\ inserted' + dropped' = inserted + dropped + Len(batch)
      /\ batch' = <<>> /\ Len(batch) \in Nat
  BY <1>1, InsertFacts
<1>3. UNCHANGED <<inbox, buffer, due, missed, malformed, lost, auditVars, published,
                  envelopes>>
  BY DEF FlushReturns, DrainReturns
<1>4. /\ tickPc' \in {"reading", "done", tickPc}
      /\ stopPc' \in {stopPc, "stopped"}
  BY DEF FlushReturns, DrainReturns
<1>5. TypeOK'
  BY <1>2, <1>3, <1>4, EmptyFacts DEF TypeOK, auditVars
<1>6. Stages'
  BY <1>2, <1>3 DEF Stages, FlushReturns, DrainReturns, TickLoopRuns
<1>7. TickConservation'
  <2>1. /\ inserted' + dropped' = inserted + dropped + Len(batch)
        /\ inserted' \in Nat /\ dropped' \in Nat /\ Len(batch') = 0
    BY <1>2, EmptyFacts
  <2>2. /\ published' = published /\ missed' = missed /\ malformed' = malformed
        /\ Len(inbox') = Len(inbox) /\ Len(buffer') = Len(buffer) /\ lost' = lost
    BY <1>3
  <2>3. /\ published \in Nat /\ missed \in Nat /\ malformed \in Nat /\ inserted \in Nat
        /\ dropped \in Nat /\ lost \in Nat
        /\ Len(inbox) \in Nat /\ Len(buffer) \in Nat /\ Len(batch) \in Nat
    BY LengthFacts DEF TypeOK
  <2>4. published = missed + Len(inbox) + malformed + Len(buffer) + Len(batch)
                    + inserted + dropped + lost
    BY DEF TickConservation
  <2> DEFINE i == Len(inbox)  b == Len(buffer)  n == Len(batch)
             n2 == Len(batch')  ok2 == inserted'  d2 == dropped'
  <2>5. /\ n2 + ok2 + d2 = n + inserted + dropped
        /\ i \in Nat /\ b \in Nat /\ n \in Nat /\ n2 \in Nat /\ ok2 \in Nat /\ d2 \in Nat
        /\ published = missed + i + malformed + b + n + inserted + dropped + lost
    BY <2>1, <2>3, <2>4
  <2> HIDE DEF i, b, n, n2, ok2, d2
  <2>6. published = missed + i + malformed + b + n2 + ok2 + d2 + lost
    BY ONLY <2>3, <2>5
  <2> QED BY <2>2, <2>6 DEF TickConservation, i, b, n2, ok2, d2
<1>8. BufferBelowThreshold'
  BY <1>3 DEF BufferBelowThreshold
<1>9. QED
  BY <1>5, <1>6, <1>7, <1>8

LEMMA TickSessionCrashStep ==
  ASSUME IInv, TickSessionCrashes
  PROVE  IInv'
<1> USE DEF IInv
<1>1. inbox' = <<>> /\ missed' = missed + Len(inbox)
  BY DEF TickSessionCrashes
<1>2. TypeOK'
  BY <1>1, EmptyFacts, LengthFacts DEF TypeOK, TickSessionCrashes, auditVars
<1>3. Stages' /\ BufferBelowThreshold'
  BY DEF Stages, BufferBelowThreshold, TickSessionCrashes, TickLoopRuns
<1>4. TickConservation'
  <2>1. Len(inbox') = 0
    BY <1>1, EmptyFacts
  <2>2. QED
    BY <1>1, <2>1, LengthFacts DEF TypeOK, TickConservation, TickSessionCrashes
<1>5. QED
  BY <1>2, <1>3, <1>4

LEMMA TickTaskCancelledStep ==
  ASSUME IInv, TickTaskCancelled
  PROVE  IInv'
<1> USE DEF IInv
<1>1. /\ inbox' = <<>> /\ missed' = missed + Len(inbox)
      /\ batch' = <<>> /\ lost' = lost + Len(batch)
  BY DEF TickTaskCancelled
<1>2. table' \subseteq 1..MaxPublished
  <2>1. StoredAfter(table, batch) \subseteq 1..MaxPublished
    BY StoredFacts DEF TypeOK
  <2>2. QED
    BY <2>1 DEF TickTaskCancelled, TypeOK
<1>3. TypeOK'
  BY <1>1, <1>2, EmptyFacts, LengthFacts DEF TypeOK, TickTaskCancelled, auditVars
<1>4. Stages' /\ BufferBelowThreshold'
  BY <1>1 DEF Stages, BufferBelowThreshold, TickTaskCancelled
<1>5. TickConservation'
  <2>1. Len(inbox') = 0 /\ Len(batch') = 0
    BY <1>1, EmptyFacts
  <2>2. QED
    BY <1>1, <2>1, LengthFacts DEF TypeOK, TickConservation, TickTaskCancelled
<1>6. QED
  BY <1>3, <1>4, <1>5

LEMMA AuditTaskCancelledStep ==
  ASSUME IInv, AuditTaskCancelled
  PROVE  IInv'
<1> USE DEF IInv
<1>1. batch = <<>> /\ batch' = buffer /\ buffer' = <<>>
  BY DEF AuditTaskCancelled, Stages
<1>2. Len(batch) = 0 /\ Len(buffer') = 0 /\ Len(batch') = Len(buffer)
  BY <1>1, EmptyFacts
<1>3. TypeOK'
  BY <1>1, EmptyFacts DEF TypeOK, AuditTaskCancelled
<1>4. Stages'
  BY <1>1 DEF Stages, AuditTaskCancelled
<1>5. TickConservation'
  BY <1>2, LengthFacts DEF TypeOK, TickConservation, AuditTaskCancelled
<1>6. BufferBelowThreshold'
  BY <1>2, WorkerAssumption DEF BufferBelowThreshold
<1>7. QED
  BY <1>3, <1>4, <1>5, <1>6

LEMMA NextIInv == IInv /\ [Next]_vars => IInv'
<1> SUFFICES ASSUME IInv, [Next]_vars PROVE IInv'
  OBVIOUS
<1>1. CASE Next
  BY <1>1, PublishStep, PublishEnvelopeStep, FlushIntervalStep, SubscribeStep,
     ReadTickStep, ReadNoTickStep, InsertStep, TickSessionCrashStep, AuditLoopStep,
     StopBegins, TickTaskCancelledStep, AuditTaskCancelledStep
     DEF Next, TickLoop, StopStep
<1>2. CASE UNCHANGED vars
  BY <1>2 DEF vars, tickVars, auditVars, IInv, TypeOK, Stages, BufferBelowThreshold,
              TickConservation
<1>3. QED
  BY <1>1, <1>2

LEMMA Invariance == Spec => []IInv
  BY InitIInv, NextIInv, PTL DEF Spec

-----------------------------------------------------------------------------
(* Theorems.                                                               *)

\* Every variable keeps its type: in particular only parsed ticks are buffered
\* and stored (_enqueue_tick).
THEOREM TypeCorrect == Spec => []TypeOK
<1>1. IInv => TypeOK
  BY DEF IInv
<1>2. QED
  BY <1>1, Invariance, PTL

\* No tick message is lost without trace: received ones are unread, skipped,
\* buffered, being inserted, counted -- or in a batch stop() interrupted.
THEOREM TicksConserved == Spec => []TickConservation
<1>1. IInv => TickConservation
  BY DEF IInv
<1>2. QED
  BY <1>1, Invariance, PTL

\* The buffer stays below flush_threshold whatever the database does, so the
\* eviction buffer_max provides for "when DB is down" never happens.
THEOREM BufferBounded == Spec => []BufferBelowThreshold
<1>1. IInv => BufferBelowThreshold
  BY DEF IInv
<1>2. QED
  BY <1>1, Invariance, PTL

\* When stop() returned, every message of the channel has been settled.
THEOREM StopSettled == Spec => []StopSettles
<1>1. IInv => StopSettles
  <2> SUFFICES ASSUME IInv, stopPc = "stopped"
               PROVE  published = missed + malformed + inserted + dropped + lost
    BY DEF StopSettles
  <2>1. inbox = <<>> /\ buffer = <<>> /\ batch = <<>>
    BY DEF IInv, Stages
  <2>2. Len(inbox) = 0 /\ Len(buffer) = 0 /\ Len(batch) = 0
    BY <2>1, EmptyFacts
  <2>3. QED
    BY <2>2 DEF IInv, TypeOK, TickConservation
<1>2. QED
  BY <1>1, Invariance, PTL

\* The steps that touch the audit channel's envelopes keep their sum.
LEMMA AuditStepConserves ==
  ASSUME TypeOK, AuditConservation, [Next]_vars
  PROVE  AuditConservation'
<1>1. /\ envelopes \in Nat /\ auditMissed \in Nat /\ auditInbox \in Nat
      /\ executionsInserted \in Nat /\ executionsFailed \in Nat /\ auditLost \in Nat
  BY DEF TypeOK
<1> USE DEF AuditConservation
<1>2. CASE UNCHANGED <<auditVars, envelopes>>
  BY <1>2 DEF auditVars
<1>3. CASE PublishEnvelope
  BY <1>1, <1>3 DEF PublishEnvelope, tickVars
<1>4. CASE AuditSubscribe
  BY <1>1, <1>4 DEF AuditSubscribe
<1>5. ASSUME NEW w \in BOOLEAN, HandleAudit(w) PROVE AuditConservation'
  BY <1>1, <1>5 DEF HandleAudit
<1>6. ASSUME NEW ok \in BOOLEAN, AuditInsertReturns(ok) PROVE AuditConservation'
  BY <1>1, <1>6 DEF AuditInsertReturns
<1>7. CASE AuditBackoffEnds
  BY <1>1, <1>7 DEF AuditBackoffEnds
<1>8. CASE AuditSessionCrashes
  BY <1>1, <1>8 DEF AuditSessionCrashes
<1>9. CASE AuditTaskCancelled
  BY <1>1, <1>9 DEF AuditTaskCancelled
<1>10. CASE UNCHANGED vars
  BY <1>2, <1>10 DEF vars
<1>11. CASE TickLoop \/ TickSessionCrashes \/ FlushIntervalElapses
  BY <1>2, <1>11 DEF TickLoop, TickSubscribe, ReadTick, ReadMalformed, ReadNothing,
     FlushReturns, TickBackoffEnds, TickSessionCrashes, FlushIntervalElapses
<1>12. CASE Stop \/ TickTaskCancelled \/ \E ok, committed \in BOOLEAN : DrainReturns(ok, committed)
  BY <1>2, <1>12 DEF Stop, TickTaskCancelled, DrainReturns
<1>13. CASE \E wellFormed \in BOOLEAN : Publish(wellFormed)
  BY <1>2, <1>13 DEF Publish
<1>14. QED
  BY <1>3, <1>4, <1>5, <1>6, <1>7, <1>8, <1>9, <1>10, <1>11, <1>12, <1>13
     DEF Next, AuditLoop, StopStep

\* Every envelope is unread, being inserted, counted inserted or failed, was
\* never received, or was cut off by stop() in its insert.
THEOREM EnvelopesConserved == Spec => []AuditConservation
<1>1. Init => AuditConservation
  BY DEF Init, AuditConservation
<1>2. TypeOK /\ AuditConservation /\ [Next]_vars => AuditConservation'
  BY AuditStepConserves
<1>3. QED
  BY <1>1, <1>2, TypeCorrect, PTL DEF Spec

-----------------------------------------------------------------------------
(* How much a clean shutdown can lose.                                     *)

\* The batch never exceeds the threshold, and only the cancellation of its task
\* loses anything: one batch for the tick loop, one envelope for the audit loop.
LossBound ==
  /\ Len(batch) <= FlushThreshold
  /\ stopPc \in {"up", "cancelTick"} => lost = 0
  /\ lost <= FlushThreshold
  /\ stopPc \in {"up", "cancelTick", "cancelAudit"} => auditLost = 0
  /\ auditLost <= 1

\* An iteration with a buffer of at most flush_threshold ticks hands over no more.
LEMMA BatchWithinThreshold ==
  ASSUME IInv, LossBound, ReadTick \/ ReadMalformed \/ ReadNothing
  PROVE  Len(batch') <= FlushThreshold
<1> DEFINE b == IF ReadTick THEN EnqueueTick(buffer, Head(inbox)) ELSE buffer
<1>1. b \in Seq(1..MaxPublished) /\ Len(b) <= FlushThreshold
  <2>1. buffer \in Seq(1..MaxPublished) /\ Len(buffer) \in Nat
        /\ Len(buffer) < FlushThreshold /\ FlushThreshold \in Nat
    BY LengthFacts, WorkerAssumption DEF IInv, TypeOK, BufferBelowThreshold
  <2>2. CASE ReadTick
    <3>1. Head(inbox) \in 1..MaxPublished
      BY <2>2, TailFacts DEF ReadTick, IInv, TypeOK, Messages
    <3>2. /\ EnqueueTick(buffer, Head(inbox)) \in Seq(1..MaxPublished)
          /\ Len(EnqueueTick(buffer, Head(inbox))) = Len(buffer) + 1
      BY <2>1, <3>1, EnqueueFacts DEF IInv
    <3>3. QED
      BY <2>1, <2>2, <3>2
  <2>3. CASE ~ReadTick
    BY <2>1, <2>3
  <2>4. QED
    BY <2>2, <2>3
<1>2. FlushOrRead(b) /\ batch = <<>> /\ tickPc = "reading" /\ due \in BOOLEAN
  BY DEF ReadTick, ReadMalformed, ReadNothing, TickLoopRuns, IInv, TypeOK, Stages
<1> HIDE DEF b
<1>3. /\ Len(buffer') + Len(batch') = Len(b)
      /\ Len(buffer') \in Nat /\ Len(batch') \in Nat
  BY <1>1, <1>2, FlushOrReadFacts
<1>4. Len(b) \in Nat /\ FlushThreshold \in Nat
  BY <1>1, WorkerAssumption
<1>5. QED
  BY ONLY <1>1, <1>3, <1>4

LEMMA NextLossBound == IInv /\ LossBound /\ [Next]_vars => LossBound'
<1> SUFFICES ASSUME IInv, LossBound, [Next]_vars PROVE LossBound'
  OBVIOUS
<1>1. /\ lost \in Nat /\ auditLost \in Nat /\ FlushThreshold \in Nat
      /\ Len(batch) \in Nat /\ Len(<<>>) = 0
  BY EmptyFacts, LengthFacts, WorkerAssumption DEF IInv, TypeOK
<1>2. CASE ReadTick \/ ReadMalformed \/ ReadNothing
  <2>1. Len(batch') <= FlushThreshold
    BY <1>2, BatchWithinThreshold
  <2>2. UNCHANGED <<lost, auditVars, stopPc>>
    BY <1>2 DEF ReadTick, ReadMalformed, ReadNothing
  <2>3. QED
    BY <2>1, <2>2 DEF LossBound, auditVars
<1>3. CASE \E ok, committed \in BOOLEAN : FlushReturns(ok, committed) \/ DrainReturns(ok, committed)
  <2>1. batch' = <<>> /\ UNCHANGED <<lost, auditVars>> /\ stopPc' \in {stopPc, "stopped"}
    BY <1>3 DEF FlushReturns, DrainReturns, InsertReturns
  <2>2. QED
    BY <1>1, <2>1 DEF LossBound, auditVars
<1>4. CASE TickTaskCancelled
  <2>1. /\ batch' = <<>> /\ lost' = lost + Len(batch) /\ UNCHANGED auditVars
        /\ stopPc = "cancelTick" /\ stopPc' = "cancelAudit"
    BY <1>4 DEF TickTaskCancelled
  <2>2. lost = 0 /\ auditLost = 0 /\ Len(batch) <= FlushThreshold
    BY <2>1 DEF LossBound
  <2>3. lost' <= FlushThreshold /\ auditLost' = 0 /\ Len(batch') <= FlushThreshold
    BY <1>1, <2>1, <2>2 DEF auditVars
  <2>4. QED
    BY <2>1, <2>3 DEF LossBound
<1>5. CASE AuditTaskCancelled
  <2>1. /\ batch' = buffer /\ lost' = lost
        /\ auditLost' = IF auditPc = "inserting" THEN auditLost + 1 ELSE auditLost
        /\ stopPc = "cancelAudit" /\ stopPc' \in {"stopped", "draining"}
    BY <1>5 DEF AuditTaskCancelled
  <2>2. Len(batch') <= FlushThreshold
    BY <1>1, <2>1, LengthFacts DEF IInv, BufferBelowThreshold
  <2>3. auditLost = 0 /\ lost <= FlushThreshold
    BY <2>1 DEF LossBound
  <2>4. QED
    BY <2>1, <2>2, <2>3 DEF LossBound
<1>6. CASE UNCHANGED <<batch, lost, auditLost, stopPc>> \/ Stop
  BY <1>6 DEF LossBound, Stop, tickVars, auditVars
<1>7. CASE \E wellFormed \in BOOLEAN : Publish(wellFormed)
  BY <1>6, <1>7 DEF Publish, auditVars
<1>8. CASE PublishEnvelope \/ FlushIntervalElapses \/ TickSubscribe \/ TickBackoffEnds
           \/ TickSessionCrashes
  BY <1>6, <1>8 DEF PublishEnvelope, FlushIntervalElapses, TickSubscribe, TickBackoffEnds,
                    TickSessionCrashes, tickVars, auditVars
<1>9. CASE AuditLoop \/ AuditSessionCrashes
  BY <1>6, <1>9 DEF AuditLoop, AuditSubscribe, HandleAudit, AuditInsertReturns,
                    AuditBackoffEnds, AuditSessionCrashes, tickVars
<1>10. CASE UNCHANGED vars
  BY <1>6, <1>10 DEF vars, tickVars, auditVars
<1>11. QED
  BY <1>2, <1>3, <1>4, <1>5, <1>6, <1>7, <1>8, <1>9, <1>10 DEF Next, TickLoop, StopStep

\* stop() may lose a batch it interrupts, against its docstring (see
\* ShutdownLosesNothing) -- but never more than one batch of flush_threshold
\* ticks and one envelope.
ShutdownLossBounded == lost <= FlushThreshold /\ auditLost <= 1

\* stop() loses at most the batch in flight and the envelope in flight.
THEOREM ShutdownLosesOneBatch == Spec => []ShutdownLossBounded
<1>1. Init => LossBound
  BY EmptyFacts, WorkerAssumption DEF Init, LossBound
<1>2. LossBound => ShutdownLossBounded
  BY DEF LossBound, ShutdownLossBounded
<1>3. QED
  BY <1>1, <1>2, NextLossBound, Invariance, PTL DEF Spec

-----------------------------------------------------------------------------
(* With a key of its own for every tick, a counted insert has its row.     *)

\* The positions of s that hold a tick.
Ticks(s) == {i \in 1..Len(s) : s[i] # Malformed}

Increasing(s)   == \A i, j \in Ticks(s) : i < j => s[i] < s[j]
Before(s, t)    == \A i \in Ticks(s), j \in Ticks(t) : s[i] < t[j]
After(rows, s)  == \A i \in Ticks(s) : \A r \in rows : r < s[i]
UpTo(s, n)      == \A i \in Ticks(s) : s[i] <= n

\* Ticks keep the order of their publication on their way through the inbox x,
\* the buffer f and the batch b: what is stored is older than what is on its way.
Ordered(b, f, x, rows, n) ==
  /\ Increasing(b) /\ Increasing(f) /\ Increasing(x)
  /\ Before(b, f) /\ Before(b, x) /\ Before(f, x)
  /\ After(rows, b) /\ After(rows, f) /\ After(rows, x)
  /\ UpTo(b, n) /\ UpTo(f, n) /\ UpTo(x, n)
  /\ rows \subseteq 1..n

LEMMA NoTicks == Ticks(<<>>) = {}
  BY EmptyFacts DEF Ticks

\* Nothing is lost of the order when the inbox or the batch is forgotten, or
\* the batch is handed over.
LEMMA OrderForgets ==
  ASSUME NEW b, NEW f, NEW x, NEW rows, NEW n, Ordered(b, f, x, rows, n)
  PROVE  /\ Ordered(b, f, <<>>, rows, n)
         /\ Ordered(<<>>, f, x, rows, n)
         /\ b = <<>> => Ordered(f, <<>>, x, rows, n)
<1> USE NoTicks DEF Increasing, Before, After, UpTo
<1>1. Ordered(b, f, <<>>, rows, n)
  BY DEF Ordered
<1>2. Ordered(<<>>, f, x, rows, n)
  BY DEF Ordered
<1>3. ASSUME b = <<>> PROVE Ordered(f, <<>>, x, rows, n)
  BY <1>3 DEF Ordered
<1>4. QED
  BY <1>1, <1>2, <1>3

\* A published tick is newer than every other.
LEMMA OrderPublish ==
  ASSUME NEW b, NEW f, NEW x \in Seq(Messages), NEW rows, NEW n \in Nat,
         b \in Seq(1..MaxPublished), f \in Seq(1..MaxPublished),
         Ordered(b, f, x, rows, n), NEW m \in Messages, m \in {Malformed, n + 1}
  PROVE  Ordered(b, f, x, rows, n + 1) /\ Ordered(b, f, Append(x, m), rows, n + 1)
<1> DEFINE y == Append(x, m)
<1>1. /\ \A i \in Ticks(x) : i \in 1..Len(x) /\ x[i] \in Nat
      /\ \A i \in Ticks(b) : b[i] \in Nat
      /\ \A i \in Ticks(f) : f[i] \in Nat
  <2>1. \A i \in 1..Len(x) : x[i] \in Messages
    BY ElementOfSeq
  <2>2. \A i \in 1..Len(b) : b[i] \in 1..MaxPublished
    BY ElementOfSeq
  <2>3. \A i \in 1..Len(f) : f[i] \in 1..MaxPublished
    BY ElementOfSeq
  <2>4. QED
    BY <2>1, <2>2, <2>3, BoundAssumption DEF Ticks, Messages, Malformed
<1>2. /\ rows \subseteq 1..n
      /\ \A i \in Ticks(x) : x[i] <= n
      /\ \A i \in Ticks(b) : b[i] <= n
      /\ \A i \in Ticks(f) : f[i] <= n
  BY DEF Ordered, UpTo
<1>3. \A i \in Ticks(y) : \/ i \in Ticks(x) /\ y[i] = x[i]
                          \/ i = Len(x) + 1 /\ y[i] = n + 1
  <2>1. /\ Len(x) \in Nat /\ Len(y) = Len(x) + 1
        /\ \A i \in 1..Len(x) : y[i] = x[i]
        /\ y[Len(x) + 1] = m
    BY AppendProperties
  <2> HIDE DEF y
  <2>2. QED
    BY <2>1 DEF Ticks
<1> HIDE DEF y
<1>4. Len(x) \in Nat
  OBVIOUS
<1>5. rows \subseteq 1..(n + 1)
  BY <1>2
<1>6. UpTo(b, n + 1) /\ UpTo(f, n + 1) /\ UpTo(x, n + 1) /\ UpTo(y, n + 1)
  <2>1. UpTo(b, n + 1) /\ UpTo(f, n + 1) /\ UpTo(x, n + 1)
    BY <1>1, <1>2 DEF UpTo
  <2>2. UpTo(y, n + 1)
    BY <1>3, <2>1 DEF UpTo
  <2>3. QED
    BY <2>1, <2>2
<1>7. Increasing(y)
  <2> SUFFICES ASSUME NEW i \in Ticks(y), NEW j \in Ticks(y), i < j
               PROVE  y[i] < y[j]
    BY DEF Increasing
  <2>1. i \in Ticks(x) /\ y[i] = x[i]
    BY <1>1, <1>3, <1>4
  <2>2. CASE j \in Ticks(x) /\ y[j] = x[j]
    BY <2>1, <2>2 DEF Ordered, Increasing
  <2>3. CASE y[j] = n + 1
    BY <1>1, <1>2, <2>1, <2>3
  <2>4. QED
    BY <1>3, <2>2, <2>3
<1>8. Before(b, y) /\ Before(f, y)
  <2>1. /\ \A i \in Ticks(b) : b[i] < n + 1 /\ \A j \in Ticks(x) : b[i] < x[j]
        /\ \A i \in Ticks(f) : f[i] < n + 1 /\ \A j \in Ticks(x) : f[i] < x[j]
    BY <1>1, <1>2 DEF Ordered, Before
  <2>2. QED
    BY <1>3, <2>1 DEF Before
<1>9. After(rows, y)
  BY <1>2, <1>3 DEF Ordered, After
<1>10. QED
  BY <1>5, <1>6, <1>7, <1>8, <1>9 DEF Ordered, y

\* A message read moves from the head of the inbox to the end of the buffer, or
\* nowhere when it does not parse.
LEMMA OrderRead ==
  ASSUME NEW b, NEW f \in Seq(1..MaxPublished), NEW x \in Seq(Messages), NEW rows, NEW n,
         Ordered(b, f, x, rows, n), x # <<>>
  PROVE  /\ Ordered(b, f, Tail(x), rows, n)
         /\ b = <<>> /\ Head(x) # Malformed => Ordered(b, Append(f, Head(x)), Tail(x), rows, n)
<1> DEFINE y == Tail(x)
           t == Head(x)
<1>1. /\ Len(x) \in Nat /\ Len(y) \in Nat /\ Len(x) = Len(y) + 1 /\ t = x[1]
      /\ \A i \in 1..Len(y) : y[i] = x[i + 1]
  BY HeadTailProperties
<1> HIDE DEF y, t
<1>2. \A i \in Ticks(y) : i + 1 \in Ticks(x) /\ y[i] = x[i + 1] /\ i \in Nat /\ i > 0
  BY <1>1 DEF Ticks
<1>3. Increasing(y) /\ Before(b, y) /\ Before(f, y) /\ After(rows, y) /\ UpTo(y, n)
  BY <1>2 DEF Ordered, Increasing, Before, After, UpTo
<1>4. Ordered(b, f, y, rows, n)
  BY <1>3 DEF Ordered
<1>5. ASSUME b = <<>>, t # Malformed
      PROVE  Ordered(b, Append(f, t), y, rows, n)
  <2> DEFINE g == Append(f, t)
  <2>1. 1 \in Ticks(x)
    BY <1>1, <1>5 DEF Ticks
  <2>2. \A j \in Ticks(g) : \/ j \in Ticks(f) /\ g[j] = f[j]
                            \/ j = Len(f) + 1 /\ g[j] = x[1]
    <3>1. t \in 1..MaxPublished
      BY <1>5, HeadTailProperties DEF t, Messages
    <3>2. /\ Len(f) \in Nat /\ Len(g) = Len(f) + 1
          /\ \A i \in 1..Len(f) : g[i] = f[i]
          /\ g[Len(f) + 1] = t
      BY <3>1, AppendProperties
    <3> HIDE DEF g
    <3>3. QED
      BY <1>1, <3>2 DEF Ticks
  <2> HIDE DEF g
  <2>3. \A j \in Ticks(f) : j \in 1..Len(f) /\ f[j] < x[1]
    BY <2>1 DEF Ordered, Before, Ticks
  <2>4. Increasing(g)
    <3> SUFFICES ASSUME NEW i \in Ticks(g), NEW j \in Ticks(g), i < j
                 PROVE  g[i] < g[j]
      BY DEF Increasing
    <3>1. i \in Ticks(f) /\ g[i] = f[i]
      BY <2>2, <2>3
    <3>2. CASE j \in Ticks(f) /\ g[j] = f[j]
      BY <3>1, <3>2 DEF Ordered, Increasing
    <3>3. CASE g[j] = x[1]
      BY <2>3, <3>1, <3>3
    <3>4. QED
      BY <2>2, <3>2, <3>3
  <2>5. Before(g, y)
    <3>1. \A j \in Ticks(y) : x[1] < y[j] /\ \A i \in Ticks(f) : f[i] < y[j]
      BY <1>2, <1>3, <2>1 DEF Ordered, Increasing, Before
    <3>2. QED
      BY <2>2, <3>1 DEF Before
  <2>6. After(rows, g) /\ UpTo(g, n)
    BY <2>1, <2>2 DEF Ordered, After, UpTo
  <2>7. Before(b, g)
    BY <1>5, NoTicks DEF Before
  <2>8. QED
    BY <1>3, <2>4, <2>5, <2>6, <2>7 DEF Ordered, g
<1>6. QED
  BY <1>4, <1>5 DEF y, t

\* What a commit stores is older than what is still on its way.
LEMMA OrderCommit ==
  ASSUME NEW b \in Seq(1..MaxPublished), NEW f, NEW x, NEW rows, NEW n \in Nat,
         Ordered(b, f, x, rows, n)
  PROVE  Ordered(<<>>, f, x, StoredAfter(rows, b), n)
<1> DEFINE stored == StoredAfter(rows, b)
<1>1. \A r \in stored : r \in rows \/ \E i \in Ticks(b) : r = b[i]
  <2>1. \A i \in 1..Len(b) : b[i] \in 1..MaxPublished
    BY ElementOfSeq
  <2>2. \A i \in 1..Len(b) : i \in Ticks(b)
    BY <2>1 DEF Ticks, Malformed
  <2>3. QED
    BY <2>2 DEF StoredAfter, Elements
<1>2. \A i \in Ticks(b) : b[i] \in 1..MaxPublished /\ b[i] <= n
  BY ElementOfSeq DEF Ordered, UpTo, Ticks
<1> HIDE DEF stored
<1>3. \A r \in stored : r \in 1..n
  <2>1. rows \subseteq 1..n
    BY DEF Ordered
  <2>2. \A i \in Ticks(b) : b[i] \in 1..n
    BY <1>2, BoundAssumption
  <2>3. QED
    BY <1>1, <2>1, <2>2
<1>4. After(stored, f) /\ After(stored, x)
  <2>1. /\ \A r \in rows : (\A j \in Ticks(f) : r < f[j]) /\ \A j \in Ticks(x) : r < x[j]
        /\ \A i \in Ticks(b) : (\A j \in Ticks(f) : b[i] < f[j]) /\ \A j \in Ticks(x) : b[i] < x[j]
    BY DEF Ordered, After, Before
  <2>2. QED
    BY <1>1, <2>1 DEF After
<1>5. /\ Increasing(<<>>) /\ Before(<<>>, f) /\ Before(<<>>, x)
      /\ After(stored, <<>>) /\ UpTo(<<>>, n)
  BY NoTicks DEF Increasing, Before, After, UpTo
<1>6. Ordered(<<>>, f, x, stored, n)
  <2>1. Increasing(f) /\ Increasing(x) /\ Before(f, x) /\ UpTo(f, n) /\ UpTo(x, n)
    BY DEF Ordered
  <2>2. stored \subseteq 1..n
    BY <1>3
  <2>3. QED
    BY <1>4, <1>5, <2>1, <2>2 DEF Ordered
<1>7. QED
  BY <1>6 DEF stored

\* No two ticks share their primary key (symbol, ts).
DistinctKeys == \A i, j \in 1..MaxPublished : KeyOf[i] = KeyOf[j] => i = j

LEMMA CommitStoresBatch ==
  ASSUME DistinctKeys, NEW b \in Seq(1..MaxPublished), NEW rows \in SUBSET (1..MaxPublished),
         Increasing(b), After(rows, b)
  PROVE  /\ IsFiniteSet(rows)
         /\ Cardinality(rows) \in Nat /\ Cardinality(StoredAfter(rows, b)) \in Nat
         /\ Cardinality(StoredAfter(rows, b)) = Cardinality(rows) + Len(b)
<1> DEFINE new == Elements(b)
           I == 1..Len(b)
<1>1. /\ Len(b) \in Nat /\ b \in [I -> 1..MaxPublished]
      /\ \A i \in I : i \in Ticks(b) /\ b[i] \in 1..MaxPublished
  <2>1. Len(b) \in Nat /\ b \in [I -> 1..MaxPublished]
    BY LenProperties
  <2>2. \A i \in I : b[i] \in 1..MaxPublished
    BY <2>1
  <2>3. QED
    BY <2>1, <2>2 DEF Ticks, Malformed
<1>2. \A i, j \in I : b[i] = b[j] => i = j
  <2> SUFFICES ASSUME NEW i \in I, NEW j \in I, i # j PROVE b[i] # b[j]
    OBVIOUS
  <2>1. b[i] \in Int /\ b[j] \in Int
    BY <1>1
  <2>2. CASE i < j
    BY <1>1, <2>1, <2>2 DEF Increasing
  <2>3. CASE j < i
    BY <1>1, <2>1, <2>3 DEF Increasing
  <2>4. QED
    BY <1>1, <2>2, <2>3
<1>3. /\ new \subseteq 1..MaxPublished
      /\ \A t \in new : \A r \in rows : r < t
      /\ \A t \in new : \E i \in I : t = b[i]
  BY <1>1 DEF Elements, After
<1>4. rows \cap new = {}
  BY <1>3
<1>5. StoredAfter(rows, b) = rows \cup new
  <2>1. ASSUME NEW t \in new PROVE \A r \in rows : KeyOf[r] # KeyOf[t]
    BY <1>3, <1>4, <2>1 DEF DistinctKeys
  <2>2. ASSUME NEW t \in new, NEW u \in new, KeyOf[u] = KeyOf[t] PROVE t <= u
    BY <1>3, <2>2 DEF DistinctKeys
  <2>3. QED
    BY <2>1, <2>2 DEF StoredAfter
<1>6. /\ IsFiniteSet(rows) /\ Cardinality(rows) \in Nat
      /\ IsFiniteSet(I) /\ Cardinality(I) = Len(b)
  <2>1. IsFiniteSet(1..MaxPublished)
    BY BoundAssumption, FS_Interval
  <2>2. IsFiniteSet(rows)
    BY <2>1, FS_Subset
  <2>3. IsFiniteSet(I) /\ Cardinality(I) = IF 1 > Len(b) THEN 0 ELSE Len(b) - 1 + 1
    <3>1. 1 \in Int /\ Len(b) \in Int
      BY <1>1
    <3>2. QED
      BY ONLY <3>1, FS_Interval
  <2> HIDE DEF I
  <2>4. Cardinality(I) = Len(b)
    BY <1>1, <2>3
  <2>5. QED
    BY <2>2, <2>3, <2>4, FS_CardinalityType
<1>7. IsFiniteSet(new) /\ Cardinality(new) = Len(b)
  <2>1. b \in Bijection(I, new)
    <3>1. b \in [I -> new]
      BY <1>1 DEF Elements
    <3>2. \A t \in new : \E i \in I : b[i] = t
      BY <1>3
    <3>3. QED
      BY <1>2, <3>1, <3>2, Fun_IsBij
  <2>2. ExistsBijection(I, new)
    BY <2>1 DEF ExistsBijection
  <2>3. QED
    BY <1>6, <2>2, FS_Bijection
<1>8. Cardinality(rows \cup new) = Cardinality(rows) + Len(b)
  <2> HIDE DEF new
  <2>1. Cardinality(rows \cup new)
          = Cardinality(rows) + Cardinality(new) - Cardinality(rows \cap new)
    BY <1>6, <1>7, FS_Union
  <2>2. Cardinality(rows \cap new) = 0
    BY <1>4, FS_EmptySet
  <2>3. QED
    BY <1>1, <1>6, <1>7, <2>1, <2>2
<1>9. QED
  BY <1>1, <1>5, <1>6, <1>8

QueueOrder == Ordered(batch, buffer, inbox, table, published)
StoredInv  == QueueOrder /\ InsertedIsStored

\* A tick read joins the buffer, which then may become the batch.
LEMMA ReadStepOrder ==
  ASSUME IInv, QueueOrder, ReadTick \/ ReadMalformed \/ ReadNothing
  PROVE  QueueOrder'
<1>1. /\ batch = <<>> /\ buffer \in Seq(1..MaxPublished) /\ inbox \in Seq(Messages)
      /\ tickPc = "reading"
  BY DEF ReadTick, ReadMalformed, ReadNothing, TickLoopRuns, IInv, TypeOK, Stages
<1>2. table' = table /\ published' = published
  BY DEF ReadTick, ReadMalformed, ReadNothing
<1>3. PICK b : FlushOrRead(b) /\ Ordered(<<>>, b, inbox', table, published)
  <2>1. CASE ReadTick
    <3>1. inbox # <<>> /\ Head(inbox) # Malformed /\ inbox' = Tail(inbox)
          /\ FlushOrRead(EnqueueTick(buffer, Head(inbox)))
      BY <2>1 DEF ReadTick
    <3>2. Len(buffer) # BufferMax
      BY WorkerAssumption, LengthFacts DEF IInv, BufferBelowThreshold
    <3>3. EnqueueTick(buffer, Head(inbox)) = Append(buffer, Head(inbox))
      BY <3>2 DEF EnqueueTick
    <3>4. Ordered(<<>>, Append(buffer, Head(inbox)), Tail(inbox), table, published)
      BY <1>1, <3>1, OrderRead DEF QueueOrder
    <3>5. QED
      BY <3>1, <3>3, <3>4
  <2>2. CASE ReadMalformed
    <3>1. inbox # <<>> /\ inbox' = Tail(inbox) /\ FlushOrRead(buffer)
      BY <2>2 DEF ReadMalformed
    <3>2. QED
      BY <1>1, <3>1, OrderRead DEF QueueOrder
  <2>3. CASE ReadNothing
    <3>1. inbox' = inbox /\ FlushOrRead(buffer)
      BY <2>3 DEF ReadNothing
    <3>2. QED
      BY <1>1, <3>1 DEF QueueOrder
  <2>4. QED
    BY <2>1, <2>2, <2>3
<1>4. \/ batch' = b /\ buffer' = <<>>
      \/ batch' = <<>> /\ buffer' = b
  BY <1>1, <1>3 DEF FlushOrRead
<1>5. Ordered(b, <<>>, inbox', table, published)
  BY <1>3, OrderForgets
<1>6. QED
  BY <1>2, <1>3, <1>4, <1>5 DEF QueueOrder

\* An insert that returns or is cancelled: its ticks leave the queue, stored or not.
LEMMA CommitStepOrder ==
  ASSUME IInv, QueueOrder, batch' = <<>>, buffer' = buffer, inbox' \in {inbox, <<>>},
         published' = published, table' \in {table, StoredAfter(table, batch)}
  PROVE  QueueOrder'
<1>1. batch \in Seq(1..MaxPublished) /\ published \in Nat
  BY DEF IInv, TypeOK
<1>2. Ordered(<<>>, buffer, inbox, table', published)
  BY <1>1, OrderForgets, OrderCommit DEF QueueOrder
<1>3. Ordered(<<>>, buffer, <<>>, table', published)
  BY <1>2, OrderForgets
<1>4. QED
  BY <1>2, <1>3 DEF QueueOrder

\* The steps that neither commit, publish nor read.
LEMMA QuietStepOrder ==
  ASSUME QueueOrder, inbox' \in {inbox, <<>>}, UNCHANGED <<table, published>>,
         \/ UNCHANGED <<batch, buffer>>
         \/ batch = <<>> /\ batch' = buffer /\ buffer' = <<>>
  PROVE  QueueOrder'
<1>1. Ordered(batch', buffer', inbox, table, published)
  BY OrderForgets DEF QueueOrder
<1>2. Ordered(batch', buffer', <<>>, table, published)
  BY <1>1, OrderForgets
<1>3. QED
  BY <1>1, <1>2 DEF QueueOrder

LEMMA PublishStepOrder ==
  ASSUME IInv, QueueOrder, NEW wellFormed \in BOOLEAN, Publish(wellFormed)
  PROVE  QueueOrder'
<1> DEFINE m == IF wellFormed THEN published + 1 ELSE Malformed
<1>1. /\ inbox \in Seq(Messages) /\ batch \in Seq(1..MaxPublished)
      /\ buffer \in Seq(1..MaxPublished) /\ published \in Nat
  BY DEF IInv, TypeOK
<1>2. /\ inbox' \in {inbox, Append(inbox, m)} /\ UNCHANGED <<batch, buffer, table>>
      /\ published' = published + 1
  BY DEF Publish
<1>3. m \in Messages /\ m \in {Malformed, published + 1}
  BY <1>1, BoundAssumption DEF Publish, Messages
<1> HIDE DEF m
<1>4. /\ Ordered(batch, buffer, inbox, table, published + 1)
      /\ Ordered(batch, buffer, Append(inbox, m), table, published + 1)
  BY <1>1, <1>3, OrderPublish DEF QueueOrder
<1>5. QED
  BY <1>2, <1>4 DEF QueueOrder

LEMMA InsertStepStored ==
  ASSUME DistinctKeys, IInv, StoredInv, NEW ok \in BOOLEAN, NEW committed \in BOOLEAN,
         FlushReturns(ok, committed) \/ DrainReturns(ok, committed)
  PROVE  StoredInv'
<1>1. /\ ok => committed
      /\ table' = IF committed THEN StoredAfter(table, batch) ELSE table
      /\ inserted' = IF ok THEN inserted + Len(batch) ELSE inserted
      /\ batch' = <<>>
  BY DEF FlushReturns, DrainReturns, InsertReturns
<1>2. UNCHANGED <<inbox, buffer, published>>
  BY DEF FlushReturns, DrainReturns
<1>3. QueueOrder'
  BY <1>1, <1>2, CommitStepOrder DEF StoredInv
<1>4. /\ Cardinality(table) \in Nat /\ Cardinality(StoredAfter(table, batch)) \in Nat
      /\ Cardinality(StoredAfter(table, batch)) = Cardinality(table) + Len(batch)
  BY CommitStoresBatch DEF IInv, TypeOK, StoredInv, QueueOrder, Ordered
<1>5. inserted \in Nat /\ Len(batch) \in Nat /\ inserted <= Cardinality(table)
  BY LengthFacts DEF IInv, TypeOK, StoredInv, InsertedIsStored
<1>6. inserted' <= Cardinality(table')
  BY <1>1, <1>4, <1>5
<1>7. QED
  BY <1>3, <1>6 DEF StoredInv, InsertedIsStored

LEMMA CancelStepStored ==
  ASSUME DistinctKeys, IInv, StoredInv, TickTaskCancelled
  PROVE  StoredInv'
<1>1. /\ batch' = <<>> /\ buffer' = buffer /\ inbox' = <<>> /\ UNCHANGED <<published, inserted>>
      /\ table' \in {table, StoredAfter(table, batch)}
  BY DEF TickTaskCancelled
<1>2. QueueOrder'
  BY <1>1, CommitStepOrder DEF StoredInv
<1>3. /\ Cardinality(table) \in Nat /\ Cardinality(StoredAfter(table, batch)) \in Nat
      /\ Cardinality(StoredAfter(table, batch)) = Cardinality(table) + Len(batch)
  BY CommitStoresBatch DEF IInv, TypeOK, StoredInv, QueueOrder, Ordered
<1>4. inserted \in Nat /\ Len(batch) \in Nat /\ inserted <= Cardinality(table)
  BY LengthFacts DEF IInv, TypeOK, StoredInv, InsertedIsStored
<1>5. inserted' <= Cardinality(table')
  BY <1>1, <1>3, <1>4
<1>6. QED
  BY <1>2, <1>5 DEF StoredInv, InsertedIsStored

LEMMA NextStoredInv == DistinctKeys /\ IInv /\ StoredInv /\ [Next]_vars => StoredInv'
<1> SUFFICES ASSUME DistinctKeys, IInv, StoredInv, [Next]_vars PROVE StoredInv'
  OBVIOUS
<1>1. ASSUME UNCHANGED <<table, inserted>>, QueueOrder' PROVE StoredInv'
  BY <1>1 DEF StoredInv, InsertedIsStored
<1>2. CASE ReadTick \/ ReadMalformed \/ ReadNothing
  <2>1. UNCHANGED <<table, inserted>>
    BY <1>2 DEF ReadTick, ReadMalformed, ReadNothing
  <2>2. QED
    BY <1>1, <1>2, <2>1, ReadStepOrder DEF StoredInv
<1>3. CASE \E ok, committed \in BOOLEAN : FlushReturns(ok, committed) \/ DrainReturns(ok, committed)
  BY <1>3, InsertStepStored
<1>4. CASE TickTaskCancelled
  BY <1>4, CancelStepStored
<1>5. CASE \E wellFormed \in BOOLEAN : Publish(wellFormed)
  <2>1. UNCHANGED <<table, inserted>>
    BY <1>5 DEF Publish
  <2>2. QED
    BY <1>1, <1>5, <2>1, PublishStepOrder DEF StoredInv
<1>6. ASSUME UNCHANGED <<table, inserted, published, batch, buffer>>, inbox' \in {inbox, <<>>}
      PROVE  StoredInv'
  BY <1>1, <1>6, QuietStepOrder DEF StoredInv
<1>7. CASE AuditTaskCancelled
  <2>1. /\ UNCHANGED <<table, inserted, published>> /\ inbox' = inbox
        /\ batch' = buffer /\ buffer' = <<>>
    BY <1>7 DEF AuditTaskCancelled
  <2>2. batch = <<>>
    BY <1>7 DEF AuditTaskCancelled, IInv, Stages
  <2>3. QED
    BY <1>1, <2>1, <2>2, QuietStepOrder DEF StoredInv
<1>8. CASE PublishEnvelope \/ FlushIntervalElapses \/ TickSubscribe \/ TickBackoffEnds
           \/ TickSessionCrashes \/ Stop
  BY <1>6, <1>8 DEF PublishEnvelope, FlushIntervalElapses, TickSubscribe, TickBackoffEnds,
                    TickSessionCrashes, Stop, tickVars
<1>9. CASE AuditLoop \/ AuditSessionCrashes
  BY <1>6, <1>9 DEF AuditLoop, AuditSubscribe, HandleAudit, AuditInsertReturns,
                    AuditBackoffEnds, AuditSessionCrashes, tickVars
<1>10. CASE UNCHANGED vars
  BY <1>6, <1>10 DEF vars, tickVars
<1>11. QED
  BY <1>2, <1>3, <1>4, <1>5, <1>7, <1>8, <1>9, <1>10 DEF Next, TickLoop, StopStep

\* With a (symbol, ts) of its own for every tick, ON CONFLICT DO NOTHING skips
\* nothing: each tick counted in ticks_inserted has its row, whatever failed
\* flushes committed and whenever stop() came.  Two trades stamped with the same
\* second are the only way to InsertedIsStored's violation.
THEOREM DistinctKeysAreStored == ASSUME DistinctKeys PROVE Spec => []InsertedIsStored
<1>1. Init => StoredInv
  <2> SUFFICES ASSUME Init PROVE StoredInv
    OBVIOUS
  <2>1. /\ batch = <<>> /\ buffer = <<>> /\ inbox = <<>> /\ table = {} /\ published = 0
        /\ inserted = 0
    BY DEF Init
  <2>2. QueueOrder
    BY <2>1, NoTicks DEF QueueOrder, Ordered, Increasing, Before, After, UpTo
  <2>3. QED
    BY <2>1, <2>2, FS_EmptySet DEF StoredInv, InsertedIsStored
<1>2. IInv /\ StoredInv /\ [Next]_vars => StoredInv'
  BY NextStoredInv
<1>3. StoredInv => InsertedIsStored
  BY DEF StoredInv
<1>4. QED
  BY <1>1, <1>2, <1>3, Invariance, PTL DEF Spec
=============================================================================
