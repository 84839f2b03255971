-------------------------- MODULE PersistenceWorker --------------------------
(***************************************************************************)
(* The off-hot-path database writer, src/infrastructure/                   *)
(* persistence_worker.py, with the two repositories it calls.              *)
(*                                                                         *)
(* Two asyncio tasks each consume one Redis pub/sub channel: the tick loop *)
(* buffers ticks and flushes them in batches, the audit loop inserts one   *)
(* row per envelope.  stop() cancels the tasks one after the other and     *)
(* drains the buffer.  Redis (external) delivers a message only to a       *)
(* session that is subscribed when it is published; the database           *)
(* (external) commits a batch as a whole, and an error reply does not tell *)
(* whether it did.                                                         *)
(*                                                                         *)
(* A tick is the index of its publication; KeyOf gives its (symbol, ts).   *)
(***************************************************************************)
EXTENDS Integers, Sequences, FiniteSets

CONSTANTS
  FlushThreshold,   \* flush_threshold
  BufferMax,        \* buffer_max, the deque's maxlen
  KeyOf,            \* KeyOf[n] = primary key (symbol, ts) of tick n
  MaxPublished,     \* bound: messages published on nexus.market.tick
  MaxEnvelopes      \* bound: messages published on nexus.trading.audit

ASSUME WorkerAssumption ==
  /\ FlushThreshold \in Nat \ {0}
  /\ BufferMax \in Nat
  /\ BufferMax >= FlushThreshold
ASSUME KeysAssumption == DOMAIN KeyOf = 1..MaxPublished
ASSUME BoundAssumption == MaxPublished \in Nat /\ MaxEnvelopes \in Nat

VARIABLES
  tickPc,      \* where the tick loop is suspended
  inbox,       \* messages received by its subscription and not read yet
  buffer,      \* _buffer
  batch,       \* the batch handed to insert_batch
  due,         \* now - last_flush >= flush_interval_s
  inserted,    \* _ticks_inserted
  dropped,     \* _ticks_dropped
  auditPc,     \* where the audit loop is suspended
  auditInbox,  \* number of envelopes received and not read yet
  executionsInserted,  \* _executions_inserted
  executionsFailed,    \* _executions_failed
  stopPc,      \* progress of stop()
  table,       \* market_tick: the ticks whose row is stored (external)
  published,   \* messages published on the tick channel
  missed,      \* ... that no subscription received
  malformed,   \* ... that were read and skipped
  lost,        \* ticks of a batch whose insert was cancelled
  envelopes,   \* messages published on the audit channel
  auditMissed, \* ... that no subscription received
  auditLost    \* envelopes whose insert was cancelled

tickVars  == <<tickPc, inbox, buffer, batch, due, inserted, dropped, table,
               missed, malformed, lost>>
auditVars == <<auditPc, auditInbox, executionsInserted, executionsFailed,
               auditMissed, auditLost>>
vars == <<tickVars, auditVars, stopPc, published, envelopes>>

Malformed == 0                    \* a message _enqueue_tick cannot parse
Messages  == {Malformed} \cup 1..MaxPublished
Elements(s) == {s[i] : i \in 1..Len(s)}

\* start() has created both tasks.
Init ==
  /\ tickPc = "subscribing" /\ auditPc = "subscribing"
  /\ inbox = <<>> /\ buffer = <<>> /\ batch = <<>>
  /\ due = FALSE
  /\ inserted = 0 /\ dropped = 0
  /\ auditInbox = 0 /\ executionsInserted = 0 /\ executionsFailed = 0
  /\ stopPc = "up"
  /\ table = {}
  /\ published = 0 /\ missed = 0 /\ malformed = 0 /\ lost = 0
  /\ envelopes = 0 /\ auditMissed = 0 /\ auditLost = 0

-----------------------------------------------------------------------------
(* Redis pub/sub: fire and forget.                                         *)

Publish(wellFormed) ==
  /\ published < MaxPublished
  /\ published' = published + 1
  /\ IF tickPc \in {"reading", "flushing"}
     THEN /\ inbox' = Append(inbox, IF wellFormed THEN published + 1 ELSE Malformed)
          /\ UNCHANGED missed
     ELSE /\ missed' = missed + 1
          /\ UNCHANGED inbox
  /\ UNCHANGED <<tickPc, buffer, batch, due, inserted, dropped, table, malformed,
                 lost, auditVars, stopPc, envelopes>>

PublishEnvelope ==
  /\ envelopes < MaxEnvelopes
  /\ envelopes' = envelopes + 1
  /\ IF auditPc \in {"listening", "inserting"}
     THEN auditInbox' = auditInbox + 1 /\ UNCHANGED auditMissed
     ELSE auditMissed' = auditMissed + 1 /\ UNCHANGED auditInbox
  /\ UNCHANGED <<tickVars, auditPc, executionsInserted, executionsFailed, auditLost,
                 stopPc, published>>

-----------------------------------------------------------------------------
(* The tick loop.  Cancelled tasks take no ordinary step: stopPc = "up" or, *)
(* for the audit loop, stop() has not reached it yet.                       *)

TickLoopRuns == stopPc = "up"

\* A session starts: subscribe, last_flush = now.
TickSubscribe ==
  /\ TickLoopRuns
  /\ tickPc = "subscribing"
  /\ tickPc' = "reading"
  /\ due' = FALSE
  /\ UNCHANGED <<inbox, buffer, batch, inserted, dropped, table, missed, malformed,
                 lost, auditVars, stopPc, published, envelopes>>

FlushIntervalElapses ==
  /\ ~due
  /\ due' = TRUE
  /\ UNCHANGED <<tickPc, inbox, buffer, batch, inserted, dropped, table, missed,
                 malformed, lost, auditVars, stopPc, published, envelopes>>

\* deque(maxlen): appending to a full deque evicts its oldest tick.
EnqueueTick(b, tick) ==
  IF Len(b) = BufferMax THEN Append(Tail(b), tick) ELSE Append(b, tick)

\* Faulty variant: one tick more than the threshold is needed.
FlushOrReadLate(b) ==
  IF Len(b) > FlushThreshold \/ (due /\ b # <<>>)
  THEN batch' = b /\ buffer' = <<>> /\ tickPc' = "flushing" /\ due' = FALSE
  ELSE buffer' = b /\ UNCHANGED <<batch, tickPc, due>>

\* Faulty variant: no flush on the interval.
FlushOrReadThresholdOnly(b) ==
  IF Len(b) >= FlushThreshold
  THEN batch' = b /\ buffer' = <<>> /\ tickPc' = "flushing" /\ due' = FALSE
  ELSE buffer' = b /\ UNCHANGED <<batch, tickPc, due>>

\* The rest of an iteration once the buffer is b: flush at the threshold, or
\* when the interval elapsed and something is buffered.  The buffer is cleared
\* before insert_batch is awaited.
FlushOrRead(b) ==
  IF Len(b) >= FlushThreshold \/ (due /\ b # <<>>)
  THEN /\ batch' = b
       /\ buffer' = <<>>
       /\ tickPc' = "flushing"
       /\ due' = FALSE
  ELSE /\ buffer' = b
       /\ UNCHANGED <<batch, tickPc, due>>

ReadTick ==
  /\ TickLoopRuns
  /\ tickPc = "reading"
  /\ inbox # <<>>
  /\ Head(inbox) # Malformed
  /\ inbox' = Tail(inbox)
  /\ dropped' = IF Len(buffer) = BufferMax THEN dropped + 1 ELSE dropped
  /\ FlushOrRead(EnqueueTick(buffer, Head(inbox)))
  /\ UNCHANGED <<inserted, table, missed, malformed, lost, auditVars, stopPc,
                 published, envelopes>>

\* Faulty variant: what does not parse is buffered all the same.
ReadMalformedBuffered ==
  /\ TickLoopRuns
  /\ tickPc = "reading"
  /\ inbox # <<>>
  /\ Head(inbox) = Malformed
  /\ inbox' = Tail(inbox)
  /\ malformed' = malformed + 1
  /\ FlushOrRead(EnqueueTick(buffer, Malformed))
  /\ UNCHANGED <<inserted, dropped, table, missed, lost, auditVars, stopPc,
                 published, envelopes>>

ReadMalformed ==
  /\ TickLoopRuns
  /\ tickPc = "reading"
  /\ inbox # <<>>
  /\ Head(inbox) = Malformed
  /\ inbox' = Tail(inbox)
  /\ malformed' = malformed + 1
  /\ FlushOrRead(buffer)
  /\ UNCHANGED <<inserted, dropped, table, missed, lost, auditVars, stopPc,
                 published, envelopes>>

\* get_message timed out.
ReadNothing ==
  /\ TickLoopRuns
  /\ tickPc = "reading"
  /\ inbox = <<>>
  /\ due /\ buffer # <<>>
  /\ FlushOrRead(buffer)
  /\ UNCHANGED <<inbox, inserted, dropped, table, missed, malformed, lost,
                 auditVars, stopPc, published, envelopes>>

\* ON CONFLICT (symbol, ts) DO NOTHING: the first row of a key stays.
StoredAfter(rows, ticks) ==
  rows \cup {t \in Elements(ticks) :
               /\ \A r \in rows : KeyOf[r] # KeyOf[t]
               /\ \A u \in Elements(ticks) : KeyOf[u] = KeyOf[t] => t <= u}

\* Faulty variant: a failed batch is dropped and not counted.
InsertReturnsUncounted(ok, committed) ==
  /\ ok => committed
  /\ table' = IF committed THEN StoredAfter(table, batch) ELSE table
  /\ inserted' = IF ok THEN inserted + Len(batch) ELSE inserted
  /\ batch' = <<>>
  /\ UNCHANGED dropped

\* insert_batch returns: the whole batch is counted inserted, or, on any
\* database error, dropped -- also when the commit happened before the error.
InsertReturns(ok, committed) ==
  /\ ok => committed
  /\ table' = IF committed THEN StoredAfter(table, batch) ELSE table
  /\ inserted' = IF ok THEN inserted + Len(batch) ELSE inserted
  /\ dropped' = IF ok THEN dropped ELSE dropped + Len(batch)
  /\ batch' = <<>>

FlushReturns(ok, committed) ==
  /\ TickLoopRuns
  /\ tickPc = "flushing"
  /\ tickPc' = "reading"
  /\ InsertReturns(ok, committed)
  /\ UNCHANGED <<inbox, buffer, due, missed, malformed, lost, auditVars, stopPc,
                 published, envelopes>>

\* Redis fails under subscribe or get_message: the session ends, what its
\* subscription had received is gone, and the loop sleeps before the next one.
TickSessionCrashes ==
  /\ TickLoopRuns
  /\ tickPc \in {"subscribing", "reading"}
  /\ tickPc' = "backoff"
  /\ missed' = missed + Len(inbox)
  /\ inbox' = <<>>
  /\ UNCHANGED <<buffer, batch, due, inserted, dropped, table, malformed, lost,
                 auditVars, stopPc, published, envelopes>>

TickBackoffEnds ==
  /\ TickLoopRuns
  /\ tickPc = "backoff"
  /\ tickPc' = "subscribing"
  /\ UNCHANGED <<inbox, buffer, batch, due, inserted, dropped, table, missed,
                 malformed, lost, auditVars, stopPc, published, envelopes>>

TickLoop ==
  \/ TickSubscribe
  \/ ReadTick
  \/ ReadMalformed
  \/ ReadNothing
  \/ \E ok, committed \in BOOLEAN : FlushReturns(ok, committed)
  \/ TickBackoffEnds

-----------------------------------------------------------------------------
(* The audit loop.                                                         *)

AuditLoopRuns == stopPc \in {"up", "cancelTick"}

AuditSubscribe ==
  /\ AuditLoopRuns
  /\ auditPc = "subscribing"
  /\ auditPc' = "listening"
  /\ UNCHANGED <<tickVars, auditInbox, executionsInserted, executionsFailed,
                 auditMissed, auditLost, stopPc, published, envelopes>>

\* Faulty variant: an envelope that does not parse is skipped silently.
HandleAuditUncounted(wellFormed) ==
  /\ AuditLoopRuns
  /\ auditPc = "listening"
  /\ auditInbox > 0
  /\ auditInbox' = auditInbox - 1
  /\ auditPc' = IF wellFormed THEN "inserting" ELSE "listening"
  /\ UNCHANGED <<tickVars, executionsInserted, executionsFailed, auditMissed, auditLost,
                 stopPc, published, envelopes>>

\* _handle_audit: an envelope that does not parse is counted failed, any other
\* goes to ExecutionRepository.insert.
HandleAudit(wellFormed) ==
  /\ AuditLoopRuns
  /\ auditPc = "listening"
  /\ auditInbox > 0
  /\ auditInbox' = auditInbox - 1
  /\ auditPc' = IF wellFormed THEN "inserting" ELSE "listening"
  /\ executionsFailed' = IF wellFormed THEN executionsFailed ELSE executionsFailed + 1
  /\ UNCHANGED <<tickVars, executionsInserted, auditMissed, auditLost, stopPc,
                 published, envelopes>>

\* insert returns True, or False for a bad envelope or a database error.
AuditInsertReturns(ok) ==
  /\ AuditLoopRuns
  /\ auditPc = "inserting"
  /\ auditPc' = "listening"
  /\ executionsInserted' = IF ok THEN executionsInserted + 1 ELSE executionsInserted
  /\ executionsFailed' = IF ok THEN executionsFailed ELSE executionsFailed + 1
  /\ UNCHANGED <<tickVars, auditInbox, auditMissed, auditLost, stopPc, published,
                 envelopes>>

AuditSessionCrashes ==
  /\ AuditLoopRuns
  /\ auditPc \in {"subscribing", "listening"}
  /\ auditPc' = "backoff"
  /\ auditMissed' = auditMissed + auditInbox
  /\ auditInbox' = 0
  /\ UNCHANGED <<tickVars, executionsInserted, executionsFailed, auditLost, stopPc,
                 published, envelopes>>

AuditBackoffEnds ==
  /\ AuditLoopRuns
  /\ auditPc = "backoff"
  /\ auditPc' = "subscribing"
  /\ UNCHANGED <<tickVars, auditInbox, executionsInserted, executionsFailed,
                 auditMissed, auditLost, stopPc, published, envelopes>>

AuditLoop ==
  \/ AuditSubscribe
  \/ \E wellFormed \in BOOLEAN : HandleAudit(wellFormed)
  \/ \E ok \in BOOLEAN : AuditInsertReturns(ok)
  \/ AuditBackoffEnds

-----------------------------------------------------------------------------
(* stop(): cancel and await the tick task, then the audit task, then drain. *)

Stop ==
  /\ stopPc = "up"
  /\ stopPc' = "cancelTick"
  /\ UNCHANGED <<tickVars, auditVars, published, envelopes>>

\* Faulty variant: the cancellation is not delivered to a task that flushes.
TickTaskCancelledUnlessFlushing ==
  /\ stopPc = "cancelTick"
  /\ tickPc # "flushing"
  /\ stopPc' = "cancelAudit"
  /\ tickPc' = "done"
  /\ missed' = missed + Len(inbox)
  /\ inbox' = <<>>
  /\ UNCHANGED <<buffer, batch, due, inserted, dropped, table, malformed, lost,
                 auditVars, published, envelopes>>

\* CancelledError leaves the tick loop at its await.  A batch whose insert was
\* awaited is gone from the buffer and reaches no counter; the cancelled
\* statement may have committed.
TickTaskCancelled ==
  /\ stopPc = "cancelTick"
  /\ stopPc' = "cancelAudit"
  /\ tickPc' = "done"
  /\ missed' = missed + Len(inbox)
  /\ inbox' = <<>>
  /\ lost' = lost + Len(batch)
  /\ batch' = <<>>
  /\ \E committed \in BOOLEAN :
       table' = IF committed THEN StoredAfter(table, batch) ELSE table
  /\ UNCHANGED <<buffer, due, inserted, dropped, malformed, auditVars, published,
                 envelopes>>

\* Faulty variant: stop() returns without the last flush.
AuditTaskCancelledNoDrain ==
  /\ stopPc = "cancelAudit"
  /\ auditPc' = "done"
  /\ auditMissed' = auditMissed + auditInbox
  /\ auditInbox' = 0
  /\ auditLost' = IF auditPc = "inserting" THEN auditLost + 1 ELSE auditLost
  /\ stopPc' = "stopped"
  /\ UNCHANGED <<tickPc, inbox, buffer, batch, due, inserted, dropped, table, missed,
                 malformed, lost, executionsInserted, executionsFailed, published,
                 envelopes>>

\* The audit task ends; stop() takes what is buffered for a last insert.
AuditTaskCancelled ==
  /\ stopPc = "cancelAudit"
  /\ auditPc' = "done"
  /\ auditMissed' = auditMissed + auditInbox
  /\ auditInbox' = 0
  /\ auditLost' = IF auditPc = "inserting" THEN auditLost + 1 ELSE auditLost
  /\ batch' = buffer
  /\ buffer' = <<>>
  /\ stopPc' = IF buffer = <<>> THEN "stopped" ELSE "draining"
  /\ UNCHANGED <<tickPc, inbox, due, inserted, dropped, table, missed, malformed,
                 lost, executionsInserted, executionsFailed, published, envelopes>>

DrainReturns(ok, committed) ==
  /\ stopPc = "draining"
  /\ stopPc' = "stopped"
  /\ InsertReturns(ok, committed)
  /\ UNCHANGED <<tickPc, inbox, buffer, due, missed, malformed, lost, auditVars,
                 published, envelopes>>

StopStep ==
  \/ TickTaskCancelled
  \/ AuditTaskCancelled
  \/ \E ok, committed \in BOOLEAN : DrainReturns(ok, committed)

Next ==
  \/ \E wellFormed \in BOOLEAN : Publish(wellFormed)
  \/ PublishEnvelope
  \/ FlushIntervalElapses
  \/ TickLoop
  \/ TickSessionCrashes
  \/ AuditLoop
  \/ AuditSessionCrashes
  \/ Stop
  \/ StopStep

\* The event loop resumes a task whose await ended (get_message and the
\* statements have time-outs); time passes; stop() is called at most once, by
\* the lifespan, and need not be.
Fairness ==
  /\ WF_vars(TickLoop)
  /\ WF_vars(AuditLoop)
  /\ WF_vars(StopStep)
  /\ WF_vars(FlushIntervalElapses)

Spec     == Init /\ [][Next]_vars
FairSpec == Spec /\ Fairness

-----------------------------------------------------------------------------
(* Properties.                                                             *)

TypeOK ==
  /\ tickPc \in {"subscribing", "reading", "flushing", "backoff", "done"}
  /\ auditPc \in {"subscribing", "listening", "inserting", "backoff", "done"}
  /\ stopPc \in {"up", "cancelTick", "cancelAudit", "draining", "stopped"}
  /\ inbox \in Seq(Messages)
  /\ buffer \in Seq(1..MaxPublished)
  /\ batch \in Seq(1..MaxPublished)
  /\ due \in BOOLEAN
  /\ table \subseteq 1..MaxPublished
  /\ inserted \in Nat /\ dropped \in Nat
  /\ published \in Nat /\ missed \in Nat /\ malformed \in Nat /\ lost \in Nat
  /\ auditInbox \in Nat /\ executionsInserted \in Nat /\ executionsFailed \in Nat
  /\ envelopes \in Nat /\ auditMissed \in Nat /\ auditLost \in Nat

\* Every message of the tick channel is at one place: not received, unread,
\* skipped, buffered, in the batch being inserted, or settled in a counter --
\* or it was in a batch whose insert stop() cancelled.
TickConservation ==
  published = missed + Len(inbox) + malformed + Len(buffer) + Len(batch)
              + inserted + dropped + lost

\* The same for the audit channel.
AuditConservation ==
  envelopes = auditMissed + auditInbox + executionsInserted + executionsFailed
              + auditLost + (IF auditPc = "inserting" THEN 1 ELSE 0)

\* The flush is awaited by the task that reads, and a failed flush does not
\* return its batch: the buffer stays below the flush threshold whatever the
\* database does.  So ticks do not pile up to _TICK_BUFFER_MAX while the
\* database is down, and eviction never drops one, as persistence_worker.py
\* says of it (lines 23-26 and 64-67); the batches of the outage are lost.
BufferBelowThreshold == Len(buffer) < FlushThreshold

\* When stop() returned nothing is left behind: every message ever published is
\* settled -- not received, skipped, inserted or dropped -- or was in a batch
\* whose insert the cancellation interrupted.
StopSettles ==
  stopPc = "stopped" => published = missed + malformed + inserted + dropped + lost

\* A buffered tick is not held for ever, however quiet the channel -- unless
\* sessions keep crashing: only a running session flushes, and each new one
\* starts the flush interval again, so while Redis fails over and over the
\* ticks read before it failed stay in memory.
BufferedIsFlushed ==
  (buffer # <<>> ~> buffer = <<>>) \/ []<><<TickSessionCrashes>>_vars

\* stop() ends, whatever the loops were doing.
StopEnds == stopPc = "cancelTick" ~> stopPc = "stopped"

\* persistence_worker.py: stop() "flushes any remaining buffered ticks one last
\* time so a clean shutdown doesn't lose pending writes".
ShutdownLosesNothing == stopPc = "stopped" => lost = 0

\* A tick counted in ticks_inserted has its row.
InsertedIsStored == inserted <= Cardinality(table)
=============================================================================
