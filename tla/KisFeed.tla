------------------------------- MODULE KisFeed -------------------------------
(***************************************************************************)
(* The frames of the KIS WebSocket from the wire to Redis and on_tick:     *)
(* KisClient.stream_ticks and its parsers, driven by KisPublisher._run.    *)
(* One task does it all, so a heartbeat is answered between two frames     *)
(* only, after every tick of the frame before has passed on_tick.          *)
(*                                                                         *)
(*   reading --ping--> ponging --> reading --close--> ended                *)
(*   reading --ticks--> publishing --> observing --> publishing ...        *)
(*                               \--> crashed                              *)
(***************************************************************************)
EXTENDS Selection

CONSTANTS
  MaxFrames,   \* bound: frames KIS sends
  MaxRecords   \* bound: records of a frame

VARIABLES
  frames,      \* what KIS sent, in order (external)
  open,        \* the connection, seen from KIS (external)
  read,        \* how many frames the stream has taken
  todo,        \* items of the frame that is being handled
  published,   \* items on the Redis channels, in order
  pongs,       \* heartbeats sent back
  stream       \* where the publisher's task is

vars == <<frames, open, read, todo, published, pongs, stream>>

\* What a record is to the parser: a tick or a book, something it turns away,
\* or a price that is no number, which the comparison with zero raises on.
Records == {"good", "bad", "nan"}

\* count: how many records the frame announces; a payload cut short has less.
Frames ==
  [kind : {"ping", "other"}, count : {0}, records : {<<>>}]
  \cup [kind : {"ticks"}, count : 1..MaxRecords,
        records : UNION {[1..n -> Records] : n \in 1..MaxRecords}]
  \cup [kind : {"quote"}, count : {1}, records : [1..1 -> {"good", "bad"}]]

Init ==
  /\ frames = <<>> /\ open = TRUE /\ read = 0
  /\ todo = <<>> /\ published = <<>> /\ pongs = 0
  /\ stream = "reading"

Sends(f) ==
  /\ open /\ Len(frames) < MaxFrames
  /\ frames' = Append(frames, f)
  /\ UNCHANGED <<open, read, todo, published, pongs, stream>>

Closes ==
  /\ open
  /\ open' = FALSE
  /\ UNCHANGED <<frames, read, todo, published, pongs, stream>>

\* The first count items of frame n, without the bad ones.
GoodItems(n, count) ==
  Kept([i \in 1..count |-> <<n, i>>], {x \in {n} \X (1..count) : frames[n].records[x[2]] = "good"})

\* Faulty variant: a payload cut short is dropped with all its records.
ParsedWholeOnly(n) ==
  GoodItems(n, IF Len(frames[n].records) < frames[n].count THEN 0 ELSE frames[n].count)

\* _parse_h0stcnt0_frame and _parse_h0stasp0_frame: the announced records, or
\* the complete ones of a payload cut short, without the bad ones.
Parsed(n) ==
  LET f == frames[n]
  IN GoodItems(n, IF Len(f.records) < f.count THEN Len(f.records) ELSE f.count)

\* Decimal("NaN") <= 0 raises outside _record_to_tick's try.
Raises(n) ==
  \E i \in 1..Len(frames[n].records) :
    i <= frames[n].count /\ frames[n].records[i] = "nan"

\* Frames that are neither a heartbeat nor data are logged and skipped.
ReadFrame ==
  /\ stream = "reading" /\ read < Len(frames)
  /\ read' = read + 1
  /\ CASE frames[read + 1].kind = "ping" -> stream' = "ponging" /\ UNCHANGED todo
       [] frames[read + 1].kind = "other" -> UNCHANGED <<stream, todo>>
       [] OTHER ->
            IF Raises(read + 1) THEN stream' = "crashed" /\ UNCHANGED todo
            ELSE stream' = "publishing" /\ todo' = Parsed(read + 1)
  /\ UNCHANGED <<frames, open, published, pongs>>

\* The heartbeat goes back as it came; on a closed connection that ends the
\* stream like any close.
Pong ==
  /\ stream = "ponging"
  /\ IF open THEN pongs' = pongs + 1 /\ stream' = "reading"
     ELSE stream' = "ended" /\ UNCHANGED pongs
  /\ UNCHANGED <<frames, open, read, todo, published>>

FrameDone ==
  /\ stream = "publishing" /\ todo = <<>>
  /\ stream' = "reading"
  /\ UNCHANGED <<frames, open, read, todo, published, pongs>>

\* A quote goes to its channel only, a tick to its channel and to on_tick.
Publish ==
  /\ stream = "publishing" /\ todo # <<>>
  /\ published' = Append(published, Head(todo))
  /\ todo' = Tail(todo)
  /\ stream' = IF frames[Head(todo)[1]].kind = "ticks" THEN "observing" ELSE stream
  /\ UNCHANGED <<frames, open, read, pongs>>

\* Redis fails: _run re-raises.
PublishRaises ==
  /\ stream = "publishing" /\ todo # <<>>
  /\ stream' = "crashed"
  /\ UNCHANGED <<frames, open, read, todo, published, pongs>>

\* on_tick returned, or raised and was logged.
Observe ==
  /\ stream = "observing"
  /\ stream' = "publishing"
  /\ UNCHANGED <<frames, open, read, todo, published, pongs>>

\* ConnectionClosed is raised when the received frames are used up.
StreamEnds ==
  /\ stream = "reading" /\ ~open /\ read = Len(frames)
  /\ stream' = "ended"
  /\ UNCHANGED <<frames, open, read, todo, published, pongs>>

Handles ==
  ReadFrame \/ Pong \/ FrameDone \/ Publish \/ PublishRaises \/ Observe \/ StreamEnds

Next == Handles \/ Closes \/ \E f \in Frames : Sends(f)

\* Redis and on_tick answer or fail (HTTP timeouts bound the agents).
Fairness == WF_vars(Handles)

Spec == Init /\ [][Next]_vars /\ Fairness

-----------------------------------------------------------------------------
TypeOK ==
  /\ frames \in Seq(Frames) /\ open \in BOOLEAN
  /\ read \in 0..Len(frames) /\ pongs \in Nat
  /\ stream \in {"reading", "ponging", "publishing", "observing", "ended", "crashed"}
  /\ \A i \in DOMAIN todo : todo[i][1] = read
  /\ stream = "reading" => todo = <<>>

\* What the frames taken so far hold for Redis.
Due ==
  {x \in (1..read) \X (1..MaxRecords) :
     LET f == frames[x[1]]
     IN x[2] <= Len(f.records) /\ x[2] <= f.count /\ f.records[x[2]] = "good"}

Before(x, y) == x[1] < y[1] \/ (x[1] = y[1] /\ x[2] < y[2])

\* Good records reach Redis in the order of the wire, none twice, and none is
\* left behind whatever bad records, cut payloads, heartbeats and other frames
\* surround them: when the next frame is awaited, and when the connection has
\* closed, all of them are there.  (A stream that crashed may owe some.)
RecordsInOrder ==
  /\ \A i, j \in DOMAIN published : i < j => Before(published[i], published[j])
  /\ \A i \in DOMAIN published : published[i] \in Due
  /\ stream \in {"reading", "ponging", "ended"} =>
       Due = {published[i] : i \in DOMAIN published}

Pings == {n \in 1..Len(frames) : frames[n].kind = "ping"}

\* Every heartbeat is answered, or the stream is over: no frame before it can
\* hold the task for ever.
PingsAnswered ==
  \A n \in 1..MaxFrames :
    n \in Pings ~> \/ stream \in {"ended", "crashed"}
                   \/ read >= n /\ stream # "ponging"
=============================================================================
