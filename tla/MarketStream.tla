----------------------------- MODULE MarketStream -----------------------------
(***************************************************************************)
(* The browser connections of api/websockets/stream.py: market_stream with *)
(* its two tasks, one forwarding what the Redis subscription receives, one *)
(* reading the socket to notice that the client is gone.                   *)
(*                                                                         *)
(*   new --> accepted --> streaming --a task ended--> reaping              *)
(*       \--> rejected    \--error--> done    reaping --> unsubscribing    *)
(*                                            --> closing --> done         *)
(***************************************************************************)
EXTENDS Integers

CONSTANTS
  Conns,        \* connections
  MaxMessages   \* bound: messages published

VARIABLES
  conn,     \* the connections' handlers and tasks
  sent      \* how many messages were published on the channels

vars == <<conn, sent>>

\* sub: Redis has the subscription; inbox: messages received and not forwarded;
\* gone: the client left (external).
NewConn == [pc |-> "new", forward |-> "none", detect |-> "none", sub |-> FALSE,
            inbox |-> 0, gone |-> FALSE]

Init == conn = [c \in Conns |-> NewConn] /\ sent = 0

Goes(c, pc) == conn' = [conn EXCEPT ![c].pc = pc] /\ UNCHANGED sent

\* Without the development bypass every upgrade is turned away: validation of
\* the query token is not written yet.
Connect(c) ==
  /\ conn[c].pc = "new"
  /\ \E pc \in {"accepted", "rejected"} : Goes(c, pc)

Subscribe(c) ==
  /\ conn[c].pc = "accepted"
  /\ conn' = [conn EXCEPT ![c].pc = "streaming", ![c].sub = TRUE,
                ![c].forward = "running", ![c].detect = "running"]
  /\ UNCHANGED sent

\* Redis refuses: the exception leaves the handler, the server closes the socket.
SubscribeRaises(c) == conn[c].pc = "accepted" /\ Goes(c, "done")

\* A publisher's message reaches the subscriptions there are.
Message ==
  /\ sent < MaxMessages
  /\ sent' = sent + 1
  /\ conn' = [c \in Conns |->
       IF conn[c].sub THEN [conn[c] EXCEPT !.inbox = @ + 1] ELSE conn[c]]

ClientLeaves(c) ==
  /\ conn[c].pc \notin {"new", "rejected", "done"} /\ ~conn[c].gone
  /\ conn' = [conn EXCEPT ![c].gone = TRUE]
  /\ UNCHANGED sent

Forward(c) ==
  /\ conn[c].forward = "running" /\ conn[c].inbox > 0 /\ ~conn[c].gone
  /\ conn' = [conn EXCEPT ![c].inbox = @ - 1]
  /\ UNCHANGED sent

\* The send finds the socket closed.
ForwardEnds(c) ==
  /\ conn[c].forward = "running" /\ conn[c].inbox > 0 /\ conn[c].gone
  /\ conn' = [conn EXCEPT ![c].forward = "ended"]
  /\ UNCHANGED sent

\* Redis drops the connection, of a slow reader for instance: listen() raises.
RedisDrops(c) ==
  /\ conn[c].forward = "running"
  /\ conn' = [conn EXCEPT ![c].forward = "ended", ![c].sub = FALSE]
  /\ UNCHANGED sent

DetectEnds(c) ==
  /\ conn[c].detect = "running" /\ conn[c].gone
  /\ conn' = [conn EXCEPT ![c].detect = "ended"]
  /\ UNCHANGED sent

\* asyncio.wait with FIRST_COMPLETED.
WaitReturns(c) ==
  /\ conn[c].pc = "streaming"
  /\ "ended" \in {conn[c].forward, conn[c].detect}
  /\ Goes(c, "reaping")

\* Faulty variant: the task that still runs is left to itself.
ReapNothing(c) == conn[c].pc = "reaping" /\ Goes(c, "unsubscribing")

\* The task still running is cancelled and awaited, whatever it raises.
Reap(c) ==
  /\ conn[c].pc = "reaping"
  /\ conn' = [conn EXCEPT ![c].pc = "unsubscribing",
                ![c].forward = "ended", ![c].detect = "ended"]
  /\ UNCHANGED sent

\* unsubscribe() may fail, and is only logged then.
Unsubscribe(c) ==
  /\ conn[c].pc = "unsubscribing"
  /\ \E sub \in {FALSE, conn[c].sub} :
       conn' = [conn EXCEPT ![c].pc = "closing", ![c].sub = sub]
  /\ UNCHANGED sent

\* close() drops the connection to Redis, and with it the subscription.
ClosePubsub(c) ==
  /\ conn[c].pc = "closing"
  /\ conn' = [conn EXCEPT ![c].pc = "done", ![c].sub = FALSE]
  /\ UNCHANGED sent

Progress(c) ==
  \/ Subscribe(c) \/ SubscribeRaises(c) \/ WaitReturns(c)
  \/ Reap(c) \/ Unsubscribe(c) \/ ClosePubsub(c)

Next ==
  \/ Message
  \/ \E c \in Conns :
       \/ Connect(c) \/ ClientLeaves(c) \/ RedisDrops(c) \/ DetectEnds(c)
       \/ Forward(c) \/ ForwardEnds(c) \/ Progress(c)

\* Each task is scheduled, and the two tasks of a connection independently.
Fairness ==
  \A c \in Conns :
    WF_vars(Progress(c)) /\ WF_vars(DetectEnds(c)) /\ WF_vars(Forward(c))

Spec == Init /\ [][Next]_vars /\ Fairness

-----------------------------------------------------------------------------
TypeOK ==
  /\ sent \in Nat
  /\ conn \in [Conns ->
       [pc : {"new", "accepted", "rejected", "streaming", "reaping",
              "unsubscribing", "closing", "done"},
        forward : {"none", "running", "ended"}, detect : {"none", "running", "ended"},
        sub : BOOLEAN, inbox : Nat, gone : BOOLEAN]]

\* When a handler is done neither of its tasks runs and Redis holds no
\* subscription of it, whichever task ended first, or both, and whatever failed.
NoOrphans ==
  \A c \in Conns : conn[c].pc \in {"done", "rejected"} =>
    ~conn[c].sub /\ "running" \notin {conn[c].forward, conn[c].detect}

\* A connection whose client left, or whose subscription broke, is wound up.
ConnectionEnds ==
  \A c \in Conns :
    conn[c].pc = "streaming" /\ (conn[c].gone \/ ~conn[c].sub) ~> conn[c].pc = "done"
=============================================================================
