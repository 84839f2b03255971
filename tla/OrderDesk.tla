------------------------------ MODULE OrderDesk ------------------------------
(***************************************************************************)
(* The operator's orders and balance requests of api/v1/router.py, the KIS *)
(* REST clients behind them, and the access token those borrow from the    *)
(* KIS client that the refresh loop of kis_publisher.py renews.            *)
(*                                                                         *)
(*   idle --> posted --KIS decides--> replied --> answered                 *)
(*       \--no client, bad parameters-------------/                        *)
(***************************************************************************)
EXTENDS Integers

CONSTANTS
  Requests,    \* HTTP requests
  AllowLiveOrders,   \* settings.allow_live_orders
  Life,        \* how long KIS honours a token
  Headroom,    \* _headroom_seconds
  Interval,    \* _interval_seconds
  MaxClock     \* bound: how far time runs

\* A refresh begun at the first wake-up inside the headroom is over in time: its
\* HTTP timeout is one step of the clock.
TimesOk ==
  /\ Life \in Nat /\ Headroom \in Nat /\ Interval \in Nat \ {0}
  /\ Interval < Headroom /\ Headroom < Life

VARIABLES
  clock,
  client,      \* app.state.order_client and balance_client: none or a KIS client
  expires,     \* _token_expires_at
  loop,        \* the refresh loop: sleeping, asking or stopped
  loopTime,    \* when it went to sleep or began to ask
  failed,      \* its last attempt failed
  req          \* the requests: where they are, KIS' verdict and the answer

tokenVars == <<expires, loop, loopTime, failed>>
Kinds == {"order", "balance"}

vars == <<clock, client, tokenVars, req>>

\* kind: POST /v1/order or GET /v1/balance; token: the expiry of the token the
\* request carries.
Idle == [pc |-> "idle", kind |-> "none", token |-> 0, verdict |-> "none", answer |-> "none"]

\* The supervisor's bring-up: a token and its refresh loop, or no client at all.
Init ==
  /\ clock = 0
  /\ client \in {"none", "kis"}
  /\ expires = IF client = "kis" THEN Life ELSE 0
  /\ loop = IF client = "kis" THEN "sleeping" ELSE "stopped"
  /\ loopTime = 0
  /\ failed = FALSE
  /\ req = [r \in Requests |-> Idle]

\* Sleeps and HTTP timeouts end on time.
TimePasses ==
  /\ clock < MaxClock
  /\ loop = "sleeping" => clock < loopTime + Interval
  /\ loop = "asking" => clock < loopTime + 1
  /\ clock' = clock + 1
  /\ UNCHANGED <<client, tokenVars, req>>

\* Faulty variant: the token is renewed once it has expired.
NeedsRefreshExpired == clock >= expires

NeedsRefresh == clock + Headroom >= expires

LoopWakes ==
  /\ loop = "sleeping" /\ clock = loopTime + Interval
  /\ loop' = IF NeedsRefresh THEN "asking" ELSE loop
  /\ loopTime' = clock
  /\ UNCHANGED <<clock, client, expires, failed, req>>

\* authenticate(force=True).
RefreshSucceeds ==
  /\ loop = "asking"
  /\ expires' = clock + Life
  /\ loop' = "sleeping" /\ loopTime' = clock
  /\ failed' = FALSE
  /\ UNCHANGED <<clock, client, req>>

\* Timeout, refusal or a malformed answer: counted, and tried again.
RefreshFails ==
  /\ loop = "asking"
  /\ loop' = "sleeping" /\ loopTime' = clock
  /\ failed' = TRUE
  /\ UNCHANGED <<clock, client, expires, req>>

\* The watchdog's failover stops the loop; the clients of app.state stay.
Failover ==
  /\ loop # "stopped"
  /\ loop' = "stopped"
  /\ UNCHANGED <<clock, client, expires, loopTime, failed, req>>

NewRequest(r) == req[r].pc = "idle" /\ UNCHANGED <<clock, client, tokenVars>>

AnsweredAtOnce(r, kind, answer) ==
  req' = [req EXCEPT ![r].pc = "answered", ![r].kind = kind, ![r].answer = answer]

\* Without KIS credentials orders are accepted and balances made up.
MockAnswer(r) ==
  /\ NewRequest(r)
  /\ client = "none"
  /\ \E kind \in Kinds : AnsweredAtOnce(r, kind, "mock")

\* A limit order without a price: 422 before anything is sent.
Invalid(r) ==
  /\ NewRequest(r)
  /\ client = "kis"
  /\ AnsweredAtOnce(r, "order", "invalid")

\* The request goes to KIS with the client's token.  The switch that shadows
\* the pipeline's orders is not looked at.
Post(r) ==
  /\ NewRequest(r)
  /\ client = "kis"
  /\ \E kind \in Kinds :
       req' = [req EXCEPT ![r].pc = "posted", ![r].kind = kind, ![r].token = expires]

Verdict(r, verdict) ==
  /\ req[r].pc = "posted"
  /\ req' = [req EXCEPT ![r].pc = "replied", ![r].verdict = verdict]
  /\ UNCHANGED <<clock, client, tokenVars>>

\* KIS (external): an expired token is refused; else the order is placed or
\* refused, the balance sent.
KisDecides(r) ==
  \E verdict \in {"done", "refused", "unauthorised"} :
    /\ (verdict = "unauthorised") = (clock >= req[r].token)
    /\ verdict = "refused" => req[r].kind = "order"
    /\ Verdict(r, verdict)

Answered(r, answer) == req' = [req EXCEPT ![r].pc = "answered", ![r].answer = answer]

ToAnswer(r) == req[r].pc = "replied" /\ UNCHANGED <<clock, client, tokenVars>>

\* _parse_response: 401 and 403, then rt_cd.
ReplyParsed(r) ==
  /\ ToAnswer(r)
  /\ Answered(r, CASE req[r].verdict = "done" -> "accepted"
                   [] req[r].verdict = "refused" -> "rejected"
                   [] OTHER -> "unauthorised")

\* Faulty variant: a missing reply is reported as a rejection.
ReplyLostRejects(r) == ToAnswer(r) /\ Answered(r, "rejected")

\* Timeout, broken connection, or a body that is no JSON: 503.
ReplyLost(r) == ToAnswer(r) /\ Answered(r, "unavailable")

\* The connection fails before KIS has the request: 503 as well.
PostFails(r) ==
  /\ req[r].pc = "posted"
  /\ Answered(r, "unavailable")
  /\ UNCHANGED <<clock, client, tokenVars>>

\* JSON that is not what the parser takes for granted, a balance without one of
\* the summary's fields or an order's body that is no object: no handler is meant
\* for the exception, so it is a 500.
ReplyMalformed(r) == ToAnswer(r) /\ Answered(r, "error")

Progress(r) ==
  \/ KisDecides(r) \/ PostFails(r)
  \/ ReplyParsed(r) \/ ReplyLost(r) \/ ReplyMalformed(r)

Next ==
  \/ TimePasses \/ LoopWakes \/ RefreshSucceeds \/ RefreshFails \/ Failover
  \/ \E r \in Requests : MockAnswer(r) \/ Invalid(r) \/ Post(r) \/ Progress(r)

Spec == Init /\ [][Next]_vars

-----------------------------------------------------------------------------
TypeOK ==
  /\ clock \in 0..MaxClock /\ client \in {"none", "kis"}
  /\ expires \in Nat /\ loop \in {"sleeping", "asking", "stopped"}
  /\ loopTime \in Nat /\ failed \in BOOLEAN
  /\ client = "none" => loop = "stopped"
  /\ req \in [Requests ->
       [pc : {"idle", "posted", "replied", "answered"},
        kind : Kinds \cup {"none"}, token : Nat,
        verdict : {"none", "done", "refused", "unauthorised"},
        answer : {"none", "mock", "invalid", "accepted", "rejected",
                  "unauthorised", "unavailable", "error"}]]

\* KIS has the order.
Placed(r) == req[r].kind = "order" /\ req[r].verdict = "done"

\* What the operator is told is what happened: an accepted order is at KIS, one
\* that was rejected, invalid, unauthorised or mocked is not, whatever replies
\* were lost or unreadable and whenever the token ran out; only "unavailable" (503)
\* and an error (500) leave it open.
AnswersAreTrue ==
  \A r \in Requests :
    /\ req[r].kind = "order" /\ req[r].answer = "accepted" => Placed(r)
    /\ req[r].answer \in {"rejected", "invalid", "unauthorised", "mock"} => ~Placed(r)

\* While the refresh loop runs, and KIS does not fail it, the token the clients
\* borrow never runs out.
TokenKept ==
  client = "kis" /\ clock >= expires => loop = "stopped" \/ failed

\* allow_live_orders is a global hard safety switch: while it is off no order
\* reaches the broker.
SwitchGuardsBroker == \A r \in Requests : Placed(r) => AllowLiveOrders
=============================================================================
