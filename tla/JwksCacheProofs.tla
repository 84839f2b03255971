--------------------------- MODULE JwksCacheProofs ---------------------------
(***************************************************************************)
(* For any number of requests, keys, rotations and failures: no request    *)
(* is admitted on an expired key set, and rotation turns no good token     *)
(* away.                                                                   *)
(*                                                                         *)
(* Everything is said of one request's frame at a time: what it knows of   *)
(* its key (a body that was fetched while the key was published all along  *)
(* has the key) and what its answer says.  Who stands in the lock's queue  *)
(* does not matter for either property, only for their being reached.      *)
(***************************************************************************)
EXTENDS JwksCache, SequenceTheorems, TLAPS

Frames ==
  [pc : {"idle", "waiting", "discovery", "fetching", "served", "answered"},
   kid : Kids \cup {""}, body : SUBSET Kids, steady : BOOLEAN,
   good : BOOLEAN, answer : {"none", "key", "unknown", "error", "crash"},
   status : {"none", "principal", "anonymous", "401", "500"}]

Pending(f) == f.pc \in {"waiting", "discovery", "fetching", "served"}

\* What holds of a frame, given the configuration m and the keys P that are published.
FrameOk(f, m, P) ==
  /\ f \in Frames
  /\ Pending(f) => m = "entra"
  /\ f.pc # "answered" => f.answer = "none" /\ f.status = "none"
  /\ f.steady => f.kid \in P
  /\ f.pc = "served" /\ f.steady => f.kid \in f.body
  /\ f.answer = "unknown" => ~f.steady
  /\ f.answer = "key" /\ f.good => f.status = "principal"
  /\ f.status = "principal" => f.good

Inv ==
  /\ DOMAIN req = Requests /\ req = [r \in Requests |-> req[r]]
  /\ published \subseteq Kids
  /\ \A r \in Requests : FrameOk(req[r], mode, published)

-----------------------------------------------------------------------------
\* Answering keeps a pending frame in order when "key" is the answer, when its key is not
\* known although the provider answered, and when the provider failed.
LEMMA AnsweredOk ==
  ASSUME NEW f, FrameOk(f, mode, published), Pending(f), NEW answer \in {"key", "unknown", "error", "crash"},
         answer = "unknown" => ~f.steady
  PROVE  FrameOk(Answered(f, answer), mode, published)
<1>1. CASE answer = "key"
  BY <1>1 DEF FrameOk, Frames, Pending, Answered, Status
<1>2. CASE answer # "key"
  BY <1>2 DEF FrameOk, Frames, Pending, Answered, Status
<1> QED BY <1>1, <1>2

\* Only the answer "key" admits.
LEMMA OnlyKeyAdmits ==
  ASSUME NEW f \in Frames, NEW answer, Answered(f, answer).status = "principal"
  PROVE  answer = "key"
  BY DEF Frames, Answered, Status

\* An answer does not change what was asked for.
LEMMA SameKey == ASSUME NEW f \in Frames, NEW answer PROVE Answered(f, answer).kid = f.kid
<1>1. ASSUME NEW status
      PROVE  [f EXCEPT !.pc = "answered", !.body = {}, !.answer = answer, !.status = status].kid
               = f.kid
  BY DEF Frames
<1> QED BY <1>1, Zenon DEF Answered

\* A request that begins is in order.
LEMMA BegunOk ==
  ASSUME NEW k \in Kids, NEW good \in BOOLEAN, mode = "entra", published \subseteq Kids
  PROVE  FrameOk(Begun(k, good), mode, published) /\ Pending(Begun(k, good)) /\ Begun(k, good).kid = k
<1>1. Idle \in Frames /\ Idle.answer = "none" /\ Idle.status = "none"
  BY DEF Idle, Frames
<1>2. ASSUME NEW f \in Frames, f.answer = "none", f.status = "none", NEW s \in BOOLEAN,
             s => k \in published,
             NEW g, g = [f EXCEPT !.pc = "waiting", !.kid = k, !.good = good, !.steady = s]
      PROVE  FrameOk(g, mode, published) /\ Pending(g) /\ g.kid = k
  BY <1>2 DEF FrameOk, Frames, Pending
<1>3. (k \in published) \in BOOLEAN
  OBVIOUS
<1> QED BY <1>1, <1>2, <1>3, Zenon DEF Begun

\* The two steps in between, and the answer of the provider.
LEMMA FetchingOk ==
  ASSUME NEW f, FrameOk(f, mode, published), Pending(f), published \subseteq Kids
  PROVE  /\ FrameOk([f EXCEPT !.pc = "discovery"], mode, published)
         /\ FrameOk([f EXCEPT !.pc = "fetching"], mode, published)
         /\ FrameOk([f EXCEPT !.pc = "served", !.body = published], mode, published)
  BY DEF FrameOk, Frames, Pending

\* A step of one request.
LEMMA OneRequest ==
  ASSUME Inv, UNCHANGED <<mode, published>>, NEW r \in Requests, NEW g, FrameOk(g, mode, published),
         req' = [req EXCEPT ![r] = g]
  PROVE  Inv'
  BY DEF Inv

\* The provider rotates: only what is remembered of the key's publication moves.
LEMMA RotateStep == ASSUME Inv, Rotate PROVE Inv'
<1>1. ASSUME NEW f, NEW m, NEW P, NEW Q, FrameOk(f, m, P), NEW s \in BOOLEAN,
             s => f.steady /\ f.kid \in Q
      PROVE  FrameOk([f EXCEPT !.steady = s], m, Q)
  BY <1>1 DEF FrameOk, Frames, Pending
<1>2. mode' = mode /\ published' \subseteq Kids
  BY DEF Rotate
<1>3. ASSUME NEW r \in Requests PROVE FrameOk(req'[r], mode', published')
  <2>1. PICK s \in BOOLEAN : s = (req[r].steady /\ req[r].kid \in published')
    OBVIOUS
  <2>2. req'[r] = [req[r] EXCEPT !.steady = s]
    BY <2>1, Zenon DEF Rotate
  <2>3. FrameOk(req[r], mode, published)
    BY DEF Inv
  <2>4. s => req[r].steady /\ req[r].kid \in published'
    BY <2>1
  <2>5. FrameOk([req[r] EXCEPT !.steady = s], mode, published')
    BY <1>1, <2>3, <2>4
  <2> QED BY <1>2, <2>2, <2>5, Zenon
<1>4. DOMAIN req' = Requests /\ req' = [r \in Requests |-> req'[r]]
  BY Zenon DEF Rotate
<1> QED BY <1>2, <1>3, <1>4 DEF Inv

\* A request that asks for no key is answered at once.
LEMMA NoKeyAnswers ==
  ASSUME Inv, NEW r \in Requests, NoKeyAsked(r)
  PROVE  \E status \in {"401", "500", "anonymous"} :
           req' = [req EXCEPT ![r] = [req[r] EXCEPT !.pc = "answered", !.status = status]]
<1>1. \A x : [req EXCEPT ![r].pc = "answered", ![r].status = x]
               = [req EXCEPT ![r] = [req[r] EXCEPT !.pc = "answered", !.status = x]]
  BY DEF Inv
<1>2. PICK x : /\ x \in {"401"} \cup (IF mode = "entra" THEN {} ELSE {"500"})
                         \cup (IF mode = "development" THEN {"anonymous"} ELSE {})
               /\ req' = [req EXCEPT ![r].pc = "answered", ![r].status = x]
  BY Zenon DEF NoKeyAsked
<1>3. x \in {"401", "500", "anonymous"}
  BY <1>2
<1> QED BY <1>1, <1>2, <1>3, Zenon

LEMMA Step == ASSUME Inv, [Next]_vars PROVE Inv'
<1>1. CASE UNCHANGED vars \/ TimePasses
  BY <1>1 DEF vars, TimePasses, Inv
<1>2. CASE Rotate
  BY <1>2, RotateStep
<1>3. ASSUME NEW r \in Requests, NoKeyAsked(r) PROVE Inv'
  <2>1. PICK status \in {"401", "500", "anonymous"} :
          req' = [req EXCEPT ![r] = [req[r] EXCEPT !.pc = "answered", !.status = status]]
    BY <1>3, NoKeyAnswers, Zenon
  <2>2. FrameOk(req[r], mode, published) /\ req[r].pc = "idle" /\ UNCHANGED <<mode, published>>
    BY <1>3 DEF NoKeyAsked, Inv
  <2>3. FrameOk([req[r] EXCEPT !.pc = "answered", !.status = status], mode, published)
    BY <2>1, <2>2 DEF FrameOk, Frames, Pending
  <2> QED BY <2>1, <2>2, <2>3, OneRequest
<1>4. ASSUME NEW r \in Requests, NEW k \in Kids, NEW good \in BOOLEAN, GetKey(r, k, good)
      PROVE  Inv'
  <2>1. /\ FrameOk(Begun(k, good), mode, published) /\ FrameOk(Answered(Begun(k, good), "key"), mode, published)
        /\ UNCHANGED <<mode, published>>
    BY <1>4, BegunOk, AnsweredOk DEF GetKey, Inv
  <2> QED BY <1>4, <2>1, OneRequest DEF GetKey
<1>5. ASSUME NEW r \in Requests, Progress(r) PROVE Inv'
  <2>1. FrameOk(req[r], mode, published) /\ published \subseteq Kids
    BY DEF Inv
  <2>2. CASE Enter(r)
    BY <2>1, <2>2, AnsweredOk, FetchingOk, OneRequest DEF Enter, Leave, Pending
  <2>3. CASE Discovered(r)
    BY <2>1, <2>3, FetchingOk, OneRequest DEF Discovered, Pending
  <2>4. CASE Served(r)
    <3> DEFINE g == [req[r] EXCEPT !.pc = "served", !.body = published]
    <3>1. FrameOk(g, mode, published) /\ UNCHANGED <<mode, published>>
      BY <2>1, <2>4, FetchingOk DEF Served, Pending
    <3>2. req' = [req EXCEPT ![r] = g]
      BY <2>4, Zenon DEF Served
    <3> QED BY <3>1, <3>2, OneRequest
  <2>5. CASE RefreshFails(r)
    BY <2>1, <2>5, AnsweredOk, OneRequest DEF RefreshFails, Leave, Pending
  <2>6. CASE Refreshed(r)
    BY <2>1, <2>6, AnsweredOk, OneRequest DEF Refreshed, Leave, Pending, FrameOk
  <2> QED BY <1>5, <2>2, <2>3, <2>4, <2>5, <2>6 DEF Progress
<1> QED BY <1>1, <1>2, <1>3, <1>4, <1>5 DEF Next

LEMMA Start == ASSUME Init PROVE Inv
<1>1. /\ Idle \in Frames /\ Idle.pc = "idle" /\ Idle.answer = "none" /\ Idle.status = "none"
      /\ Idle.steady = FALSE
  BY DEF Idle, Frames
<1>2. FrameOk(Idle, mode, published)
  BY <1>1 DEF FrameOk, Pending
<1>3. DOMAIN req = Requests /\ \A r \in Requests : req[r] = Idle
  BY Zenon DEF Init
<1> QED BY <1>2, <1>3 DEF Inv, Init

\* Rotation turns no good token away and only good ones are admitted, for any number of
\* requests, keys, rotations and provider failures (JwksCache.get_key, _validate_token).
THEOREM RotationIsTolerated == Spec => []RotationTolerated
<1>1. Init => Inv
  BY Start
<1>2. Inv /\ [Next]_vars => Inv'
  BY Step
<1>3. Inv => RotationTolerated
  BY DEF Inv, FrameOk, RotationTolerated
<1> QED BY <1>1, <1>2, <1>3, PTL DEF Spec

\* A step admits a request only from the cache as it is after the step, within its TTL.
LEMMA AdmitStep ==
  ASSUME Ttl \in Nat \ {0}, clock \in Nat, Inv, [Next]_vars, NEW r \in Requests,
         req[r].status = "none", req'[r].status = "principal"
  PROVE  mode = "entra" /\ req'[r].kid \in keys' /\ clock' - fetchedAt' < Ttl
<1>1. FrameOk(req[r], mode, published) /\ DOMAIN req = Requests
  BY DEF Inv
<1>2. ASSUME NEW q \in Requests, NEW g, req' = [req EXCEPT ![q] = g]
      PROVE  q = r /\ req'[r] = g
  BY <1>1, <1>2
<1>3. PICK q \in Requests :
        Progress(q) \/ NoKeyAsked(q) \/ \E k \in Kids, good \in BOOLEAN : GetKey(q, k, good)
  <2>1. req[r].status # req'[r].status
    OBVIOUS
  <2>2. ~UNCHANGED vars /\ ~TimePasses
    BY <2>1, Zenon DEF vars, TimePasses
  <2>3. ~Rotate
    <3>1. \A s \in BOOLEAN : [req[r] EXCEPT !.steady = s].status = req[r].status
      BY <1>1 DEF FrameOk, Frames
    <3>2. ASSUME Rotate
          PROVE  req'[r] = [req[r] EXCEPT !.steady = req[r].steady /\ req[r].kid \in published']
      BY <3>2, Zenon DEF Rotate
    <3>3. (req[r].steady /\ req[r].kid \in published') \in BOOLEAN
      OBVIOUS
    <3> QED BY <2>1, <3>1, <3>2, <3>3, Zenon
  <2> QED BY <2>2, <2>3 DEF Next
<1>5. CASE NoKeyAsked(q)
  <2>1. PICK status \in {"401", "500", "anonymous"} :
          req' = [req EXCEPT ![q] = [req[q] EXCEPT !.pc = "answered", !.status = status]]
    BY <1>5, Zenon DEF NoKeyAsked
  <2>2. req'[r] = [req[r] EXCEPT !.pc = "answered", !.status = status]
    BY <1>2, <2>1
  <2> QED BY <1>1, <2>2 DEF FrameOk, Frames
<1>6. CASE \E k \in Kids, good \in BOOLEAN : GetKey(q, k, good)
  <2>1. PICK k \in Kids, good \in BOOLEAN : GetKey(q, k, good)
    BY <1>6
  <2>2. /\ mode = "entra" /\ FrameOk(Begun(k, good), mode, published)
        /\ Begun(k, good).kid = k /\ Begun(k, good).status = "none"
    BY <2>1, BegunOk DEF GetKey, Inv, FrameOk, Pending
  <2>3. CASE ~Hit(k)
    <3>1. req' = [req EXCEPT ![q] = Begun(k, good)]
      BY <2>1, <2>3, Zenon DEF GetKey
    <3> QED BY <1>2, <2>2, <3>1
  <2>4. CASE Hit(k)
    <3>1. req' = [req EXCEPT ![q] = Answered(Begun(k, good), "key")]
      BY <2>1, <2>4, Zenon DEF GetKey
    <3>2. req'[r].kid = k
      BY <1>2, <2>2, <3>1, SameKey DEF FrameOk
    <3>3. UNCHANGED <<keys, clock, fetchedAt>>
      BY <2>1 DEF GetKey
    <3> QED BY <2>2, <2>4, <3>2, <3>3 DEF Hit, Fresh
  <2> QED BY <2>3, <2>4
<1>7. CASE Progress(q)
  <2>1. FrameOk(req[q], mode, published) /\ published \subseteq Kids
    BY DEF Inv
  <2>2. CASE Discovered(q) \/ Served(q)
    <3>1. PICK g : /\ req' = [req EXCEPT ![q] = g] /\ g.status = req[q].status
      <4>1. CASE Discovered(q)
        <5> DEFINE g == [req[q] EXCEPT !.pc = "fetching"]
        <5>1. req' = [req EXCEPT ![q] = g]
          BY <4>1, Zenon DEF Discovered
        <5>2. g.status = req[q].status
          BY <2>1 DEF FrameOk, Frames
        <5> QED BY <5>1, <5>2
      <4>2. CASE Served(q)
        <5> DEFINE g == [req[q] EXCEPT !.pc = "served", !.body = published]
        <5>1. req' = [req EXCEPT ![q] = g]
          BY <4>2, Zenon DEF Served
        <5>2. g.status = req[q].status
          BY <2>1 DEF FrameOk, Frames
        <5> QED BY <5>1, <5>2
      <4> QED BY <2>2, <4>1, <4>2
    <3> QED BY <1>2, <3>1
  <2>3. ASSUME NEW answer, Leave(q, answer)
        PROVE  answer = "key" /\ q = r /\ req'[r].kid = req[r].kid
    <3>1. q = r /\ req'[r] = Answered(req[r], answer)
      BY <1>2, <2>3 DEF Leave
    <3> QED BY <1>1, <3>1, OnlyKeyAdmits, SameKey DEF FrameOk
  <2>4. CASE Enter(q)
    <3>1. CASE ~Hit(req[q].kid)
      <4>1. req' = [req EXCEPT ![q] = [req[q] EXCEPT !.pc = "discovery"]]
        BY <2>4, <3>1, Zenon DEF Enter
      <4>2. req'[r] = [req[r] EXCEPT !.pc = "discovery"]
        BY <1>2, <4>1
      <4> QED BY <1>1, <4>2 DEF FrameOk, Frames
    <3>2. CASE Hit(req[q].kid)
      <4>1. q = r /\ req'[r].kid = req[r].kid
        BY <2>3, <2>4, <3>2 DEF Enter
      <4> QED BY <1>1, <2>4, <3>2, <4>1 DEF Enter, Hit, Fresh, FrameOk, Pending
    <3> QED BY <3>1, <3>2
  <2>5. CASE RefreshFails(q)
    BY <2>3, <2>5 DEF RefreshFails
  <2>6. CASE Refreshed(q)
    <3>1. q = r /\ req[r].kid \in req[r].body /\ req'[r].kid = req[r].kid
      BY <2>3, <2>6 DEF Refreshed
    <3>2. clock' = clock /\ fetchedAt' = clock /\ keys' = req[r].body
      BY <2>6, <3>1 DEF Refreshed
    <3> QED BY <1>1, <2>6, <3>1, <3>2 DEF Refreshed, FrameOk, Pending
  <2> QED BY <1>7, <2>2, <2>4, <2>5, <2>6 DEF Progress
<1> QED BY <1>3, <1>5, <1>6, <1>7

TimedInv == Inv /\ clock \in Nat

LEMMA ClockStep == clock \in Nat /\ [Next]_vars => clock' \in Nat
<1>1. ASSUME [Next]_vars PROVE TimePasses \/ clock' = clock
  BY <1>1, Zenon DEF Next, vars, Rotate, Progress, NoKeyAsked, GetKey, Enter, Discovered,
                     Served, RefreshFails, Refreshed
<1> QED BY <1>1 DEF TimePasses

\* No request is admitted on a key set older than the TTL, nor without a provider
\* (JwksCache.get_key, get_current_user), for any positive TTL.
THEOREM NoKeyIsStale == ASSUME Ttl \in Nat \ {0} PROVE Spec => NoStaleKey
<1> DEFINE Admits ==
      \A r \in Requests :
        req[r].status = "none" /\ req'[r].status = "principal" =>
          mode = "entra" /\ req'[r].kid \in keys' /\ clock' - fetchedAt' < Ttl
<1>1. Init => TimedInv
  BY Start DEF Init, TimedInv
<1>2. TimedInv /\ [Next]_vars => TimedInv'
  BY Step, ClockStep DEF TimedInv
<1>3. TimedInv /\ [Next]_vars => [Admits]_vars
  BY AdmitStep DEF TimedInv
<1> HIDE DEF Admits
<1>4. Spec => [][Admits]_vars
  BY <1>1, <1>2, <1>3, PTL DEF Spec
<1> QED BY <1>4 DEF NoStaleKey, Admits

-----------------------------------------------------------------------------
\* The lock's queue.

\* Those who wait for the lock or have it, once each; the one who has it stands first.
QueueInv ==
  /\ lockQueue \in Seq(Requests)
  /\ \A i, j \in 1 .. Len(lockQueue) : lockQueue[i] = lockQueue[j] => i = j
  /\ \A r \in Requests : Pending(req[r]) <=> \E i \in 1 .. Len(lockQueue) : lockQueue[i] = r
  /\ \A r \in Requests : Pending(req[r]) /\ req[r].pc # "waiting" => Holds(r)

\* One request's frame changes, and neither joins nor leaves.
LEMMA QueueStands ==
  ASSUME Inv, QueueInv, NEW r \in Requests, NEW g, req' = [req EXCEPT ![r] = g], lockQueue' = lockQueue,
         Pending(g) <=> Pending(req[r]), Pending(g) => Holds(r)
  PROVE  QueueInv'
<1>1. \A q \in Requests : req'[q] = IF q = r THEN g ELSE req[q]
  BY DEF Inv
<1>2. ASSUME NEW q \in Requests PROVE Pending(req'[q]) <=> Pending(req[q])
  BY <1>1, Zenon
<1>3. ASSUME NEW q \in Requests, Pending(req'[q]), req'[q].pc # "waiting"
      PROVE  Holds(q)
  BY <1>1, <1>3 DEF QueueInv
<1>4. \A q \in Requests : Pending(req[q])' <=> Pending(req'[q])
  BY DEF Pending
<1> QED BY <1>2, <1>3, <1>4, Zenon DEF QueueInv, Holds

\* A request that waits is the last of the queue.
LEMMA QueueJoins ==
  ASSUME Inv, QueueInv, NEW r \in Requests, NEW g, req' = [req EXCEPT ![r] = g],
         lockQueue' = Append(lockQueue, r), ~Pending(req[r]), g.pc = "waiting"
  PROVE  QueueInv'
<1> DEFINE n == Len(lockQueue)
<1>1. \A q \in Requests : req'[q] = IF q = r THEN g ELSE req[q]
  BY DEF Inv
<1>2. /\ n \in Nat /\ lockQueue' \in Seq(Requests) /\ Len(lockQueue') = n + 1 /\ lockQueue'[n + 1] = r
      /\ \A i \in 1 .. n : lockQueue'[i] = lockQueue[i] /\ lockQueue[i] # r
      /\ n > 0 => Head(lockQueue') = Head(lockQueue) /\ lockQueue' # <<>>
  BY DEF QueueInv
<1>3. \A i \in 1 .. n + 1 : i \in 1 .. n \/ i = n + 1
  BY <1>2
<1>4. Pending(g)
  BY DEF Pending
<1> HIDE DEF n
<1>5. ASSUME NEW i \in 1 .. Len(lockQueue'), NEW j \in 1 .. Len(lockQueue'), lockQueue'[i] = lockQueue'[j] PROVE i = j
  BY <1>2, <1>3, <1>5 DEF QueueInv, n
<1>6. ASSUME NEW q \in Requests
      PROVE  Pending(req'[q]) <=> \E i \in 1 .. Len(lockQueue') : lockQueue'[i] = q
  <2>1. CASE q = r
    BY <1>1, <1>2, <1>4, <2>1
  <2>2. CASE q # r
    <3>1. Pending(req'[q]) <=> \E i \in 1 .. n : lockQueue[i] = q
      BY <1>1, <2>2 DEF QueueInv, n
    <3>2. (\E i \in 1 .. n : lockQueue[i] = q) <=> \E i \in 1 .. Len(lockQueue') : lockQueue'[i] = q
      BY <1>2, <1>3, <2>2
    <3> QED BY <3>1, <3>2
  <2> QED BY <2>1, <2>2
<1>7. ASSUME NEW q \in Requests, Pending(req'[q]), req'[q].pc # "waiting" PROVE Holds(q)'
  <2>1. req'[q] = req[q]
    BY <1>1, <1>7
  <2>2. Holds(q)
    BY <1>7, <2>1 DEF QueueInv
  <2>3. n > 0
    BY <2>2, <1>2, EmptySeq DEF Holds, n, QueueInv
  <2> QED BY <2>2, <2>3, <1>2 DEF Holds
<1>8. \A q \in Requests : Pending(req[q])' <=> Pending(req'[q])
  BY DEF Pending
<1> QED BY <1>2, <1>5, <1>6, <1>7, <1>8, Zenon DEF QueueInv

\* The first of the queue leaves it.
LEMMA QueueLeaves ==
  ASSUME Inv, QueueInv, NEW r \in Requests, NEW g, req' = [req EXCEPT ![r] = g],
         lockQueue' = Tail(lockQueue), Holds(r), g.pc = "answered"
  PROVE  QueueInv'
<1> DEFINE n == Len(lockQueue)
<1>1. \A q \in Requests : req'[q] = IF q = r THEN g ELSE req[q]
  BY DEF Inv
<1>2. /\ n \in Nat /\ n >= 1 /\ lockQueue' \in Seq(Requests) /\ Len(lockQueue') = n - 1 /\ lockQueue[1] = r
      /\ \A i \in 1 .. n - 1 : i + 1 \in 1 .. n /\ lockQueue'[i] = lockQueue[i + 1]
      /\ \A i \in 1 .. n : i # 1 => lockQueue[i] # r /\ i - 1 \in 1 .. n - 1 /\ lockQueue'[i - 1] = lockQueue[i]
  BY DEF QueueInv, Holds
<1>4. ~Pending(g)
  BY DEF Pending
<1>5. ASSUME NEW i \in 1 .. Len(lockQueue'), NEW j \in 1 .. Len(lockQueue'), lockQueue'[i] = lockQueue'[j] PROVE i = j
  <2>1. i + 1 = j + 1
    BY <1>2, <1>5 DEF QueueInv
  <2> QED BY <2>1
<1>6. ASSUME NEW q \in Requests
      PROVE  Pending(req'[q]) <=> \E i \in 1 .. Len(lockQueue') : lockQueue'[i] = q
  <2>1. CASE q = r
    <3>1. ~Pending(req'[q])
      BY <1>1, <1>4, <2>1
    <3>2. ASSUME NEW i \in 1 .. Len(lockQueue') PROVE lockQueue'[i] # r
      <4>1. i + 1 \in 1 .. n /\ i + 1 # 1
        BY <1>2
      <4> QED BY <4>1, <1>2
    <3> QED BY <3>1, <3>2, <2>1
  <2>2. CASE q # r
    <3>1. Pending(req'[q]) <=> \E i \in 1 .. n : lockQueue[i] = q
      BY <1>1, <2>2 DEF QueueInv
    <3>2. ASSUME NEW i \in 1 .. n, lockQueue[i] = q PROVE \E k \in 1 .. Len(lockQueue') : lockQueue'[k] = q
      BY <1>2, <2>2, <3>2
    <3>3. ASSUME NEW i \in 1 .. Len(lockQueue'), lockQueue'[i] = q PROVE \E k \in 1 .. n : lockQueue[k] = q
      BY <1>2, <3>3
    <3> QED BY <3>1, <3>2, <3>3
  <2> QED BY <2>1, <2>2
<1>7. ASSUME NEW q \in Requests, Pending(req'[q]), req'[q].pc # "waiting" PROVE FALSE
  <2>1. req'[q] = req[q] /\ q # r
    BY <1>1, <1>4, <1>7
  <2>2. Holds(q)
    BY <1>7, <2>1 DEF QueueInv
  <2> QED BY <2>1, <2>2 DEF Holds
<1>8. \A q \in Requests : Pending(req[q])' <=> Pending(req'[q])
  BY DEF Pending
<1> HIDE DEF n
<1> QED BY <1>2, <1>5, <1>6, <1>7, <1>8, Zenon DEF QueueInv

LEMMA QueueStep == ASSUME Inv, QueueInv, [Next]_vars PROVE QueueInv'
<1>1. CASE UNCHANGED vars \/ TimePasses
  BY <1>1 DEF vars, TimePasses, QueueInv, Pending, Holds
<1>2. CASE Rotate
  <2>1. ASSUME NEW r \in Requests PROVE req'[r].pc = req[r].pc
    <3>1. req'[r] = [req[r] EXCEPT !.steady = req[r].steady /\ req[r].kid \in published']
      BY <1>2, Zenon DEF Rotate
    <3>2. \A s \in BOOLEAN : [req[r] EXCEPT !.steady = s].pc = req[r].pc
      BY DEF Inv, FrameOk, Frames
    <3>3. (req[r].steady /\ req[r].kid \in published') \in BOOLEAN
      OBVIOUS
    <3> QED BY <3>1, <3>2, <3>3, Zenon
  <2>2. UNCHANGED lockQueue
    BY <1>2 DEF Rotate
  <2> QED BY <2>1, <2>2, Zenon DEF QueueInv, Pending, Holds
<1>3. ASSUME NEW r \in Requests, NoKeyAsked(r) PROVE QueueInv'
  <2>1. PICK status \in {"401", "500", "anonymous"} :
          req' = [req EXCEPT ![r] = [req[r] EXCEPT !.pc = "answered", !.status = status]]
    BY <1>3, NoKeyAnswers, Zenon
  <2>2. req[r].pc = "idle" /\ lockQueue' = lockQueue /\ req[r] \in Frames
    BY <1>3 DEF NoKeyAsked, Inv, FrameOk
  <2>3. ~Pending(req[r]) /\ ~Pending([req[r] EXCEPT !.pc = "answered", !.status = status])
    BY <2>2 DEF Pending, Frames
  <2> QED BY <2>1, <2>2, <2>3, QueueStands
<1>4. ASSUME NEW r \in Requests, NEW k \in Kids, NEW good \in BOOLEAN, GetKey(r, k, good)
      PROVE  QueueInv'
  <2>1. ~Pending(req[r])
    BY <1>4 DEF GetKey, Pending
  <2>2. CASE Hit(k)
    <3>1. req' = [req EXCEPT ![r] = Answered(Begun(k, good), "key")] /\ lockQueue' = lockQueue
      BY <1>4, <2>2 DEF GetKey
    <3>2. Answered(Begun(k, good), "key").pc = "answered"
      BY DEF Answered, Begun, Idle
    <3> QED BY <2>1, <3>1, <3>2, QueueStands DEF Pending
  <2>3. CASE ~Hit(k)
    <3>1. req' = [req EXCEPT ![r] = Begun(k, good)] /\ lockQueue' = Append(lockQueue, r)
      BY <1>4, <2>3 DEF GetKey
    <3>2. Begun(k, good).pc = "waiting"
      BY DEF Begun, Idle
    <3> QED BY <2>1, <3>1, <3>2, QueueJoins
  <2> QED BY <2>2, <2>3
<1>5. ASSUME NEW r \in Requests, Progress(r) PROVE QueueInv'
  <2>1. req[r] \in Frames
    BY DEF Inv, FrameOk
  <2>2. ASSUME NEW answer, Leave(r, answer), Holds(r) PROVE QueueInv'
    <3>1. Answered(req[r], answer).pc = "answered"
      BY <2>1 DEF Answered, Frames
    <3> QED BY <2>2, <3>1, QueueLeaves DEF Leave
  <2>3. req[r].pc \in {"discovery", "fetching", "served"} => Pending(req[r]) /\ Holds(r)
    BY DEF QueueInv, Pending
  <2>4. CASE Enter(r)
    <3>1. CASE Hit(req[r].kid)
      BY <2>2, <2>4, <3>1 DEF Enter
    <3>2. CASE ~Hit(req[r].kid)
      <4> DEFINE g == [req[r] EXCEPT !.pc = "discovery"]
      <4>1. req' = [req EXCEPT ![r] = g] /\ lockQueue' = lockQueue /\ Holds(r) /\ Pending(req[r])
        BY <2>4, <3>2 DEF Enter, Pending
      <4>2. Pending(g)
        BY <2>1 DEF Pending, Frames
      <4> QED BY <4>1, <4>2, QueueStands
    <3> QED BY <3>1, <3>2
  <2>5. CASE Discovered(r)
    <3> DEFINE g == [req[r] EXCEPT !.pc = "fetching"]
    <3>1. req' = [req EXCEPT ![r] = g] /\ lockQueue' = lockQueue
      BY <2>5 DEF Discovered
    <3>2. Pending(g)
      BY <2>1 DEF Pending, Frames
    <3> QED BY <2>3, <2>5, <3>1, <3>2, QueueStands DEF Discovered
  <2>6. CASE Served(r)
    <3> DEFINE g == [req[r] EXCEPT !.pc = "served", !.body = published]
    <3>1. req' = [req EXCEPT ![r] = g] /\ lockQueue' = lockQueue
      BY <2>6, Zenon DEF Served
    <3>2. Pending(g)
      BY <2>1 DEF Pending, Frames
    <3> QED BY <2>3, <2>6, <3>1, <3>2, QueueStands DEF Served
  <2>7. CASE RefreshFails(r)
    BY <2>2, <2>3, <2>7 DEF RefreshFails
  <2>8. CASE Refreshed(r)
    BY <2>2, <2>3, <2>8 DEF Refreshed
  <2> QED BY <1>5, <2>4, <2>5, <2>6, <2>7, <2>8 DEF Progress
<1> QED BY <1>1, <1>2, <1>3, <1>4, <1>5 DEF Next

LEMMA QueueStart == ASSUME Init PROVE QueueInv
<1>1. \A r \in Requests : req[r].pc = "idle"
  BY DEF Init, Idle
<1>2. lockQueue = <<>> /\ Len(lockQueue) = 0 /\ lockQueue \in Seq(Requests)
  BY EmptySeq DEF Init
<1> QED BY <1>1, <1>2 DEF QueueInv, Pending

\* The cache itself.
CacheInv ==
  mode \in Modes /\ clock \in Nat /\ rotations \in Nat /\ fetchedAt \in Nat /\ keys \subseteq Kids

LEMMA CacheStep == ASSUME Inv, CacheInv, [Next]_vars PROVE CacheInv'
<1>1. clock' \in Nat
  BY ClockStep DEF CacheInv
<1>2. CASE \E r \in Requests : Refreshed(r)
  <2>1. PICK r \in Requests : Refreshed(r)
    BY <1>2
  <2>2. req[r].body \subseteq Kids
    BY DEF Inv, FrameOk, Frames
  <2>3. keys' = req[r].body /\ fetchedAt' = clock /\ UNCHANGED <<mode, clock, published, rotations>>
    BY <2>1, Zenon DEF Refreshed
  <2> QED BY <1>1, <2>2, <2>3 DEF CacheInv
<1>3. CASE Rotate
  BY <1>1, <1>3 DEF Rotate, CacheInv
<1>4. CASE UNCHANGED <<mode, rotations, keys, fetchedAt>>
  BY <1>1, <1>4 DEF CacheInv
<1>5. ASSUME NEW r \in Requests, Progress(r) \/ NoKeyAsked(r) \/ \E k \in Kids, good \in BOOLEAN : GetKey(r, k, good)
      PROVE  Refreshed(r) \/ UNCHANGED <<mode, rotations, keys, fetchedAt>>
  BY <1>5, Zenon DEF Progress, NoKeyAsked, GetKey, Enter, Discovered, Served, RefreshFails
<1>6. CASE TimePasses \/ UNCHANGED vars
  BY <1>4, <1>6 DEF TimePasses, vars
<1> QED BY <1>2, <1>3, <1>4, <1>5, <1>6, Zenon DEF Next

LEMMA TypeHolds == ASSUME Inv, QueueInv, CacheInv PROVE TypeOK
<1>1. req \in [Requests -> Frames]
  BY DEF Inv, FrameOk
<1>2. published \subseteq Kids /\ lockQueue \in Seq(Requests)
  BY DEF Inv, QueueInv
<1>3. \A r \in Requests : Pending(req[r]) <=> \E i \in 1 .. Len(lockQueue) : lockQueue[i] = r
  BY DEF QueueInv
<1> QED BY <1>1, <1>2, <1>3, Zenon DEF TypeOK, Frames, Pending, CacheInv

\* Type correctness of the key set cache; in particular the requests that are under way are
\* those in the queue of the lock, so that nobody waits for a lock that nobody holds
\* (JwksCache._lock).
THEOREM TypeCorrect == Spec => []TypeOK
<1>1. Init => Inv /\ QueueInv /\ CacheInv
  BY Start, QueueStart DEF Init, CacheInv
<1>2. (Inv /\ QueueInv /\ CacheInv) /\ [Next]_vars => (Inv /\ QueueInv /\ CacheInv)'
  BY Step, QueueStep, CacheStep
<1>3. Inv /\ QueueInv /\ CacheInv => TypeOK
  BY TypeHolds
<1> QED BY <1>1, <1>2, <1>3, PTL DEF Spec
=============================================================================
