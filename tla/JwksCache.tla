------------------------------ MODULE JwksCache ------------------------------
(***************************************************************************)
(* The token gate of src/core/security.py, get_current_user, and the cache *)
(* behind it, JwksCache.get_key: the identity provider's signing keys,     *)
(* cached for Ttl, looked up by concurrent requests while the provider     *)
(* rotates them.                                                           *)
(*                                                                         *)
(*   idle --hit--> answered                                                *)
(*   idle --miss--> waiting --lock--> discovery --> fetching --> served    *)
(*                     \--hit-----------------\-----error-----\--> answered*)
(*                                                                         *)
(* The lock is an asyncio.Lock, first come first served: lockQueue is its  *)
(* queue with the holder in front.  The checks of a token that follow the  *)
(* key (signature, claims, tenant, subject) await nothing and belong to    *)
(* the step that answers; a good token is one that passes them all.        *)
(***************************************************************************)
EXTENDS Integers, Sequences

CONSTANTS
  Requests,      \* HTTP requests that carry a token
  Kids,          \* key ids
  Ttl,           \* JwksCache._ttl, in steps of the clock
  MaxClock,      \* bound: how far the monotonic clock runs
  MaxRotations   \* bound: rotations in a behaviour

VARIABLES
  mode,        \* Settings: Entra configured, development without it, neither
  clock,       \* time.monotonic
  published,   \* key ids the provider serves (external)
  rotations,   \* how often they changed
  keys,        \* JwksCache._keys
  fetchedAt,   \* JwksCache._fetched_at
  lockQueue,   \* JwksCache._lock
  req          \* the requests' frames

vars == <<mode, clock, published, rotations, keys, fetchedAt, lockQueue, req>>

\* body: the key set the provider answered; steady: the key asked for has been
\* published ever since the request began.
Idle == [pc |-> "idle", kid |-> "", good |-> FALSE, body |-> {}, steady |-> FALSE,
         answer |-> "none", status |-> "none"]

Modes == {"entra", "development", "unconfigured"}

Init ==
  /\ mode \in Modes
  /\ clock = 0
  /\ published \in SUBSET Kids
  /\ rotations = 0
  /\ keys = {}
  /\ fetchedAt = 0
  /\ lockQueue = <<>>
  /\ req = [r \in Requests |-> Idle]

TimePasses ==
  /\ clock < MaxClock
  /\ clock' = clock + 1
  /\ UNCHANGED <<mode, published, rotations, keys, fetchedAt, lockQueue, req>>

\* The provider publishes another set of keys.
Rotate ==
  /\ rotations < MaxRotations
  /\ rotations' = rotations + 1
  /\ published' \in SUBSET Kids \ {published}
  /\ req' = [r \in Requests |->
               [req[r] EXCEPT !.steady = @ /\ req[r].kid \in published']]
  /\ UNCHANGED <<mode, clock, keys, fetchedAt, lockQueue>>

Fresh == keys # {} /\ clock - fetchedAt < Ttl

\* Faulty variant: any key of the dictionary will do, however old.
HitAnyAge(k) == k \in keys

Hit(k) == k \in keys /\ Fresh

\* _validate_token on what get_key answered: a key that is missing or cannot be fetched is a
\* 401, and so is a token that fails any check; an answer that is not JSON is caught nowhere.
Status(answer, good) ==
  CASE answer = "key" /\ good -> "principal"
    [] answer = "crash"       -> "500"
    [] OTHER                  -> "401"

Answered(frame, answer) ==
  [frame EXCEPT !.pc = "answered", !.body = {}, !.answer = answer,
                !.status = Status(answer, frame.good)]

Begun(k, good) ==
  [Idle EXCEPT !.pc = "waiting", !.kid = k, !.good = good, !.steady = k \in published]

\* get_current_user without a token to look at: none sent, another scheme, a header that
\* cannot be read or names no key, or no provider to check it with.
NoKeyAsked(r) ==
  /\ req[r].pc = "idle"
  /\ \E status \in {"401"} \cup (IF mode = "entra" THEN {} ELSE {"500"})
                      \cup (IF mode = "development" THEN {"anonymous"} ELSE {}) :
       req' = [req EXCEPT ![r].pc = "answered", ![r].status = status]
  /\ UNCHANGED <<mode, clock, published, rotations, keys, fetchedAt, lockQueue>>

\* The lock-free path, or the place in the lock's queue.
GetKey(r, k, good) ==
  /\ mode = "entra" /\ req[r].pc = "idle"
  /\ \/ /\ Hit(k)
        /\ req' = [req EXCEPT ![r] = Answered(Begun(k, good), "key")]
        /\ UNCHANGED lockQueue
     \/ /\ ~Hit(k)
        /\ req' = [req EXCEPT ![r] = Begun(k, good)]
        /\ lockQueue' = Append(lockQueue, r)
  /\ UNCHANGED <<mode, clock, published, rotations, keys, fetchedAt>>

Holds(r) == lockQueue # <<>> /\ Head(lockQueue) = r

\* Leaving the lock's block by return or by exception.
Leave(r, answer) ==
  /\ req' = [req EXCEPT ![r] = Answered(req[r], answer)]
  /\ lockQueue' = Tail(lockQueue)

\* Faulty variant: a fresh cache without the key is taken for the last word.
EnterTrustingFresh(r) ==
  /\ req[r].pc = "waiting"
  /\ Holds(r)
  /\ IF Fresh THEN Leave(r, IF req[r].kid \in keys THEN "key" ELSE "unknown")
     ELSE req' = [req EXCEPT ![r].pc = "discovery"] /\ UNCHANGED lockQueue
  /\ UNCHANGED <<mode, clock, published, rotations, keys, fetchedAt>>

\* The lock is ours: look again, another request may have refreshed.
Enter(r) ==
  /\ req[r].pc = "waiting"
  /\ Holds(r)
  /\ IF Hit(req[r].kid) THEN Leave(r, "key")
     ELSE req' = [req EXCEPT ![r].pc = "discovery"] /\ UNCHANGED lockQueue
  /\ UNCHANGED <<mode, clock, published, rotations, keys, fetchedAt>>

\* The discovery document arrived with a jwks_uri.
Discovered(r) ==
  /\ req[r].pc = "discovery"
  /\ req' = [req EXCEPT ![r].pc = "fetching"]
  /\ UNCHANGED <<mode, clock, published, rotations, keys, fetchedAt, lockQueue>>

\* The provider answers with what it publishes now; the answer travels.
Served(r) ==
  /\ req[r].pc = "fetching"
  /\ req' = [req EXCEPT ![r].pc = "served", ![r].body = published]
  /\ UNCHANGED <<mode, clock, published, rotations, keys, fetchedAt, lockQueue>>

\* Faulty variant: the lock is not released when the refresh raises.
RefreshFailsLocked(r) ==
  /\ req[r].pc \in {"discovery", "fetching", "served"}
  /\ req' = [req EXCEPT ![r] = Answered(req[r], "error")]
  /\ UNCHANGED <<mode, clock, published, rotations, keys, fetchedAt, lockQueue>>

\* Timeout, HTTP status, a document without jwks_uri ("error") or a body that is no JSON
\* ("crash"): nothing is replaced.
RefreshFails(r) ==
  /\ req[r].pc \in {"discovery", "fetching", "served"}
  /\ \E answer \in {"error", "crash"} : Leave(r, answer)
  /\ UNCHANGED <<mode, clock, published, rotations, keys, fetchedAt>>

\* The key set is replaced; a key id still missing is a KeyError.
Refreshed(r) ==
  /\ req[r].pc = "served"
  /\ keys' = req[r].body
  /\ fetchedAt' = clock
  /\ Leave(r, IF req[r].kid \in req[r].body THEN "key" ELSE "unknown")
  /\ UNCHANGED <<mode, clock, published, rotations>>

Progress(r) ==
  Enter(r) \/ Discovered(r) \/ Served(r) \/ RefreshFails(r) \/ Refreshed(r)

Next ==
  \/ TimePasses
  \/ Rotate
  \/ \E r \in Requests :
       Progress(r) \/ NoKeyAsked(r) \/ \E k \in Kids, good \in BOOLEAN : GetKey(r, k, good)

\* HTTP calls answer, fail or time out (HTTP_TIMEOUT_SECONDS), and the lock
\* wakes its first waiter.
Fairness == \A r \in Requests : WF_vars(Progress(r))

Spec == Init /\ [][Next]_vars /\ Fairness

-----------------------------------------------------------------------------
\* Type correctness, and who stands in the lock's queue.
TypeOK ==
  /\ mode \in Modes
  /\ clock \in Nat /\ rotations \in Nat /\ fetchedAt \in Nat
  /\ published \subseteq Kids /\ keys \subseteq Kids
  /\ lockQueue \in Seq(Requests)
  /\ req \in [Requests ->
       [pc : {"idle", "waiting", "discovery", "fetching", "served", "answered"},
        kid : Kids \cup {""}, body : SUBSET Kids, steady : BOOLEAN,
        good : BOOLEAN, answer : {"none", "key", "unknown", "error", "crash"},
        status : {"none", "principal", "anonymous", "401", "500"}]]
  /\ \A r \in Requests :
       req[r].pc \in {"waiting", "discovery", "fetching", "served"}
         <=> \E i \in 1..Len(lockQueue) : lockQueue[i] = r

\* No request is admitted on a key of a key set older than the TTL, whoever fetched it and
\* however long the request waited for the lock, nor without a provider (security.py:101-114,
\* 291-338).
NoStaleKey ==
  [][\A r \in Requests :
       req[r].status = "none" /\ req'[r].status = "principal" =>
         mode = "entra" /\ req'[r].kid \in keys' /\ clock' - fetchedAt' < Ttl]_vars

\* Rotation never turns a good token away: one whose key was published from the moment its
\* request began is admitted unless the provider failed, whatever older key sets the others
\* fetched; and only a good one is.
RotationTolerated ==
  \A r \in Requests :
    /\ req[r].answer \in {"key", "unknown"} /\ req[r].steady /\ req[r].good =>
         req[r].status = "principal"
    /\ req[r].status = "principal" => req[r].good

\* A request is answered, whoever held the lock before it and failed.
RequestEnds == \A r \in Requests : req[r].pc = "waiting" ~> req[r].pc = "answered"
=============================================================================
