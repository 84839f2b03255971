------------------------------ MODULE NewsCache ------------------------------
(***************************************************************************)
(* CachingNewsProvider of src/infrastructure/news_provider.py: headlines   *)
(* per symbol with a TTL, one lock per symbol, called by publisher tasks   *)
(* (through the macro agent) that may be cancelled anywhere.               *)
(*                                                                         *)
(*   idle --hit--> idle        idle --miss--> waiting --lock--> fetching   *)
(*                                               \--hit--> idle <--/       *)
(*                                                                         *)
(* The locks are asyncio.Locks: waiters[s] is the queue of symbol s with   *)
(* the holder in front.  Headlines are empty or not: the entry's news.     *)
(***************************************************************************)
EXTENDS Integers, Sequences

CONSTANTS
  Callers,    \* publisher tasks
  Symbols,    \* symbols asked for
  Ttl,        \* CachingNewsProvider._ttl
  MaxClock,   \* bound: how far the monotonic clock runs
  MaxCalls    \* bound: calls in a behaviour

ASSUME TtlAssumption   == Ttl \in Nat \ {0}
ASSUME BoundAssumption == MaxClock \in Nat /\ MaxCalls \in Nat

VARIABLES
  clock,      \* time.monotonic
  cache,      \* CachingNewsProvider._cache
  waiters,    \* CachingNewsProvider._locks
  call,       \* the callers' frames
  hitCount,   \* CachingNewsProvider._hit_count
  missCount,  \* CachingNewsProvider._miss_count
  calls       \* calls begun

vars == <<clock, cache, waiters, call, hitCount, missCount, calls>>

Missing == [news |-> FALSE, at |-> -1]   \* the dictionary has no entry

\* entry: the cache entry found under the lock.
NoCall == [pc |-> "idle", sym |-> "", entry |-> Missing]

Init ==
  /\ clock = 0
  /\ cache = [s \in Symbols |-> Missing]
  /\ waiters = [s \in Symbols |-> <<>>]
  /\ call = [c \in Callers |-> NoCall]
  /\ hitCount = 0
  /\ missCount = 0
  /\ calls = 0

TimePasses ==
  /\ clock < MaxClock
  /\ clock' = clock + 1
  /\ UNCHANGED <<cache, waiters, call, hitCount, missCount, calls>>

Fresh(entry) == entry # Missing /\ clock - entry.at < Ttl

\* A fresh entry is returned without the lock; else the caller queues.
RecentHeadlines(c, s) ==
  /\ call[c].pc = "idle"
  /\ calls < MaxCalls
  /\ calls' = calls + 1
  /\ \/ /\ Fresh(cache[s])
        /\ hitCount' = hitCount + 1
        /\ UNCHANGED <<waiters, call>>
     \/ /\ ~Fresh(cache[s])
        /\ call' = [call EXCEPT ![c] = [pc |-> "waiting", sym |-> s, entry |-> Missing]]
        /\ waiters' = [waiters EXCEPT ![s] = Append(@, c)]
        /\ UNCHANGED hitCount
  /\ UNCHANGED <<clock, cache, missCount>>

Holds(c) == waiters[call[c].sym] # <<>> /\ Head(waiters[call[c].sym]) = c

\* Faulty variant: no second look at the cache under the lock.
EnterMisses(c) ==
  /\ call[c].pc = "waiting"
  /\ Holds(c)
  /\ missCount' = missCount + 1
  /\ call' = [call EXCEPT ![c].pc = "fetching", ![c].entry = cache[call[c].sym]]
  /\ UNCHANGED <<clock, cache, waiters, hitCount, calls>>

\* The lock is ours: look again, then ask upstream.
Enter(c) ==
  LET s == call[c].sym IN
  /\ call[c].pc = "waiting"
  /\ Holds(c)
  /\ \/ /\ Fresh(cache[s])
        /\ hitCount' = hitCount + 1
        /\ call' = [call EXCEPT ![c] = NoCall]
        /\ waiters' = [waiters EXCEPT ![s] = Tail(@)]
        /\ UNCHANGED missCount
     \/ /\ ~Fresh(cache[s])
        /\ missCount' = missCount + 1
        /\ call' = [call EXCEPT ![c].pc = "fetching", ![c].entry = cache[s]]
        /\ UNCHANGED <<waiters, hitCount>>
  /\ UNCHANGED <<clock, cache, calls>>

\* Upstream returned headlines, returned none, or raised (none): older
\* headlines win over none, and either way the entry is stamped now.
Fetched(c, headlines) ==
  LET s == call[c].sym IN
  /\ call[c].pc = "fetching"
  /\ cache' = [cache EXCEPT ![s] =
                 [news |-> headlines \/ call[c].entry.news, at |-> clock]]
  /\ call' = [call EXCEPT ![c] = NoCall]
  /\ waiters' = [waiters EXCEPT ![s] = Tail(@)]
  /\ UNCHANGED <<clock, hitCount, missCount, calls>>

\* The queue without c, which is in it once.
Without(queue, c) ==
  LET at == CHOOSE i \in 1..Len(queue) : queue[i] = c IN
  [i \in 1..Len(queue)-1 |-> IF i < at THEN queue[i] ELSE queue[i+1]]

\* Faulty variant: a cancelled caller leaves its lock held.
CancelHolding(c) ==
  /\ call[c].pc # "cancelled"
  /\ call' = [call EXCEPT ![c] = [NoCall EXCEPT !.pc = "cancelled"]]
  /\ UNCHANGED <<clock, cache, waiters, hitCount, missCount, calls>>

\* The caller's task is cancelled: CancelledError is no Exception, the cache
\* keeps its entry, and the caller gives up its lock or its place in the queue.
Cancel(c) ==
  LET s == call[c].sym IN
  /\ call[c].pc # "cancelled"
  /\ call' = [call EXCEPT ![c] = [NoCall EXCEPT !.pc = "cancelled"]]
  /\ waiters' = IF call[c].pc = "idle" THEN waiters
                ELSE [waiters EXCEPT ![s] = Without(@, c)]
  /\ UNCHANGED <<clock, cache, hitCount, missCount, calls>>

Progress(c) == Enter(c) \/ \E headlines \in BOOLEAN : Fetched(c, headlines)

Next ==
  \/ TimePasses
  \/ \E c \in Callers :
       \/ \E s \in Symbols : RecentHeadlines(c, s)
       \/ Progress(c)
       \/ Cancel(c)

\* The upstream request answers, fails or times out; a lock wakes its first
\* waiter.
Fairness == \A c \in Callers : WF_vars(Progress(c))

Spec == Init /\ [][Next]_vars /\ Fairness

-----------------------------------------------------------------------------
Entry == {Missing} \cup [news : BOOLEAN, at : Nat]

TypeOK ==
  /\ clock \in Nat /\ hitCount \in Nat /\ missCount \in Nat /\ calls \in Nat
  /\ cache \in [Symbols -> Entry]
  /\ waiters \in [Symbols -> Seq(Callers)]
  /\ call \in [Callers -> [pc : {"idle", "waiting", "fetching", "cancelled"},
                           sym : Symbols \cup {""}, entry : Entry]]

\* The symbols for which a caller has asked upstream and waits for the answer.
Asked == {s \in Symbols : \E c \in Callers : call[c].pc = "fetching" /\ call[c].sym = s}

Promise == INSTANCE NewsPromise WITH asked <- Asked

\* However the callers interleave, wait and die, one of them asks upstream at a
\* time per symbol, none while the entry is fresh, and headlines once known
\* are never replaced by none.  A burst of callers costs exactly one request
\* (news_provider.py, class docstring) unless the one who asked is cancelled:
\* nothing is stored then and the next in the queue asks again.
PromiseSpec == Promise!Spec

\* Every call returns, whoever held the lock before it.
CallEnds ==
  \A c \in Callers : call[c].pc \in {"waiting", "fetching"} ~> call[c].pc \in {"idle", "cancelled"}
=============================================================================
