--------------------------- MODULE ServicesProofs ---------------------------
(***************************************************************************)
(* The services around the trading core, for any number of callers,        *)
(* requests, symbols, frames, connections, orders and containers: what     *)
(* Services checks of each part on one instance.                           *)
(*                                                                         *)
(* A step of the whole is a step of one part and leaves the other parts    *)
(* alone, so an invariant of a part is one of the whole (section Parts);   *)
(* the two caches share the clock, which for either of them passes while   *)
(* the other works.  The key set cache, the Yahoo publisher and the read   *)
(* endpoints have their invariants in modules of their own; the news       *)
(* cache, the feed, the connections, the order desk and the deployment     *)
(* have them here.                                                         *)
(*                                                                         *)
(* Of the news cache one thing matters: what a caller knows while it waits *)
(* for upstream.  It is first in its symbol's queue, so nobody else writes *)
(* the entry, and the entry, stale when it was read under the lock, is     *)
(* stale still.  IInv says this of every fetching caller.                  *)
(***************************************************************************)
EXTENDS ReadApiProofs

JwksProofs  == INSTANCE JwksCacheProofs
YahooProofs == INSTANCE YahooPublisherProofs

-----------------------------------------------------------------------------
\* The news cache.

State == [pc : {"idle", "waiting", "fetching", "cancelled"},
          sym : Symbols \cup {""}, entry : Entry]

FetchInv(c) ==
  call[c].pc = "fetching" =>
    /\ Holds(c)
    /\ call[c].entry = cache[call[c].sym]
    /\ ~Fresh(cache[call[c].sym])

SymbolInv(c) == call[c].pc \in {"waiting", "fetching"} => call[c].sym \in Symbols

\* A caller that waits or fetches is in its symbol's queue.
QueuedInv(c) ==
  call[c].pc \in {"waiting", "fetching"} =>
    \E i \in 1..Len(waiters[call[c].sym]) : waiters[call[c].sym][i] = c

IInv ==
  /\ TypeOK
  /\ \A c \in Callers : FetchInv(c) /\ SymbolInv(c) /\ QueuedInv(c)

\* A queue of callers that loses one of them keeps the others, and its holder if
\* that is another: what Cancel does to the lock's queue.
LEMMA QueueWithout ==
  ASSUME NEW S, NEW queue \in Seq(S), NEW c, \E i \in 1..Len(queue) : queue[i] = c
  PROVE  /\ Without(queue, c) \in Seq(S)
         /\ \A d : d # c /\ (\E i \in 1..Len(queue) : queue[i] = d) =>
              \E i \in 1..Len(Without(queue, c)) : Without(queue, c)[i] = d
         /\ Head(queue) # c => /\ Without(queue, c) # <<>>
                               /\ Head(Without(queue, c)) = Head(queue)
<1> DEFINE at == CHOOSE i \in 1..Len(queue) : queue[i] = c
           rest == [i \in 1..Len(queue)-1 |-> IF i < at THEN queue[i] ELSE queue[i+1]]
<1>1. at \in 1..Len(queue) /\ queue[at] = c
  OBVIOUS
<1>2. Without(queue, c) = rest
  BY DEF Without
<1> HIDE DEF at
<1>3. /\ rest \in Seq(S) /\ Len(rest) = Len(queue) - 1
      /\ \A i \in 1..Len(queue)-1 : rest[i] = IF i < at THEN queue[i] ELSE queue[i+1]
  <2>1. \A i \in 1..Len(queue)-1 : (IF i < at THEN queue[i] ELSE queue[i+1]) \in S
    BY <1>1
  <2>2. rest \in [1..Len(queue)-1 -> S]
    BY <2>1
  <2>3. Len(queue) - 1 \in Nat
    BY <1>1
  <2> QED BY <2>2, <2>3
<1> HIDE DEF rest
<1>4. ASSUME NEW d, d # c, NEW i \in 1..Len(queue), queue[i] = d
      PROVE  \E j \in 1..Len(rest) : rest[j] = d
  <2>1. CASE i < at
    BY <2>1, <1>1, <1>3, <1>4
  <2>2. CASE ~(i < at)
    <3>1. i - 1 \in 1..Len(rest) /\ ~(i - 1 < at)
      BY <2>2, <1>1, <1>3, <1>4
    <3> QED BY <3>1, <1>3, <1>4
  <2> QED BY <2>1, <2>2
<1>5. ASSUME Head(queue) # c
      PROVE  rest # <<>> /\ Head(rest) = Head(queue)
  <2>1. queue[1] # c /\ at > 1
    BY <1>1, <1>5
  <2> QED BY <2>1, <1>1, <1>3
<1> QED BY <1>2, <1>3, <1>4, <1>5

\* A queue whose holder leaves keeps the others.
LEMMA QueueTail ==
  ASSUME NEW S, NEW queue \in Seq(S), queue # <<>>
  PROVE  /\ Tail(queue) \in Seq(S)
         /\ \A d : d # Head(queue) /\ (\E i \in 1..Len(queue) : queue[i] = d) =>
              \E i \in 1..Len(Tail(queue)) : Tail(queue)[i] = d
<1>1. ASSUME NEW d, d # Head(queue), NEW i \in 1..Len(queue), queue[i] = d
      PROVE  \E j \in 1..Len(Tail(queue)) : Tail(queue)[j] = d
  <2>1. i - 1 \in 1..Len(Tail(queue)) /\ Tail(queue)[i-1] = d
    BY <1>1
  <2> QED BY <2>1
<1> QED BY <1>1

-----------------------------------------------------------------------------
LEMMA InitIInv == Init => IInv
<1> SUFFICES ASSUME Init PROVE IInv
  OBVIOUS
<1> USE DEF Init
<1>1. TypeOK
  <2>1. Missing \in Entry
    BY DEF Entry
  <2>2. NoCall \in State
    BY <2>1 DEF NoCall, State
  <2>3. \A s \in Symbols : waiters[s] \in Seq(Callers)
    OBVIOUS
  <2> QED BY <2>1, <2>2, <2>3 DEF TypeOK, State
<1>2. ASSUME NEW c \in Callers PROVE FetchInv(c) /\ SymbolInv(c) /\ QueuedInv(c)
  BY DEF FetchInv, SymbolInv, QueuedInv, NoCall
<1> QED BY <1>1, <1>2 DEF IInv

LEMMA StutterKeepsIInv == IInv /\ UNCHANGED vars => IInv'
<1> SUFFICES ASSUME IInv, UNCHANGED vars PROVE IInv'
  OBVIOUS
<1>1. /\ clock' = clock /\ cache' = cache /\ waiters' = waiters /\ call' = call
      /\ hitCount' = hitCount /\ missCount' = missCount /\ calls' = calls
  BY DEF vars
<1>2. TypeOK'
  BY ONLY IInv, <1>1, Zenon DEF IInv, TypeOK
<1>3. ASSUME NEW c \in Callers PROVE (FetchInv(c) /\ SymbolInv(c) /\ QueuedInv(c))'
  <2>1. FetchInv(c) /\ SymbolInv(c) /\ QueuedInv(c)
    BY DEF IInv
  <2>2. FetchInv(c)'
    BY ONLY <1>1, <2>1 DEF FetchInv, Holds, Fresh
  <2>3. SymbolInv(c)' /\ QueuedInv(c)'
    BY ONLY <1>1, <2>1 DEF SymbolInv, QueuedInv
  <2> QED BY <2>2, <2>3
<1> QED BY <1>2, <1>3 DEF IInv

LEMMA TimeKeepsIInv == IInv /\ TimePasses => IInv'
<1> SUFFICES ASSUME IInv, TimePasses PROVE IInv'
  OBVIOUS
<1> USE DEF TimePasses
<1>1. TypeOK'
  <2>1. clock \in Nat /\ clock' = clock + 1
    BY DEF IInv, TypeOK
  <2>2. clock' \in Nat
    BY ONLY <2>1
  <2> QED BY <2>2, Zenon DEF IInv, TypeOK
<1>2. ASSUME NEW c \in Callers PROVE (FetchInv(c) /\ SymbolInv(c) /\ QueuedInv(c))'
  <2>1. /\ FetchInv(c) /\ SymbolInv(c) /\ QueuedInv(c)
        /\ clock \in Nat /\ Ttl \in Nat
        /\ call[c].pc = "fetching" => cache[call[c].sym] \in Entry
    BY TtlAssumption DEF IInv, TypeOK, SymbolInv
  <2>2. ASSUME NEW e \in Entry, ~Fresh(e) PROVE ~Fresh(e)'
    BY <2>1, <2>2 DEF Fresh, Entry
  <2> QED BY <2>1, <2>2 DEF FetchInv, SymbolInv, QueuedInv, Holds
<1> QED BY <1>1, <1>2 DEF IInv

\* What the invariant says of one symbol and one caller, the form the steps use.
LEMMA Parts ==
  ASSUME IInv
  PROVE  /\ clock \in Nat /\ hitCount \in Nat /\ missCount \in Nat /\ calls \in Nat
         /\ cache \in [Symbols -> Entry] /\ call \in [Callers -> State]
         /\ waiters \in [Symbols -> Seq(Callers)]
         /\ \A c \in Callers : FetchInv(c) /\ SymbolInv(c) /\ QueuedInv(c)
BY DEF IInv, TypeOK, State

\* A caller other than the one that moves is left as it was, if its lock's queue
\* keeps it and its holder.
LEMMA OthersKeep ==
  ASSUME IInv, NEW c \in Callers, NEW s \in Symbols, NEW d \in Callers, d # c,
         call'[d] = call[d], clock' = clock,
         \A t \in Symbols : t # s => cache'[t] = cache[t] /\ waiters'[t] = waiters[t],
         (\E i \in 1..Len(waiters[s]) : waiters[s][i] = d) =>
            \E i \in 1..Len(waiters'[s]) : waiters'[s][i] = d,
         waiters[s] # <<>> /\ Head(waiters[s]) = d =>
            waiters'[s] # <<>> /\ Head(waiters'[s]) = d /\ cache'[s] = cache[s]
  PROVE  (FetchInv(d) /\ SymbolInv(d) /\ QueuedInv(d))'
<1> USE Parts
<1>1. SymbolInv(d)'
  BY DEF SymbolInv
<1>2. FetchInv(d) /\ SymbolInv(d) /\ QueuedInv(d)
  OBVIOUS
<1>3. CASE call[d].sym # s
  <2>1. SymbolInv(d) => (call[d].pc \in {"waiting", "fetching"} =>
          /\ waiters'[call[d].sym] = waiters[call[d].sym]
          /\ cache'[call[d].sym] = cache[call[d].sym])
    BY ONLY <1>3, \A t \in Symbols : t # s => cache'[t] = cache[t] /\ waiters'[t] = waiters[t]
       DEF SymbolInv
  <2>2. QueuedInv(d)'
    BY ONLY <1>2, <2>1, call'[d] = call[d] DEF QueuedInv
  <2>3. FetchInv(d)'
    BY ONLY <1>2, <2>1, call'[d] = call[d], clock' = clock DEF FetchInv, Holds, Fresh
  <2> QED BY <1>1, <2>2, <2>3
<1>4. CASE call[d].sym = s
  <2>1. QueuedInv(d)'
    BY ONLY <1>2, <1>4, call'[d] = call[d],
            (\E i \in 1..Len(waiters[s]) : waiters[s][i] = d) =>
               \E i \in 1..Len(waiters'[s]) : waiters'[s][i] = d
       DEF QueuedInv
  <2>2. FetchInv(d)'
    BY ONLY <1>2, <1>4, call'[d] = call[d], clock' = clock,
            waiters[s] # <<>> /\ Head(waiters[s]) = d =>
               waiters'[s] # <<>> /\ Head(waiters'[s]) = d /\ cache'[s] = cache[s]
       DEF FetchInv, Holds, Fresh
  <2> QED BY <1>1, <2>1, <2>2
<1> QED BY <1>3, <1>4

LEMMA RecentHeadlinesKeepsIInv ==
  ASSUME IInv, NEW c \in Callers, NEW s \in Symbols, RecentHeadlines(c, s)
  PROVE  IInv'
<1> USE Parts, BoundAssumption DEF RecentHeadlines
<1>0. calls' \in Nat /\ clock' = clock /\ cache' = cache /\ missCount' = missCount
  OBVIOUS
<1>1. CASE hitCount' = hitCount + 1 /\ UNCHANGED <<waiters, call>>
  <2>1. TypeOK'
    <3>1. hitCount' \in Nat
      BY <1>1
    <3> QED BY ONLY IInv, <1>0, <1>1, <3>1, Zenon DEF IInv, TypeOK
  <2>2. ASSUME NEW d \in Callers PROVE (FetchInv(d) /\ SymbolInv(d) /\ QueuedInv(d))'
    BY <1>0, <1>1 DEF FetchInv, SymbolInv, QueuedInv, Holds, Fresh
  <2> QED BY <2>1, <2>2 DEF IInv
<1>2. CASE /\ call' = [call EXCEPT ![c] = [pc |-> "waiting", sym |-> s, entry |-> Missing]]
           /\ waiters' = [waiters EXCEPT ![s] = Append(@, c)]
           /\ UNCHANGED hitCount
  <2>0. waiters[s] \in Seq(Callers) /\ waiters'[s] = Append(waiters[s], c)
    BY <1>2
  <2>1. TypeOK'
    <3>1. [pc |-> "waiting", sym |-> s, entry |-> Missing] \in State
      BY DEF State, Entry
    <3>2. call' \in [Callers -> State] /\ waiters' \in [Symbols -> Seq(Callers)]
      BY <1>2, <2>0, <3>1
    <3>3. hitCount' = hitCount
      BY <1>2
    <3> QED BY ONLY IInv, <1>0, <3>2, <3>3, Zenon DEF IInv, TypeOK, State
  <2>2. ASSUME NEW d \in Callers, d # c
        PROVE  (FetchInv(d) /\ SymbolInv(d) /\ QueuedInv(d))'
    <3>1. \A i \in 1..Len(waiters[s]) :
             i \in 1..Len(waiters'[s]) /\ waiters'[s][i] = waiters[s][i]
      BY <2>0
    <3>2. waiters[s] # <<>> => waiters'[s] # <<>> /\ Head(waiters'[s]) = Head(waiters[s])
      BY ONLY <2>0
    <3>3. call'[d] = call[d] /\ \A t \in Symbols : t # s => waiters'[t] = waiters[t]
      BY <1>2, <2>2
    <3>4. \A t \in Symbols : t # s => cache'[t] = cache[t] /\ waiters'[t] = waiters[t]
      BY ONLY <1>0, <3>3
    <3>5. (\E i \in 1..Len(waiters[s]) : waiters[s][i] = d) =>
            \E i \in 1..Len(waiters'[s]) : waiters'[s][i] = d
      BY ONLY <3>1
    <3>6. waiters[s] # <<>> /\ Head(waiters[s]) = d =>
            waiters'[s] # <<>> /\ Head(waiters'[s]) = d /\ cache'[s] = cache[s]
      BY ONLY <1>0, <3>2
    <3> QED BY ONLY IInv, <1>0, <2>2, <3>3, <3>4, <3>5, <3>6, OthersKeep, Zenon
  <2>3. (FetchInv(c) /\ SymbolInv(c) /\ QueuedInv(c))'
    <3>1. call'[c].pc = "waiting" /\ call'[c].sym = s
      BY <1>2
    <3>2. Len(waiters'[s]) \in 1..Len(waiters'[s]) /\ waiters'[s][Len(waiters'[s])] = c
      BY <2>0
    <3> QED BY <3>1, <3>2 DEF FetchInv, SymbolInv, QueuedInv
  <2> QED BY <2>1, <2>2, <2>3 DEF IInv
<1> QED BY <1>1, <1>2

\* The holder leaves: a second look that hits, or an answer from upstream that is
\* stored first.
LEMMA LeavingKeepsIInv ==
  ASSUME IInv, NEW c \in Callers, NEW s \in Symbols, s = call[c].sym, Holds(c),
         call' = [call EXCEPT ![c] = NoCall],
         waiters' = [waiters EXCEPT ![s] = Tail(@)],
         NEW e \in Entry, cache' = [cache EXCEPT ![s] = e],
         clock' = clock, hitCount' \in Nat, missCount' \in Nat, calls' = calls
  PROVE  IInv'
<1> USE Parts
<1>0. /\ waiters[s] \in Seq(Callers) /\ waiters[s] # <<>> /\ Head(waiters[s]) = c
      /\ waiters'[s] = Tail(waiters[s])
  BY DEF Holds
<1>1. TypeOK'
  <2>1. NoCall \in State
    BY DEF NoCall, State, Entry
  <2>2. Tail(waiters[s]) \in Seq(Callers)
    BY <1>0
  <2>3. /\ call' \in [Callers -> State] /\ waiters' \in [Symbols -> Seq(Callers)]
        /\ cache' \in [Symbols -> Entry]
    BY <2>1, <2>2
  <2>4. clock' \in Nat /\ calls' \in Nat
    OBVIOUS
  <2> QED BY <2>3, <2>4, Zenon DEF TypeOK, State
<1>2. ASSUME NEW d \in Callers, d # c
      PROVE  (FetchInv(d) /\ SymbolInv(d) /\ QueuedInv(d))'
  <2>1. /\ call'[d] = call[d]
        /\ \A t \in Symbols : t # s => cache'[t] = cache[t] /\ waiters'[t] = waiters[t]
    BY <1>2
  <2>2. (\E i \in 1..Len(waiters[s]) : waiters[s][i] = d) =>
          \E i \in 1..Len(waiters'[s]) : waiters'[s][i] = d
    <3>1. \A x : x # Head(waiters[s]) /\ (\E i \in 1..Len(waiters[s]) : waiters[s][i] = x) =>
            \E i \in 1..Len(Tail(waiters[s])) : Tail(waiters[s])[i] = x
      BY ONLY <1>0, QueueTail, Zenon
    <3> QED BY ONLY <1>0, <1>2, <3>1, Zenon
  <2>3. ~(waiters[s] # <<>> /\ Head(waiters[s]) = d)
    BY ONLY <1>0, <1>2
  <2> QED BY ONLY IInv, clock' = clock, <1>2, <2>1, <2>2, <2>3, OthersKeep, Zenon
<1>3. (FetchInv(c) /\ SymbolInv(c) /\ QueuedInv(c))'
  <2>1. call'[c].pc = "idle"
    BY DEF NoCall
  <2> QED BY <2>1 DEF FetchInv, SymbolInv, QueuedInv
<1> QED BY <1>1, <1>2, <1>3 DEF IInv

LEMMA EnterKeepsIInv == ASSUME IInv, NEW c \in Callers, Enter(c) PROVE IInv'
<1> DEFINE s == call[c].sym
<1> USE Parts DEF Enter
<1>0. s \in Symbols /\ Holds(c)
  BY DEF SymbolInv
<1>1. CASE /\ hitCount' = hitCount + 1
           /\ call' = [call EXCEPT ![c] = NoCall]
           /\ waiters' = [waiters EXCEPT ![s] = Tail(@)]
           /\ UNCHANGED missCount
  <2>1. cache[s] \in Entry /\ cache' = [cache EXCEPT ![s] = cache[s]]
    BY <1>0
  <2>2. clock' = clock /\ hitCount' \in Nat /\ missCount' \in Nat /\ calls' = calls
    BY <1>1
  <2> QED BY ONLY IInv, <1>0, <1>1, <2>1, <2>2, LeavingKeepsIInv, Zenon
<1>2. CASE /\ ~Fresh(cache[s])
           /\ missCount' = missCount + 1
           /\ call' = [call EXCEPT ![c].pc = "fetching", ![c].entry = cache[s]]
           /\ UNCHANGED <<waiters, hitCount>>
  <2>0. /\ clock' = clock /\ cache' = cache /\ waiters' = waiters
        /\ hitCount' = hitCount /\ calls' = calls
    BY <1>2
  <2>1. /\ call'[c].pc = "fetching" /\ call'[c].sym = s /\ call'[c].entry = cache[s]
        /\ call'[c] \in State
    BY <1>0, <1>2 DEF State
  <2>2. TypeOK'
    <3>1. call' \in [Callers -> State] /\ missCount' \in Nat
      BY <1>2, <2>1
    <3> QED BY ONLY IInv, <2>0, <3>1, Zenon DEF IInv, TypeOK, State
  <2>3. ASSUME NEW d \in Callers, d # c
        PROVE  (FetchInv(d) /\ SymbolInv(d) /\ QueuedInv(d))'
    <3>1. call'[d] = call[d]
      BY <1>2, <2>3
    <3> QED BY <2>0, <3>1 DEF FetchInv, SymbolInv, QueuedInv, Holds, Fresh
  <2>4. (FetchInv(c) /\ SymbolInv(c) /\ QueuedInv(c))'
    <3>1. QueuedInv(c)' /\ SymbolInv(c)'
      BY <1>0, <2>0, <2>1 DEF QueuedInv, SymbolInv
    <3>2. FetchInv(c)'
      BY <1>0, <1>2, <2>0, <2>1 DEF FetchInv, Holds, Fresh
    <3> QED BY <3>1, <3>2
  <2> QED BY <2>2, <2>3, <2>4 DEF IInv
<1> QED BY <1>1, <1>2

LEMMA FetchedKeepsIInv ==
  ASSUME IInv, NEW c \in Callers, NEW headlines \in BOOLEAN, Fetched(c, headlines)
  PROVE  IInv'
<1> DEFINE s == call[c].sym
           e == [news |-> headlines \/ call[c].entry.news, at |-> clock]
<1>1. s \in Symbols /\ Holds(c)
  BY Parts DEF Fetched, SymbolInv, FetchInv
<1>2. e \in Entry
  BY Parts DEF Entry
<1>3. clock' = clock /\ hitCount' \in Nat /\ missCount' \in Nat /\ calls' = calls
  BY Parts DEF Fetched
<1>4. /\ call' = [call EXCEPT ![c] = NoCall]
      /\ waiters' = [waiters EXCEPT ![s] = Tail(@)]
      /\ cache' = [cache EXCEPT ![s] = e]
  BY DEF Fetched
<1> QED BY ONLY IInv, <1>1, <1>2, <1>3, <1>4, LeavingKeepsIInv, Zenon

LEMMA CancelKeepsIInv == ASSUME IInv, NEW c \in Callers, Cancel(c) PROVE IInv'
<1> DEFINE s == call[c].sym
<1> USE Parts DEF Cancel
<1>0. /\ call' = [call EXCEPT ![c] = [NoCall EXCEPT !.pc = "cancelled"]]
      /\ clock' = clock /\ cache' = cache /\ hitCount' = hitCount
      /\ missCount' = missCount /\ calls' = calls
  OBVIOUS
<1>1. /\ call' \in [Callers -> State] /\ call'[c].pc = "cancelled"
      /\ \A d \in Callers : d # c => call'[d] = call[d]
  <2> DEFINE gone == [NoCall EXCEPT !.pc = "cancelled"]
             names == Symbols \cup {""}
  <2>1. Missing \in Entry
    BY DEF Entry
  <2>2. NoCall \in State
    BY <2>1 DEF NoCall, State
  <2>3. State = [pc : {"idle", "waiting", "fetching", "cancelled"}, sym : names, entry : Entry]
    BY Zenon DEF State
  <2>4. call' = [call EXCEPT ![c] = gone] /\ call \in [Callers -> State]
    BY <1>0
  <2> HIDE DEF names
  <2>5. gone \in State /\ gone.pc = "cancelled"
    BY ONLY <2>2, <2>3
  <2> HIDE DEF gone
  <2> QED BY ONLY <2>4, <2>5
<1>2. (FetchInv(c) /\ SymbolInv(c) /\ QueuedInv(c))'
  BY <1>1 DEF FetchInv, SymbolInv, QueuedInv
<1>3. CASE call[c].pc = "idle"
  <2>1. waiters' = waiters
    BY <1>3
  <2>2. TypeOK'
    BY ONLY IInv, <1>0, <1>1, <2>1, Zenon DEF IInv, TypeOK, State
  <2>3. ASSUME NEW d \in Callers, d # c
        PROVE  (FetchInv(d) /\ SymbolInv(d) /\ QueuedInv(d))'
    <3>1. FetchInv(d) /\ SymbolInv(d) /\ QueuedInv(d)
      OBVIOUS
    <3>2. call'[d] = call[d]
      BY <1>1, <2>3
    <3> QED BY ONLY <1>0, <2>1, <3>1, <3>2 DEF FetchInv, SymbolInv, QueuedInv, Holds, Fresh
  <2> QED BY <1>2, <2>2, <2>3 DEF IInv
<1>4. CASE call[c].pc # "idle"
  <2>1. /\ s \in Symbols /\ waiters[s] \in Seq(Callers)
        /\ waiters' = [waiters EXCEPT ![s] = Without(waiters[s], c)]
        /\ \E i \in 1..Len(waiters[s]) : waiters[s][i] = c
    BY <1>4 DEF State, SymbolInv, QueuedInv
  <2>2. /\ Without(waiters[s], c) \in Seq(Callers)
        /\ \A d : d # c /\ (\E i \in 1..Len(waiters[s]) : waiters[s][i] = d) =>
             \E i \in 1..Len(Without(waiters[s], c)) : Without(waiters[s], c)[i] = d
        /\ Head(waiters[s]) # c => /\ Without(waiters[s], c) # <<>>
                                   /\ Head(Without(waiters[s], c)) = Head(waiters[s])
    BY ONLY <2>1, QueueWithout, Zenon
  <2>3. /\ waiters' \in [Symbols -> Seq(Callers)] /\ waiters'[s] = Without(waiters[s], c)
        /\ \A t \in Symbols : t # s => waiters'[t] = waiters[t]
    BY <2>1, <2>2
  <2>4. TypeOK'
    BY ONLY IInv, <1>0, <1>1, <2>3, Zenon DEF IInv, TypeOK, State
  <2>5. ASSUME NEW d \in Callers, d # c
        PROVE  (FetchInv(d) /\ SymbolInv(d) /\ QueuedInv(d))'
    <3>1. /\ call'[d] = call[d]
          /\ \A t \in Symbols : t # s => cache'[t] = cache[t] /\ waiters'[t] = waiters[t]
      BY ONLY <1>0, <1>1, <2>3, <2>5
    <3>2. (\E i \in 1..Len(waiters[s]) : waiters[s][i] = d) =>
            \E i \in 1..Len(waiters'[s]) : waiters'[s][i] = d
      BY ONLY <2>2, <2>3, <2>5, Zenon
    <3>3. waiters[s] # <<>> /\ Head(waiters[s]) = d =>
            waiters'[s] # <<>> /\ Head(waiters'[s]) = d /\ cache'[s] = cache[s]
      BY ONLY <1>0, <2>2, <2>3, <2>5
    <3> QED BY ONLY IInv, <1>0, <2>1, <2>5, <3>1, <3>2, <3>3, OthersKeep, Zenon
  <2> QED BY <1>2, <2>4, <2>5 DEF IInv
<1> QED BY <1>3, <1>4

LEMMA NextIInv == IInv /\ [Next]_vars => IInv'
BY StutterKeepsIInv, TimeKeepsIInv, RecentHeadlinesKeepsIInv, EnterKeepsIInv,
   FetchedKeepsIInv, CancelKeepsIInv DEF Next, Progress

\* The clock, the cache, the lock queues and the callers' frames keep their types.
THEOREM CacheTypes == Spec => []TypeOK
<1>1. IInv => TypeOK
  BY DEF IInv
<1> QED BY InitIInv, NextIInv, <1>1, PTL DEF Spec

-----------------------------------------------------------------------------
\* A caller that moves neither into nor out of its question changes nothing of what is asked.
LEMMA AskedSame ==
  ASSUME NEW c \in Callers, call[c].pc # "fetching", call'[c].pc # "fetching",
         \A d \in Callers \ {c} : call'[d] = call[d]
  PROVE  Asked' = Asked
<1>1. ASSUME NEW d \in Callers, NEW s \in Symbols
      PROVE  (call'[d].pc = "fetching" /\ call'[d].sym = s) <=> (call[d].pc = "fetching" /\ call[d].sym = s)
  BY <1>1
<1> QED BY <1>1 DEF Asked

\* Of the callers of a symbol one asks: the one that holds its lock.
LEMMA OneAsks ==
  ASSUME IInv, NEW c \in Callers, NEW d \in Callers, call[c].sym = call[d].sym,
         Holds(c), call[d].pc = "fetching"
  PROVE  c = d
BY Parts DEF FetchInv, Holds

\* A caller that holds the lock and finds no fresh entry asks.
LEMMA EnterAsks ==
  ASSUME IInv, NEW c \in Callers, Enter(c)
  PROVE  (\E s \in Symbols : Promise!Ask(s)) \/ UNCHANGED <<clock, cache, Asked>>
<1> DEFINE s == call[c].sym
<1>0. s \in Symbols /\ Holds(c) /\ call[c].pc = "waiting" /\ clock' = clock /\ cache' = cache
  BY Parts DEF Enter, SymbolInv
<1>1. CASE call' = [call EXCEPT ![c] = NoCall]
  <2>1. call'[c].pc = "idle" /\ \A d \in Callers \ {c} : call'[d] = call[d]
    BY <1>1, Parts DEF NoCall
  <2> QED BY <1>0, <2>1, AskedSame
<1>2. CASE /\ ~Fresh(cache[s])
           /\ call' = [call EXCEPT ![c].pc = "fetching", ![c].entry = cache[s]]
  <2>1. /\ call'[c].pc = "fetching" /\ call'[c].sym = s
        /\ \A d \in Callers \ {c} : call'[d] = call[d]
    BY <1>2, Parts DEF State
  <2>2. s \notin Asked
    <3> SUFFICES ASSUME NEW d \in Callers, call[d].pc = "fetching", call[d].sym = s
                 PROVE FALSE
      BY <1>0 DEF Asked
    <3>1. c = d
      BY <1>0, OneAsks
    <3> QED BY <1>0, <3>1
  <2>3. Asked' = Asked \cup {s}
    <3>1. ASSUME NEW t \in Symbols
          PROVE  t \in Asked' <=> t \in Asked \/ t = s
      <4>1. CASE t = s
        BY <2>1, <4>1, <1>0 DEF Asked
      <4>2. CASE t # s
        <5>1. ASSUME NEW d \in Callers
              PROVE  (call'[d].pc = "fetching" /\ call'[d].sym = t) <=> (call[d].pc = "fetching" /\ call[d].sym = t)
          BY <1>0, <2>1, <4>2
        <5> QED BY <4>2, <5>1 DEF Asked
      <4> QED BY <4>1, <4>2
    <3>2. Asked \subseteq Symbols /\ Asked' \subseteq Symbols
      BY DEF Asked
    <3> QED BY <1>0, <3>1, <3>2
  <2>4. cache[s] = Promise!Missing \/ clock - cache[s].at >= Ttl
    <3>1. cache[s] = Missing \/ cache[s].at \in Nat
      BY <1>0, Parts DEF Entry
    <3>2. clock \in Nat /\ Ttl \in Nat
      BY Parts, TtlAssumption
    <3> QED BY <1>2, <3>1, <3>2 DEF Fresh, Missing, Promise!Missing
  <2> QED BY <1>0, <2>2, <2>3, <2>4 DEF Promise!Ask
<1> QED BY <1>1, <1>2 DEF Enter

\* The caller that asked gets its answer or is cancelled: its symbol is asked no more.
LEMMA AskedLess ==
  ASSUME IInv, NEW c \in Callers, call[c].pc = "fetching", call'[c].pc # "fetching",
         \A d \in Callers \ {c} : call'[d] = call[d]
  PROVE  call[c].sym \in Asked /\ Asked' = Asked \ {call[c].sym}
<1> DEFINE s == call[c].sym
<1>0. s \in Symbols /\ Holds(c)
  BY Parts DEF SymbolInv, FetchInv
<1>1. ASSUME NEW t \in Symbols PROVE t \in Asked' <=> t \in Asked /\ t # s
  <2>1. ASSUME NEW d \in Callers, call'[d].pc = "fetching", call'[d].sym = t
        PROVE  d # c /\ call[d].pc = "fetching" /\ call[d].sym = t
    BY <2>1
  <2>2. ASSUME NEW d \in Callers, call[d].pc = "fetching", call[d].sym = s PROVE d = c
    BY <1>0, <2>2, OneAsks
  <2>3. t \in Asked' => t \in Asked /\ t # s
    BY <2>1, <2>2 DEF Asked
  <2>4. t \in Asked /\ t # s => t \in Asked'
    BY DEF Asked
  <2> QED BY <2>3, <2>4
<1>2. Asked \subseteq Symbols /\ Asked' \subseteq Symbols
  BY DEF Asked
<1>3. s \in Asked
  BY <1>0 DEF Asked
<1> QED BY <1>1, <1>2, <1>3

\* Every step is a step of the promise or leaves its clock, cache and questions alone.
LEMMA StepPromise == IInv /\ [Next]_vars => [Promise!Next]_(Promise!vars)
<1> SUFFICES ASSUME IInv, [Next]_vars
             PROVE  Promise!Next \/ UNCHANGED <<clock, cache, Asked>>
  BY DEF Promise!vars
<1>1. ASSUME TimePasses PROVE Promise!TimePasses
  BY <1>1 DEF TimePasses, Promise!TimePasses, Asked
<1>2. ASSUME NEW c \in Callers, NEW headlines \in BOOLEAN, Fetched(c, headlines)
      PROVE  \E s \in Symbols : Promise!Store(s)
  <2> DEFINE s == call[c].sym
  <2>1. s \in Symbols /\ call[c].entry = cache[s] /\ call[c].pc = "fetching"
    BY <1>2, Parts DEF Fetched, FetchInv, SymbolInv
  <2>2. call'[c].pc # "fetching" /\ \A d \in Callers \ {c} : call'[d] = call[d]
    BY <1>2, Parts DEF Fetched, NoCall
  <2>3. (headlines \/ cache[s].news) \in BOOLEAN
    BY <1>2
  <2>4. /\ cache' = [cache EXCEPT ![s] = [news |-> headlines \/ cache[s].news, at |-> clock]]
        /\ clock' = clock
    BY <1>2, <2>1 DEF Fetched
  <2>5. s \in Asked /\ Asked' = Asked \ {s}
    BY <2>1, <2>2, AskedLess
  <2> QED BY <2>1, <2>3, <2>4, <2>5, Zenon DEF Promise!Store
<1>3. ASSUME NEW c \in Callers, NEW s \in Symbols, RecentHeadlines(c, s)
      PROVE  UNCHANGED <<clock, cache, Asked>>
  <2>1. /\ call[c].pc = "idle" /\ call'[c].pc # "fetching"
        /\ \A d \in Callers \ {c} : call'[d] = call[d]
    BY <1>3, Parts DEF RecentHeadlines
  <2> QED BY <1>3, <2>1, AskedSame DEF RecentHeadlines
<1>4. ASSUME NEW c \in Callers, Cancel(c)
      PROVE  (\E s \in Symbols : Promise!GiveUp(s)) \/ UNCHANGED <<clock, cache, Asked>>
  <2>1. /\ call'[c].pc # "fetching" /\ clock' = clock /\ cache' = cache
        /\ \A d \in Callers \ {c} : call'[d] = call[d]
    BY <1>4, Parts DEF Cancel, NoCall
  <2>2. CASE call[c].pc = "fetching"
    <3>1. call[c].sym \in Symbols
      BY <2>2, Parts DEF SymbolInv
    <3> QED BY <2>1, <2>2, <3>1, AskedLess DEF Promise!GiveUp
  <2>3. CASE call[c].pc # "fetching"
    BY <2>1, <2>3, AskedSame
  <2> QED BY <2>2, <2>3
<1>5. UNCHANGED vars => UNCHANGED <<clock, cache, Asked>>
  BY DEF vars, Asked
<1> QED BY <1>1, <1>2, <1>3, <1>4, <1>5, EnterAsks DEF Next, Progress, Promise!Next

LEMMA PromiseStart == Init => Promise!Init
<1> SUFFICES ASSUME Init PROVE Promise!Init
  OBVIOUS
<1>1. \A c \in Callers : call[c].pc # "fetching"
  BY DEF Init, NoCall
<1>2. Asked = {}
  BY <1>1 DEF Asked
<1>3. clock = 0 /\ cache = [s \in Symbols |-> Promise!Missing]
  BY DEF Init, Missing, Promise!Missing
<1> QED BY <1>2, <1>3 DEF Promise!Init

\* For any number of callers, cancelled anywhere: one asks upstream at a time per symbol, none
\* while the entry is fresh, and headlines are never replaced by none.
THEOREM ImplementsPromise == Spec => PromiseSpec
<1> QED BY InitIInv, NextIInv, StepPromise, PromiseStart, PTL DEF Spec, PromiseSpec, Promise!Spec

-----------------------------------------------------------------------------

\* One more element of the list, when g holds what is kept of the shorter ones.
Longer(list, set, g, i) ==
  IF i = 0 THEN <<>>
  ELSE IF list[i] \in set THEN Append(g[i - 1], list[i]) ELSE g[i - 1]

\* The recursion has a solution, by induction over the length.
LEMMA KeptExists ==
  ASSUME NEW list, NEW set, NEW n \in Nat
  PROVE  \E g : g = [i \in 0 .. n |-> Longer(list, set, g, i)]
<1> DEFINE Good(k, g) == g = [i \in 0 .. k |-> Longer(list, set, g, i)]
           T == {k \in Nat : \E g : Good(k, g)}
<1>1. 0 \in T
  <2> DEFINE g == [i \in 0 .. 0 |-> <<>>]
  <2>1. Good(0, g)
    BY DEF Longer
  <2> QED BY <2>1
<1>2. ASSUME NEW k \in T PROVE k + 1 \in T
  <2>1. PICK g : Good(k, g)
    OBVIOUS
  <2> DEFINE h == [i \in 0 .. k + 1 |-> Longer(list, set, g, i)]
  <2>2. ASSUME NEW i \in 0 .. k PROVE h[i] = g[i]
    BY <2>1
  <2>3. ASSUME NEW i \in 0 .. k + 1 PROVE Longer(list, set, h, i) = Longer(list, set, g, i)
    <3>1. CASE i = 0
      BY <3>1 DEF Longer
    <3>2. CASE i # 0
      <4>1. i - 1 \in 0 .. k
        BY <3>2
      <4>2. h[i - 1] = g[i - 1]
        BY <4>1, <2>2
      <4> HIDE DEF h
      <4> QED BY <3>2, <4>2 DEF Longer
    <3> QED BY <3>1, <3>2
  <2>4. Good(k + 1, h)
    BY <2>3
  <2>5. k + 1 \in Nat
    OBVIOUS
  <2> HIDE DEF Good, h
  <2> QED BY <2>4, <2>5
<1> HIDE DEF Good
<1>3. \A k \in Nat : k \in T
  BY <1>1, <1>2, NatSetInduction
<1>4. PICK g : Good(n, g)
  BY <1>3
<1> QED BY <1>4 DEF Good

\* k is what is kept of the first i elements: the kept ones at the places where they stand.
IsKept(list, set, i, k) ==
  /\ Len(k) \in Nat
  /\ \E at \in [1 .. Len(k) -> 1 .. i] :
       /\ \A p, q \in 1 .. Len(k) : p < q => at[p] < at[q]
       /\ \A p \in 1 .. Len(k) : k[p] = list[at[p]] /\ k[p] \in set
       /\ \A j \in 1 .. i : list[j] \in set => \E p \in 1 .. Len(k) : at[p] = j

LEMMA KeptMore ==
  ASSUME NEW S, NEW list \in Seq(S), NEW set, NEW i \in 1 .. Len(list),
         NEW k \in Seq(S), IsKept(list, set, i - 1, k)
  PROVE  /\ list[i] \in set => IsKept(list, set, i, Append(k, list[i]))
         /\ list[i] \notin set => IsKept(list, set, i, k)
<1>1. PICK at \in [1 .. Len(k) -> 1 .. i - 1] :
        /\ \A p, q \in 1 .. Len(k) : p < q => at[p] < at[q]
        /\ \A p \in 1 .. Len(k) : k[p] = list[at[p]] /\ k[p] \in set
        /\ \A j \in 1 .. i - 1 : list[j] \in set => \E p \in 1 .. Len(k) : at[p] = j
  BY DEF IsKept
<1>2. CASE list[i] \notin set
  <2>1. at \in [1 .. Len(k) -> 1 .. i]
    OBVIOUS
  <2>2. ASSUME NEW j \in 1 .. i, list[j] \in set PROVE \E p \in 1 .. Len(k) : at[p] = j
    <3>1. j # i
      BY <1>2, <2>2
    <3>2. j \in 1 .. i - 1
      BY <3>1
    <3> QED BY <1>1, <2>2, <3>2
  <2> QED BY <1>1, <1>2, <2>1, <2>2 DEF IsKept
<1>3. CASE list[i] \in set
  <2> DEFINE n == Len(k) + 1
             l == Append(k, list[i])
             to == [p \in 1 .. n |-> IF p = n THEN i ELSE at[p]]
  <2>1. Len(l) = n /\ n \in Nat /\ l[n] = list[i] /\ \A p \in 1 .. Len(k) : l[p] = k[p]
    OBVIOUS
  <2>2. to \in [1 .. n -> 1 .. i]
    OBVIOUS
  <2>3. ASSUME NEW p \in 1 .. n, NEW q \in 1 .. n, p < q PROVE to[p] < to[q]
    <3>1. p \in 1 .. Len(k) /\ to[p] = at[p] /\ at[p] \in 1 .. i - 1
      BY <2>1, <2>3
    <3>2. CASE q = n
      BY <3>1, <3>2
    <3>3. CASE q # n
      <4>1. q \in 1 .. Len(k) /\ to[q] = at[q]
        BY <2>1, <3>3
      <4> QED BY <1>1, <2>3, <3>1, <4>1
    <3> QED BY <3>2, <3>3
  <2>4. \A p \in 1 .. n : l[p] = list[to[p]] /\ l[p] \in set
    BY <1>1, <1>3, <2>1
  <2>5. ASSUME NEW j \in 1 .. i, list[j] \in set PROVE \E p \in 1 .. n : to[p] = j
    <3>1. CASE j = i
      BY <3>1
    <3>2. CASE j # i
      <4>1. PICK p \in 1 .. Len(k) : at[p] = j
        BY <1>1, <2>5, <3>2
      <4> QED BY <4>1
    <3> QED BY <3>1, <3>2
  <2> HIDE DEF n, l, to
  <2>6. /\ \A p, q \in 1 .. n : p < q => to[p] < to[q]
        /\ \A j \in 1 .. i : list[j] \in set => \E p \in 1 .. n : to[p] = j
    BY <2>3, <2>5
  <2>7. IsKept(list, set, i, l)
    <3>1. Len(l) = n /\ n \in Nat
      BY <2>1
    <3>2. /\ Len(l) \in Nat
          /\ to \in [1 .. Len(l) -> 1 .. i]
          /\ \A p, q \in 1 .. Len(l) : p < q => to[p] < to[q]
          /\ \A p \in 1 .. Len(l) : l[p] = list[to[p]] /\ l[p] \in set
          /\ \A j \in 1 .. i : list[j] \in set => \E p \in 1 .. Len(l) : to[p] = j
      BY ONLY <3>1, <2>2, <2>4, <2>6
    <3> QED BY ONLY <3>2, Zenon DEF IsKept
  <2> QED BY <1>3, <2>7 DEF l
<1> QED BY <1>2, <1>3

\* What is kept of a list: the elements of the set, in the list's order.
LEMMA KeptOk ==
  ASSUME NEW S, NEW list \in Seq(S), NEW set
  PROVE  Kept(list, set) \in Seq(S) /\ IsKept(list, set, Len(list), Kept(list, set))
<1> DEFINE g == CHOOSE g : g = [i \in 0 .. Len(list) |-> Longer(list, set, g, i)]
           T == {i \in Nat : i <= Len(list) => g[i] \in Seq(S) /\ IsKept(list, set, i, g[i])}
<1>1. g = [i \in 0 .. Len(list) |-> Longer(list, set, g, i)]
  <2>1. \E h : h = [i \in 0 .. Len(list) |-> Longer(list, set, h, i)]
    <3>1. \A n \in Nat : \E h : h = [i \in 0 .. n |-> Longer(list, set, h, i)]
      BY KeptExists, Zenon
    <3>2. Len(list) \in Nat
      OBVIOUS
    <3> QED BY <3>1, <3>2, Zenon
  <2> QED BY <2>1, Zenon
<1>2. Kept(list, set) = g[Len(list)]
  BY DEF Kept, Longer
<1> HIDE DEF g
<1>3. 0 \in T
  <2>1. g[0] = <<>>
    BY <1>1 DEF Longer
  <2>2. <<>> \in Seq(S) /\ Len(<<>>) = 0
    OBVIOUS
  <2>3. IsKept(list, set, 0, <<>>)
    <3> DEFINE none == [p \in 1 .. 0 |-> p]
    <3>1. none \in [1 .. 0 -> 1 .. 0]
      OBVIOUS
    <3>2. \E at \in [1 .. Len(<<>>) -> 1 .. 0] : TRUE
      BY <2>2, <3>1
    <3>3. \A p : p \notin 1 .. Len(<<>>)
      BY <2>2
    <3>4. \A j : j \notin 1 .. 0
      OBVIOUS
    <3> QED BY <2>2, <3>2, <3>3, <3>4, Zenon DEF IsKept
  <2> QED BY <2>1, <2>2, <2>3
<1>4. ASSUME NEW i \in T PROVE i + 1 \in T
  <2> SUFFICES ASSUME i + 1 <= Len(list)
               PROVE  g[i + 1] \in Seq(S) /\ IsKept(list, set, i + 1, g[i + 1])
    OBVIOUS
  <2>1. g[i] \in Seq(S) /\ IsKept(list, set, (i + 1) - 1, g[i]) /\ list[i + 1] \in S
    OBVIOUS
  <2>2. g[i + 1] = IF list[i + 1] \in set THEN Append(g[i], list[i + 1]) ELSE g[i]
    <3>1. i + 1 \in 0 .. Len(list) /\ i + 1 # 0 /\ (i + 1) - 1 = i
      OBVIOUS
    <3>2. g[i + 1] = Longer(list, set, g, i + 1)
      BY <1>1, <3>1
    <3> QED BY <3>1, <3>2 DEF Longer
  <2>3. i + 1 \in 1 .. Len(list)
    OBVIOUS
  <2> QED BY <2>1, <2>2, <2>3, KeptMore
<1>5. \A i \in Nat : i \in T
  <2> HIDE DEF T
  <2> QED BY <1>3, <1>4, NatSetInduction DEF T
<1> QED BY <1>2, <1>5

LEMMA FeedKeptOk ==
  ASSUME NEW S, NEW list \in Seq(S), NEW set
  PROVE  /\ Feed!Kept(list, set) \in Seq(S)
         /\ IsKept(list, set, Len(list), Feed!Kept(list, set))
<1>1. Feed!Kept(list, set) = Kept(list, set)
  BY Zenon DEF Feed!Kept, Kept
<1> QED BY <1>1, KeptOk

LEMMA DeployKeptOk ==
  ASSUME NEW S, NEW list \in Seq(S), NEW set
  PROVE  /\ Deploy!Kept(list, set) \in Seq(S)
         /\ IsKept(list, set, Len(list), Deploy!Kept(list, set))
<1>1. Deploy!Kept(list, set) = Kept(list, set)
  BY Zenon DEF Deploy!Kept, Kept
<1> QED BY <1>1, KeptOk

-----------------------------------------------------------------------------
\* Parts: a step of the whole is a step of the part, or leaves it alone.

LEMMA FeedMoves == [ServicesNext]_servicesVars => [Feed!Next]_(Feed!vars)
  BY Zenon DEF ServicesNext, servicesVars, feedVars, Feed!vars

LEMMA StreamMoves == [ServicesNext]_servicesVars => [Stream!Next]_(Stream!vars)
  BY Zenon DEF ServicesNext, servicesVars, streamVars, Stream!vars

LEMMA OrderMoves == [ServicesNext]_servicesVars => [Order!Next]_(Order!vars)
  BY Zenon DEF ServicesNext, servicesVars, orderVars, Order!vars, Order!tokenVars

LEMMA DeployMoves == [ServicesNext]_servicesVars => [Deploy!Next]_(Deploy!vars)
  BY Zenon DEF ServicesNext, servicesVars, deployVars, Deploy!vars

LEMMA YahooMoves == [ServicesNext]_servicesVars => [Yahoo!Next]_(Yahoo!vars)
  BY Zenon DEF ServicesNext, servicesVars, yahooVars, Yahoo!vars, Yahoo!pollVars, Yahoo!exchangeVars

\* The clock that the news cache lets pass is the key set cache's too.
LEMMA JwksMoves == [ServicesNext]_servicesVars => [Jwks!Next]_(Jwks!vars)
<1> SUFFICES ASSUME [ServicesNext]_servicesVars PROVE [Jwks!Next]_(Jwks!vars)
  OBVIOUS
<1>1. CASE Next /\ UNCHANGED jwksVars
  <2>1. TimePasses \/ UNCHANGED clock
    BY <1>1, Zenon DEF Next, RecentHeadlines, Progress, Enter, EnterMisses, Fetched, Cancel,
      CancelHolding
  <2>2. TimePasses => Jwks!TimePasses
    BY <1>1, Zenon DEF TimePasses, Jwks!TimePasses, jwksVars
  <2> QED BY <1>1, <2>1, <2>2, Zenon DEF Jwks!Next, Jwks!vars, jwksVars
<1>2. CASE Jwks!Next
  BY <1>2
<1>3. CASE UNCHANGED <<clock, jwksVars>>
  BY <1>3, Zenon DEF Jwks!vars, jwksVars
<1> QED BY <1>1, <1>2, <1>3, Zenon DEF ServicesNext, servicesVars

\* ... and the other way round.
LEMMA NewsMoves == [ServicesNext]_servicesVars => [Next]_vars
<1> SUFFICES ASSUME [ServicesNext]_servicesVars PROVE [Next]_vars
  OBVIOUS
<1>1. CASE Jwks!Next /\ UNCHANGED newsVars
  <2>1. Jwks!TimePasses \/ UNCHANGED clock
    BY <1>1, Zenon DEF Jwks!Next, Jwks!Rotate, Jwks!Progress, Jwks!NoKeyAsked, Jwks!GetKey,
         Jwks!Enter, Jwks!Discovered, Jwks!Served, Jwks!RefreshFails, Jwks!Refreshed
  <2>2. Jwks!TimePasses => TimePasses
    BY <1>1, Zenon DEF TimePasses, Jwks!TimePasses, newsVars
  <2> QED BY <1>1, <2>1, <2>2, Zenon DEF Next, vars, newsVars
<1>2. CASE Next
  BY <1>2
<1>3. CASE UNCHANGED <<clock, newsVars>>
  BY <1>3, Zenon DEF vars, newsVars
<1> QED BY <1>1, <1>2, <1>3, Zenon DEF ServicesNext, servicesVars

-----------------------------------------------------------------------------
Item == Nat \X Nat

Sorted(s) == \A i, j \in 1 .. Len(s) : i < j => Feed!Before(s[i], s[j])

FeedInv ==
  /\ frames \in Seq(Feed!Frames) /\ open \in BOOLEAN /\ read \in 0 .. Len(frames) /\ pongs \in Nat
  /\ stream \in {"reading", "ponging", "publishing", "observing", "ended", "crashed"}
  /\ onRedis \in Seq(Item) /\ todo \in Seq(Item)
  /\ \A j \in 1 .. Len(todo) : todo[j][1] = read
  /\ stream \in {"reading", "ponging", "ended"} => todo = <<>>
  /\ Sorted(onRedis) /\ Sorted(todo)
  /\ \A i \in 1 .. Len(onRedis), j \in 1 .. Len(todo) : Feed!Before(onRedis[i], todo[j])
  /\ \A i \in 1 .. Len(onRedis) : onRedis[i] \in Feed!Due
  /\ \A j \in 1 .. Len(todo) : todo[j] \in Feed!Due
  /\ stream # "crashed" =>
       \A x \in Feed!Due : \/ \E i \in 1 .. Len(onRedis) : onRedis[i] = x
                      \/ \E j \in 1 .. Len(todo) : todo[j] = x

LEMMA ListOf ==
  ASSUME NEW S, NEW n \in Nat, NEW r \in [1 .. n -> S]
  PROVE  r \in Seq(S) /\ Len(r) = n
  BY SeqDef

\* What a frame announces and holds.
FrameIs(f) ==
  /\ f.count \in 0 .. MaxRecords /\ f.records \in Seq(Feed!Records) /\ Len(f.records) \in 0 .. MaxRecords
  /\ f.kind \in {"ping", "other"} => f.count = 0

LEMMA FrameType ==
  ASSUME NEW f \in Feed!Frames
  PROVE  FrameIs(f)
<1>2. CASE f \in [kind : {"ping", "other"}, count : {0}, records : {<<>>}]
  <2>1. f.count = 0 /\ f.records = <<>>
    BY <1>2
  <2>2. <<>> \in Seq(Feed!Records) /\ Len(<<>>) = 0
    OBVIOUS
  <2> QED BY <2>1, <2>2, ServicesAssumption DEF FrameIs
<1>3. CASE f \in [kind : {"ticks"}, count : 1 .. MaxRecords,
                  records : UNION {[1 .. n -> Feed!Records] : n \in 1 .. MaxRecords}]
  <2>1. PICK n \in 1 .. MaxRecords : f.records \in [1 .. n -> Feed!Records]
    BY <1>3
  <2>2. n \in Nat /\ n \in 0 .. MaxRecords
    BY ServicesAssumption
  <2>3. f.records \in Seq(Feed!Records) /\ Len(f.records) = n
    BY <2>1, <2>2, ListOf
  <2>4. f.kind = "ticks" /\ f.count \in 0 .. MaxRecords
    BY <1>3, ServicesAssumption
  <2> QED BY <2>2, <2>3, <2>4 DEF FrameIs
<1>4. CASE f \in [kind : {"quote"}, count : {1}, records : [1 .. 1 -> {"good", "bad"}]]
  <2>1. f.records \in [1 .. 1 -> Feed!Records] /\ f.count = 1 /\ f.kind = "quote"
    BY <1>4 DEF Feed!Records
  <2>2. f.records \in Seq(Feed!Records) /\ Len(f.records) = 1
    BY <2>1, ListOf
  <2> QED BY <2>1, <2>2, ServicesAssumption DEF FrameIs
<1> QED BY <1>2, <1>3, <1>4 DEF Feed!Frames

LEMMA FeedStart == Feed!Init => FeedInv
<1> SUFFICES ASSUME Feed!Init PROVE FeedInv
  OBVIOUS
<1>1. frames = <<>> /\ open = TRUE /\ read = 0 /\ todo = <<>> /\ onRedis = <<>> /\ pongs = 0
      /\ stream = "reading"
  BY DEF Feed!Init
<1>2. <<>> \in Seq(Item) /\ Len(<<>>) = 0 /\ <<>> \in Seq(Feed!Frames)
  OBVIOUS
<1>3. Feed!Due = {}
  BY <1>1 DEF Feed!Due
<1> QED BY <1>1, <1>2, <1>3 DEF FeedInv, Sorted

\* The items of frame n that Redis is owed.
DueOf(n) ==
  {i \in 1 .. MaxRecords : i <= Len(frames[n].records) /\ i <= frames[n].count
                             /\ frames[n].records[i] = "good"}

\* What is parsed of a frame: all it owes and nothing else, in the order of the wire.
LEMMA ParsedIsDue ==
  ASSUME NEW n \in Nat, n \in DOMAIN frames, frames[n] \in Feed!Frames
  PROVE  /\ Feed!Parsed(n) \in Seq(Item) /\ Sorted(Feed!Parsed(n))
         /\ \A j \in 1 .. Len(Feed!Parsed(n)) : Feed!Parsed(n)[j][1] = n /\ Feed!Parsed(n)[j][2] \in DueOf(n)
         /\ \A i \in DueOf(n) : \E j \in 1 .. Len(Feed!Parsed(n)) : Feed!Parsed(n)[j] = <<n, i>>
<1> DEFINE f == frames[n]
           count == IF Len(f.records) < f.count THEN Len(f.records) ELSE f.count
           list == [i \in 1 .. count |-> <<n, i>>]
           set == {x \in {n} \X (1 .. count) : f.records[x[2]] = "good"}
<1>1. FrameIs(f)
  BY FrameType
<1>2. count \in Nat /\ count <= Len(f.records) /\ count <= f.count /\ count <= MaxRecords
  BY <1>1, ServicesAssumption DEF FrameIs
<1>3. ASSUME NEW i \in Nat, i <= Len(f.records), i <= f.count PROVE i <= count
  BY <1>3, Zenon
<1>4. Feed!Parsed(n) = Feed!Kept(list, set)
  BY Zenon DEF Feed!Parsed, Feed!GoodItems
<1> HIDE DEF count, f
<1>5. list \in Seq(Item) /\ Len(list) = count
  <2>1. list \in [1 .. count -> Item]
    BY <1>2 DEF Item
  <2> HIDE DEF list
  <2> QED BY <2>1, <1>2, ListOf
<1>6. \A i \in 1 .. count : list[i] = <<n, i>>
  OBVIOUS
<1>7. \A i \in 1 .. count : <<n, i>> \in set <=> f.records[i] = "good"
  OBVIOUS
<1> DEFINE k == Feed!Kept(list, set)
<1> HIDE DEF list, set
<1>8. k \in Seq(Item) /\ IsKept(list, set, count, k)
  <2>1. k \in Seq(Item) /\ IsKept(list, set, Len(list), k)
    BY <1>5, FeedKeptOk
  <2> QED BY <2>1, <1>5
<1> HIDE DEF k
<1>9. PICK at \in [1 .. Len(k) -> 1 .. count] :
        /\ \A p, q \in 1 .. Len(k) : p < q => at[p] < at[q]
        /\ \A p \in 1 .. Len(k) : k[p] = list[at[p]] /\ k[p] \in set
        /\ \A j \in 1 .. count : list[j] \in set => \E p \in 1 .. Len(k) : at[p] = j
  BY <1>8 DEF IsKept
<1>10. ASSUME NEW p \in 1 .. Len(k)
       PROVE  k[p] = <<n, at[p]>> /\ at[p] \in 1 .. count /\ f.records[at[p]] = "good"
  <2>1. at[p] \in 1 .. count
    OBVIOUS
  <2>2. k[p] = list[at[p]] /\ k[p] \in set
    BY <1>9
  <2>3. k[p] = <<n, at[p]>>
    BY <2>1, <2>2, <1>6
  <2> QED BY <2>1, <2>2, <2>3, <1>7
<1>11. Sorted(k)
  BY <1>2, <1>9, <1>10 DEF Sorted, Feed!Before
<1>12. ASSUME NEW p \in 1 .. Len(k) PROVE k[p][1] = n /\ k[p][2] \in DueOf(n)
  <2>1. at[p] \in 1 .. MaxRecords /\ at[p] <= Len(f.records) /\ at[p] <= f.count
    <3>1. at[p] \in Nat /\ at[p] >= 1 /\ at[p] <= count
      BY <1>2, <1>9
    <3>2. Len(f.records) \in Nat /\ f.count \in Nat
      BY <1>1, ServicesAssumption DEF FrameIs
    <3> QED BY <1>2, <3>1, <3>2, ServicesAssumption
  <2> QED BY <2>1, <1>10 DEF DueOf, f
<1>13. ASSUME NEW i \in DueOf(n) PROVE \E p \in 1 .. Len(k) : k[p] = <<n, i>>
  <2>1. i \in 1 .. MaxRecords /\ i <= Len(f.records) /\ i <= f.count /\ f.records[i] = "good"
    BY DEF DueOf, f
  <2>2. i \in 1 .. count
    BY <2>1, <1>2, <1>3, ServicesAssumption
  <2>3. PICK p \in 1 .. Len(k) : at[p] = i
    BY <2>1, <2>2, <1>6, <1>7, <1>9
  <2> QED BY <2>3, <1>10
<1> QED BY <1>4, <1>8, <1>11, <1>12, <1>13 DEF k

\* What is owed is what the frames read so far owe.
LEMMA DueIs == \A x : x \in Feed!Due <=> /\ x \in (1 .. read) \X (1 .. MaxRecords)
                                   /\ x[2] \in DueOf(x[1])
  BY DEF Feed!Due, DueOf

\* Step by step: only ReadFrame and Publish change what the promise is about.
LEMMA ReadKeeps ==
  ASSUME FeedInv, Feed!ReadFrame
  PROVE  FeedInv'
<1> DEFINE n == read + 1
<1>1. /\ stream = "reading" /\ read < Len(frames) /\ read' = n /\ todo = <<>>
      /\ UNCHANGED <<frames, open, onRedis, pongs>>
  BY DEF Feed!ReadFrame, FeedInv
<1>2. /\ frames \in Seq(Feed!Frames) /\ read \in Nat /\ read \in 0 .. Len(frames)
      /\ onRedis \in Seq(Item) /\ Sorted(onRedis)
      /\ \A i \in 1 .. Len(onRedis) : onRedis[i] \in Feed!Due
      /\ \A x \in Feed!Due : \E i \in 1 .. Len(onRedis) : onRedis[i] = x
  <2>1. Len(todo) = 0
    BY <1>1
  <2> QED BY <1>1, <2>1 DEF FeedInv
<1>3. n \in DOMAIN frames /\ n \in Nat /\ frames[n] \in Feed!Frames /\ FrameIs(frames[n])
  <2>1. n \in DOMAIN frames /\ n \in Nat /\ frames[n] \in Feed!Frames
    BY <1>1, <1>2
  <2> QED BY <2>1, FrameType
<1>4. \A x : x \in Feed!Due' <=> x \in Feed!Due \/ \E i \in DueOf(n) : x = <<n, i>>
  <2>1. \A x : x \in Feed!Due' <=> x \in (1 .. n) \X (1 .. MaxRecords) /\ x[2] \in DueOf(x[1])
    BY <1>1 DEF Feed!Due, DueOf
  <2>2. \A i \in DueOf(n) : i \in 1 .. MaxRecords
    BY DEF DueOf
  <2>3. (1 .. n) = (1 .. read) \cup {n} /\ n \notin 1 .. read
    BY <1>2
  <2> HIDE DEF n
  <2> QED BY <2>1, <2>2, <2>3, DueIs
<1>5. \A x \in Feed!Due : x \in Item /\ x[1] <= read
  BY <1>2, ServicesAssumption DEF Feed!Due, Item
<1> DEFINE Quiet == todo' = <<>> /\ stream' \in {"reading", "ponging"} /\ DueOf(n) = {}
           Crash == todo' = <<>> /\ stream' = "crashed"
           Fine  == todo' = Feed!Parsed(n) /\ stream' = "publishing"
<1>6. Quiet \/ Crash \/ Fine
  <2>1. CASE frames[n].kind \in {"ping", "other"}
    <3>1. frames[n].count = 0
      BY <2>1, <1>3 DEF FrameIs
    <3>2. DueOf(n) = {}
      BY <3>1, ServicesAssumption DEF DueOf
    <3> QED BY <1>1, <2>1, <3>2 DEF Feed!ReadFrame
  <2>2. CASE frames[n].kind \notin {"ping", "other"}
    BY <1>1, <2>2 DEF Feed!ReadFrame
  <2> QED BY <2>1, <2>2
<1> HIDE DEF n
<1>7. read' \in 0 .. Len(frames') /\ onRedis' = onRedis /\ frames' = frames
  BY <1>1, <1>2, <1>3 DEF n
<1>8. \A i \in 1 .. Len(onRedis) : onRedis[i] \in Feed!Due'
  BY <1>2, <1>4
<1>9. CASE Quiet \/ Crash
  <2>1. todo' = <<>> /\ Len(todo') = 0 /\ todo' \in Seq(Item)
    BY <1>9, EmptySeq
  <2>2. stream' # "crashed" => \A x \in Feed!Due' : x \in Feed!Due
    BY <1>4, <1>9
  <2>3. stream' \in {"reading", "ponging", "crashed"}
    BY <1>9
  <2>4. Sorted(onRedis)'
    <3>1. onRedis' = onRedis /\ Sorted(onRedis)
      BY <1>2, <1>7
    <3> QED BY ONLY <3>1 DEF Sorted, Feed!Before
  <2>5. Sorted(todo)'
    BY <2>1 DEF Sorted, Feed!Before
  <2>6. open' \in BOOLEAN /\ pongs' \in Nat
    BY <1>1 DEF FeedInv
  <2> QED BY <1>1, <1>2, <1>7, <1>8, <2>1, <2>2, <2>3, <2>4, <2>5, <2>6 DEF FeedInv
<1>10. CASE Fine
  <2>1. /\ todo' \in Seq(Item) /\ Sorted(Feed!Parsed(n))
        /\ \A j \in 1 .. Len(todo') : todo'[j][1] = n /\ todo'[j][2] \in DueOf(n)
        /\ \A i \in DueOf(n) : \E j \in 1 .. Len(todo') : todo'[j] = <<n, i>>
    BY <1>3, <1>10, ParsedIsDue
  <2>2. \A j \in 1 .. Len(todo') : todo'[j] \in Feed!Due' /\ todo'[j][1] = read'
    <3>1. \A x \in Item : x = <<x[1], x[2]>>
      BY DEF Item
    <3>2. \A j \in 1 .. Len(todo') : todo'[j] \in Item
      BY <2>1
    <3> QED BY <3>1, <3>2, <2>1, <1>1, <1>4 DEF n
  <2>3. Sorted(todo)'
    <3>1. todo' = Feed!Parsed(n) /\ Sorted(Feed!Parsed(n))
      BY <2>1, <1>10
    <3>2. Sorted(todo')
      BY ONLY <3>1, Zenon
    <3> QED BY ONLY <3>2 DEF Sorted, Feed!Before
  <2>4. Sorted(onRedis)'
    <3>1. onRedis' = onRedis /\ Sorted(onRedis)
      BY <1>2, <1>7
    <3> QED BY ONLY <3>1 DEF Sorted, Feed!Before
  <2>5. ASSUME NEW i \in 1 .. Len(onRedis'), NEW j \in 1 .. Len(todo')
        PROVE  Feed!Before(onRedis[i], todo[j])'
    <3>1. onRedis[i] \in Feed!Due /\ todo'[j][1] = n
      BY <1>2, <1>7, <2>1, <2>5
    <3>2. onRedis[i][1] \in Nat /\ onRedis[i][1] <= read
      BY <3>1, <1>5 DEF Item
    <3>3. onRedis[i][1] < todo'[j][1]
      BY <3>1, <3>2, <1>2 DEF n
    <3> QED BY <3>3, <1>7 DEF Feed!Before
  <2>6. ASSUME NEW x \in Feed!Due'
        PROVE  \/ \E i \in 1 .. Len(onRedis') : onRedis'[i] = x
               \/ \E j \in 1 .. Len(todo') : todo'[j] = x
    <3>1. CASE x \in Feed!Due
      BY <3>1, <1>2, <1>7
    <3>2. CASE \E i \in DueOf(n) : x = <<n, i>>
      BY <3>2, <2>1
    <3> QED BY <3>1, <3>2, <1>4
  <2>7. open' \in BOOLEAN /\ pongs' \in Nat /\ stream' = "publishing"
    BY <1>1, <1>10 DEF FeedInv
  <2> QED BY <1>2, <1>7, <1>8, <2>1, <2>2, <2>3, <2>4, <2>5, <2>6, <2>7 DEF FeedInv
<1> QED BY <1>6, <1>9, <1>10

LEMMA PublishKeeps ==
  ASSUME FeedInv, Feed!Publish
  PROVE  FeedInv'
<1> DEFINE h == Head(todo)
<1>1. /\ todo # <<>> /\ onRedis' = Append(onRedis, h) /\ todo' = Tail(todo)
      /\ stream' \in {"observing", "publishing"} /\ stream = "publishing"
      /\ UNCHANGED <<frames, open, read, pongs>>
  BY DEF Feed!Publish
<1>2. /\ frames \in Seq(Feed!Frames) /\ onRedis \in Seq(Item) /\ todo \in Seq(Item)
      /\ \A j \in 1 .. Len(todo) : todo[j][1] = read
      /\ Sorted(onRedis) /\ Sorted(todo)
      /\ \A i \in 1 .. Len(onRedis), j \in 1 .. Len(todo) : Feed!Before(onRedis[i], todo[j])
      /\ \A i \in 1 .. Len(onRedis) : onRedis[i] \in Feed!Due
      /\ \A j \in 1 .. Len(todo) : todo[j] \in Feed!Due
      /\ \A x \in Feed!Due : \/ \E i \in 1 .. Len(onRedis) : onRedis[i] = x
                        \/ \E j \in 1 .. Len(todo) : todo[j] = x
  BY <1>1 DEF FeedInv
<1>3. /\ h = todo[1] /\ Len(todo) \in Nat /\ Len(todo) >= 1 /\ h \in Item
      /\ Len(todo') = Len(todo) - 1 /\ todo' \in Seq(Item)
      /\ \A j \in 1 .. Len(todo') : j + 1 \in 1 .. Len(todo) /\ todo'[j] = todo[j + 1]
      /\ \A j \in 1 .. Len(todo) : j = 1 \/ (j - 1 \in 1 .. Len(todo') /\ todo'[j - 1] = todo[j])
  BY <1>1, <1>2
<1> HIDE DEF h
<1>4. /\ Len(onRedis) \in Nat /\ onRedis' \in Seq(Item)
      /\ Len(onRedis') = Len(onRedis) + 1 /\ onRedis'[Len(onRedis')] = h
      /\ \A i \in 1 .. Len(onRedis) : onRedis'[i] = onRedis[i]
      /\ \A i \in 1 .. Len(onRedis') : i \in 1 .. Len(onRedis) \/ i = Len(onRedis')
  BY <1>1, <1>2, <1>3
<1>5. Feed!Due' = Feed!Due
  BY <1>1 DEF Feed!Due
<1>6. Sorted(onRedis)'
  <2>1. ASSUME NEW i \in 1 .. Len(onRedis'), NEW j \in 1 .. Len(onRedis'), i < j
        PROVE  Feed!Before(onRedis'[i], onRedis'[j])
    <3>1. i \in 1 .. Len(onRedis)
      BY <2>1, <1>4
    <3>2. CASE j \in 1 .. Len(onRedis)
      BY <2>1, <3>1, <3>2, <1>2, <1>4 DEF Sorted
    <3>3. CASE j = Len(onRedis')
      <4>1. Feed!Before(onRedis[i], todo[1])
        BY <3>1, <1>2, <1>3
      <4> QED BY <4>1, <3>1, <3>3, <1>3, <1>4
    <3> QED BY <3>2, <3>3, <1>4
  <2> QED BY <2>1 DEF Sorted, Feed!Before
<1>7. Sorted(todo)'
  <2>1. ASSUME NEW i \in 1 .. Len(todo'), NEW j \in 1 .. Len(todo'), i < j
        PROVE  Feed!Before(todo'[i], todo'[j])
    <3>1. i + 1 \in 1 .. Len(todo) /\ j + 1 \in 1 .. Len(todo) /\ i + 1 < j + 1
      BY <2>1, <1>3
    <3>2. Feed!Before(todo[i + 1], todo[j + 1])
      BY <3>1, <1>2 DEF Sorted
    <3> QED BY <3>2, <1>3
  <2> QED BY <2>1 DEF Sorted, Feed!Before
<1>8. ASSUME NEW i \in 1 .. Len(onRedis'), NEW j \in 1 .. Len(todo')
      PROVE  Feed!Before(onRedis'[i], todo'[j])
  <2>1. j + 1 \in 1 .. Len(todo) /\ todo'[j] = todo[j + 1] /\ 1 < j + 1 /\ 1 \in 1 .. Len(todo)
    BY <1>3
  <2>2. CASE i \in 1 .. Len(onRedis)
    BY <2>1, <2>2, <1>2, <1>4
  <2>3. CASE i = Len(onRedis')
    <3>1. Feed!Before(todo[1], todo[j + 1])
      BY <2>1, <1>2 DEF Sorted
    <3> QED BY <3>1, <2>1, <2>3, <1>3, <1>4
  <2> QED BY <2>2, <2>3, <1>4
<1>9. ASSUME NEW i \in 1 .. Len(onRedis') PROVE onRedis'[i] \in Feed!Due'
  <2>1. CASE i \in 1 .. Len(onRedis)
    BY <2>1, <1>2, <1>4, <1>5
  <2>2. CASE i = Len(onRedis')
    <3>1. h \in Feed!Due
      BY <1>2, <1>3
    <3> QED BY <3>1, <2>2, <1>4, <1>5
  <2> QED BY <2>1, <2>2, <1>4
<1>10. \A j \in 1 .. Len(todo') : todo'[j] \in Feed!Due' /\ todo'[j][1] = read'
  BY <1>1, <1>2, <1>3, <1>5
<1>11. ASSUME NEW x \in Feed!Due'
       PROVE  \/ \E i \in 1 .. Len(onRedis') : onRedis'[i] = x
              \/ \E j \in 1 .. Len(todo') : todo'[j] = x
  <2>1. CASE \E i \in 1 .. Len(onRedis) : onRedis[i] = x
    <3>1. PICK i \in 1 .. Len(onRedis) : onRedis[i] = x
      BY <2>1
    <3>2. i \in 1 .. Len(onRedis') /\ onRedis'[i] = x
      BY <3>1, <1>4
    <3> QED BY <3>2
  <2>2. CASE \E j \in 1 .. Len(todo) : todo[j] = x
    <3>1. PICK j \in 1 .. Len(todo) : todo[j] = x
      BY <2>2
    <3>2. CASE j = 1
      <4>1. Len(onRedis') \in 1 .. Len(onRedis') /\ onRedis'[Len(onRedis')] = x
        BY <3>1, <3>2, <1>3, <1>4
      <4> QED BY <4>1
    <3>3. CASE j # 1
      BY <3>1, <3>3, <1>3
    <3> QED BY <3>2, <3>3
  <2> QED BY <2>1, <2>2, <1>2, <1>5
<1>12. open' \in BOOLEAN /\ read' \in 0 .. Len(frames') /\ pongs' \in Nat /\ frames' \in Seq(Feed!Frames)
  BY <1>1 DEF FeedInv
<1>13. /\ stream' \in {"reading", "ponging", "publishing", "observing", "ended", "crashed"}
       /\ stream' \notin {"reading", "ponging", "ended", "crashed"}
  BY <1>1
<1>14. \A i \in 1 .. Len(onRedis'), j \in 1 .. Len(todo') : Feed!Before(onRedis[i], todo[j])'
  BY <1>8 DEF Feed!Before
<1> QED BY <1>3, <1>4, <1>6, <1>7, <1>9, <1>10, <1>11, <1>12, <1>13, <1>14 DEF FeedInv

\* The steps that change neither the items nor the frames read.
LEMMA FeedOthersKeep ==
  ASSUME FeedInv, UNCHANGED <<read, todo, onRedis>>,
         frames' \in Seq(Feed!Frames), read \in 0 .. Len(frames'), \A n \in 1 .. read : frames'[n] = frames[n],
         open' \in BOOLEAN, pongs' \in Nat,
         stream' \in {"reading", "ponging", "publishing", "observing", "ended", "crashed"},
         stream' # "crashed" => stream # "crashed",
         stream' \in {"reading", "ponging", "ended"} => todo = <<>>
  PROVE  FeedInv'
<1>1. Feed!Due' = Feed!Due
  <2>1. Feed!Due' = {x \in (1 .. read) \X (1 .. MaxRecords) :
                 LET f == frames'[x[1]]
                 IN x[2] <= Len(f.records) /\ x[2] <= f.count /\ f.records[x[2]] = "good"}
    BY DEF Feed!Due
  <2> QED BY <2>1 DEF Feed!Due
<1>2. /\ onRedis \in Seq(Item) /\ todo \in Seq(Item)
      /\ \A j \in 1 .. Len(todo) : todo[j][1] = read
      /\ Sorted(onRedis) /\ Sorted(todo)
      /\ \A i \in 1 .. Len(onRedis), j \in 1 .. Len(todo) : Feed!Before(onRedis[i], todo[j])
      /\ \A i \in 1 .. Len(onRedis) : onRedis[i] \in Feed!Due
      /\ \A j \in 1 .. Len(todo) : todo[j] \in Feed!Due
      /\ stream # "crashed" =>
          \A x \in Feed!Due : \/ \E i \in 1 .. Len(onRedis) : onRedis[i] = x
                         \/ \E j \in 1 .. Len(todo) : todo[j] = x
  BY DEF FeedInv
<1>3. Sorted(onRedis)' /\ Sorted(todo)'
  BY <1>2 DEF Sorted, Feed!Before
<1>4. onRedis' = onRedis /\ todo' = todo
  OBVIOUS
<1>5. \A i \in 1 .. Len(onRedis), j \in 1 .. Len(todo) : Feed!Before(onRedis'[i], todo'[j])
  BY <1>2, <1>4, Zenon
<1>6. \A i \in 1 .. Len(onRedis'), j \in 1 .. Len(todo') : Feed!Before(onRedis[i], todo[j])'
  BY <1>4, <1>5, Zenon DEF Feed!Before
<1> QED BY <1>6, <1>1, <1>2, <1>3, <1>4 DEF FeedInv

LEMMA FeedStep == FeedInv /\ [Feed!Next]_(Feed!vars) => FeedInv'
<1> SUFFICES ASSUME FeedInv, [Feed!Next]_(Feed!vars) PROVE FeedInv'
  OBVIOUS
<1>0. /\ frames \in Seq(Feed!Frames) /\ open \in BOOLEAN /\ pongs \in Nat /\ read \in 0 .. Len(frames)
      /\ stream \in {"reading", "ponging", "publishing", "observing", "ended", "crashed"}
      /\ stream \in {"reading", "ponging", "ended"} => todo = <<>>
  BY DEF FeedInv
<1>1. CASE Feed!ReadFrame
  BY <1>1, ReadKeeps
<1>2. CASE Feed!Publish
  BY <1>2, PublishKeeps
<1>3. CASE Feed!Pong
  BY <1>0, <1>3, FeedOthersKeep DEF Feed!Pong
<1>4. CASE Feed!FrameDone
  BY <1>0, <1>4, FeedOthersKeep DEF Feed!FrameDone
<1>5. CASE Feed!PublishRaises
  BY <1>0, <1>5, FeedOthersKeep DEF Feed!PublishRaises
<1>6. CASE Feed!Observe
  BY <1>0, <1>6, FeedOthersKeep DEF Feed!Observe
<1>7. CASE Feed!StreamEnds
  BY <1>0, <1>7, FeedOthersKeep DEF Feed!StreamEnds
<1>8. CASE Feed!Closes
  BY <1>0, <1>8, FeedOthersKeep DEF Feed!Closes
<1>9. ASSUME NEW f \in Feed!Frames, Feed!Sends(f) PROVE FeedInv'
  <2>1. frames' = Append(frames, f) /\ UNCHANGED <<open, read, todo, onRedis, pongs, stream>>
    BY <1>9 DEF Feed!Sends
  <2>2. /\ frames' \in Seq(Feed!Frames) /\ Len(frames') = Len(frames) + 1
        /\ \A n \in 1 .. Len(frames) : frames'[n] = frames[n]
    BY <1>0, <2>1
  <2>3. read \in 0 .. Len(frames') /\ \A n \in 1 .. read : frames'[n] = frames[n]
    BY <1>0, <2>2
  <2> QED BY <1>0, <2>1, <2>2, <2>3, FeedOthersKeep
<1>10. CASE UNCHANGED Feed!vars
  BY <1>0, <1>10, FeedOthersKeep DEF Feed!vars
<1> QED BY <1>1, <1>2, <1>3, <1>4, <1>5, <1>6, <1>7, <1>8, <1>9, <1>10 DEF Feed!Next, Feed!Handles

LEMMA FeedHolds == FeedInv => Feed!TypeOK /\ Feed!RecordsInOrder
<1> SUFFICES ASSUME FeedInv PROVE Feed!TypeOK /\ Feed!RecordsInOrder
  OBVIOUS
<1>1. onRedis \in Seq(Item) /\ todo \in Seq(Item)
  BY DEF FeedInv
<1>2. DOMAIN onRedis = 1 .. Len(onRedis) /\ DOMAIN todo = 1 .. Len(todo)
  BY <1>1
<1>3. Feed!TypeOK
  BY <1>2 DEF FeedInv, Feed!TypeOK
<1>4. \A i, j \in DOMAIN onRedis : i < j => Feed!Before(onRedis[i], onRedis[j])
  BY <1>2 DEF FeedInv, Sorted
<1>5. \A i \in DOMAIN onRedis : onRedis[i] \in Feed!Due
  BY <1>2 DEF FeedInv
<1>6. ASSUME stream \in {"reading", "ponging", "ended"}
      PROVE  Feed!Due = {onRedis[i] : i \in DOMAIN onRedis}
  <2>1. todo = <<>> /\ Len(todo) = 0
    BY <1>6 DEF FeedInv
  <2>2. \A x \in Feed!Due : \E i \in 1 .. Len(onRedis) : onRedis[i] = x
    BY <1>6, <2>1 DEF FeedInv
  <2> QED BY <2>2, <1>2, <1>5
<1> QED BY <1>3, <1>4, <1>5, <1>6 DEF Feed!RecordsInOrder

-----------------------------------------------------------------------------
\* A connection's frame; the stages in which neither task runs, and those without a subscription.
Connection ==
  [pc : {"new", "accepted", "rejected", "streaming", "reaping",
         "unsubscribing", "closing", "done"},
   forward : {"none", "running", "ended"}, detect : {"none", "running", "ended"},
   sub : BOOLEAN, inbox : Nat, gone : BOOLEAN]

ConnectionOk(f) ==
  /\ f \in Connection
  /\ f.pc \notin {"streaming", "reaping"} => f.forward # "running" /\ f.detect # "running"
  /\ f.pc \notin {"streaming", "reaping", "unsubscribing", "closing"} => ~f.sub

StreamInv ==
  /\ sent \in Nat
  /\ conn = [c \in Conns |-> conn[c]]
  /\ \A c \in Conns : ConnectionOk(conn[c])

\* A step of one connection.
LEMMA OneConnection ==
  ASSUME StreamInv, sent' = sent, NEW c \in Conns, NEW g, ConnectionOk(g),
         conn' = [conn EXCEPT ![c] = g]
  PROVE  StreamInv'
  BY DEF StreamInv

LEMMA StreamStep == ASSUME StreamInv, [Stream!Next]_(Stream!vars) PROVE StreamInv'
<1>1. CASE UNCHANGED Stream!vars
  BY <1>1 DEF Stream!vars, StreamInv
<1>2. CASE Stream!Message
  <2>1. \A f : ConnectionOk(f) => ConnectionOk([f EXCEPT !.inbox = f.inbox + 1])
    BY DEF ConnectionOk, Connection
  <2>2. ASSUME NEW c \in Conns PROVE ConnectionOk(conn'[c])
    <3>1. conn'[c] = IF conn[c].sub THEN [conn[c] EXCEPT !.inbox = conn[c].inbox + 1] ELSE conn[c]
      BY <1>2 DEF Stream!Message
    <3> QED BY <2>1, <3>1 DEF StreamInv
  <2> QED BY <1>2, <2>2 DEF Stream!Message, StreamInv
<1>3. ASSUME NEW c \in Conns,
             \/ Stream!Connect(c) \/ Stream!ClientLeaves(c) \/ Stream!RedisDrops(c) \/ Stream!DetectEnds(c)
             \/ Stream!Forward(c) \/ Stream!ForwardEnds(c) \/ Stream!Progress(c)
      PROVE  StreamInv'
  <2> DEFINE f == conn[c]
  <2>1. ConnectionOk(f) /\ sent' = sent
    BY <1>3 DEF StreamInv, Stream!Connect, Stream!ClientLeaves, Stream!RedisDrops,
      Stream!DetectEnds, Stream!Forward, Stream!ForwardEnds, Stream!Progress,
      Stream!Subscribe, Stream!SubscribeRaises, Stream!WaitReturns, Stream!Reap,
      Stream!Unsubscribe, Stream!ClosePubsub, Stream!Goes
  <2>2. SUFFICES \E g : ConnectionOk(g) /\ conn' = [conn EXCEPT ![c] = g]
    BY <2>1, OneConnection
  <2>3. CASE Stream!Connect(c) \/ Stream!SubscribeRaises(c) \/ Stream!WaitReturns(c)
    <3>1. PICK pc : /\ conn' = [conn EXCEPT ![c] = [f EXCEPT !.pc = pc]]
                    /\ \/ f.pc = "new" /\ pc \in {"accepted", "rejected"}
                       \/ f.pc = "accepted" /\ pc = "done"
                       \/ f.pc = "streaming" /\ pc = "reaping"
      BY <2>3 DEF Stream!Connect, Stream!SubscribeRaises, Stream!WaitReturns, Stream!Goes
    <3>2. ConnectionOk([f EXCEPT !.pc = pc])
      BY <2>1, <3>1 DEF ConnectionOk, Connection
    <3> QED BY <3>1, <3>2
  <2>4. CASE Stream!Subscribe(c)
    <3> DEFINE g == [f EXCEPT !.pc = "streaming", !.sub = TRUE, !.forward = "running", !.detect = "running"]
    <3>1. conn' = [conn EXCEPT ![c] = g]
      BY <2>4 DEF Stream!Subscribe
    <3>2. ConnectionOk(g)
      BY <2>1, <2>4 DEF ConnectionOk, Connection
    <3> QED BY <3>1, <3>2
  <2>5. CASE Stream!ClientLeaves(c) \/ Stream!Forward(c)
    <3> DEFINE g1 == [f EXCEPT !.gone = TRUE]
               g2 == [f EXCEPT !.inbox = f.inbox - 1]
    <3>1. CASE Stream!ClientLeaves(c)
      <4>1. conn' = [conn EXCEPT ![c] = g1]
        BY <3>1 DEF Stream!ClientLeaves
      <4>2. ConnectionOk(g1)
        BY <2>1 DEF ConnectionOk, Connection
      <4> QED BY <4>1, <4>2
    <3>2. CASE Stream!Forward(c)
      <4>1. conn' = [conn EXCEPT ![c] = g2] /\ f.inbox > 0
        BY <3>2 DEF Stream!Forward
      <4>2. f.inbox - 1 \in Nat
        BY <2>1, <4>1 DEF ConnectionOk, Connection
      <4>3. ASSUME NEW n \in Nat PROVE ConnectionOk([f EXCEPT !.inbox = n])
        BY <2>1 DEF ConnectionOk, Connection
      <4> QED BY <4>1, <4>2, <4>3
    <3> QED BY <2>5, <3>1, <3>2
  <2>6. CASE Stream!ForwardEnds(c) \/ Stream!RedisDrops(c) \/ Stream!DetectEnds(c)
    <3> DEFINE g1 == [f EXCEPT !.forward = "ended"]
               g2 == [f EXCEPT !.forward = "ended", !.sub = FALSE]
               g3 == [f EXCEPT !.detect = "ended"]
    <3>1. \/ conn' = [conn EXCEPT ![c] = g1] \/ conn' = [conn EXCEPT ![c] = g2]
          \/ conn' = [conn EXCEPT ![c] = g3]
      BY <2>6 DEF Stream!ForwardEnds, Stream!RedisDrops, Stream!DetectEnds
    <3>2. ConnectionOk(g1) /\ ConnectionOk(g2) /\ ConnectionOk(g3)
      BY <2>1 DEF ConnectionOk, Connection
    <3> QED BY <3>1, <3>2
  <2>7. CASE Stream!Reap(c)
    <3> DEFINE g == [f EXCEPT !.pc = "unsubscribing", !.forward = "ended", !.detect = "ended"]
    <3>1. conn' = [conn EXCEPT ![c] = g]
      BY <2>7 DEF Stream!Reap
    <3>2. ConnectionOk(g)
      BY <2>1 DEF ConnectionOk, Connection
    <3> QED BY <3>1, <3>2
  <2>8. CASE Stream!Unsubscribe(c)
    <3>1. PICK s \in {FALSE, f.sub} : conn' = [conn EXCEPT ![c].pc = "closing", ![c].sub = s]
      BY <2>8 DEF Stream!Unsubscribe
    <3> DEFINE g == [f EXCEPT !.pc = "closing", !.sub = s]
    <3>2. conn' = [conn EXCEPT ![c] = g]
      BY <3>1
    <3>3. ConnectionOk(g)
      BY <2>1, <2>8 DEF ConnectionOk, Connection, Stream!Unsubscribe
    <3> QED BY <3>2, <3>3
  <2>9. CASE Stream!ClosePubsub(c)
    <3> DEFINE g == [f EXCEPT !.pc = "done", !.sub = FALSE]
    <3>1. conn' = [conn EXCEPT ![c] = g]
      BY <2>9 DEF Stream!ClosePubsub
    <3>2. ConnectionOk(g)
      BY <2>1, <2>9 DEF ConnectionOk, Connection, Stream!ClosePubsub
    <3> QED BY <3>1, <3>2
  <2> QED BY <1>3, <2>3, <2>4, <2>5, <2>6, <2>7, <2>8, <2>9 DEF Stream!Progress
<1> QED BY <1>1, <1>2, <1>3 DEF Stream!Next

LEMMA StreamStart == ASSUME Stream!Init PROVE StreamInv
<1>1. ConnectionOk(Stream!NewConn)
  BY DEF ConnectionOk, Connection, Stream!NewConn
<1> QED BY <1>1, Zenon DEF Stream!Init, StreamInv

LEMMA StreamHolds == ASSUME StreamInv PROVE Stream!TypeOK /\ Stream!NoOrphans
  BY DEF StreamInv, ConnectionOk, Connection, Stream!TypeOK, Stream!NoOrphans

-----------------------------------------------------------------------------
\* No verdict before the request is sent, no answer before the last step.
FrameInv(r) ==
  /\ desk[r].pc = "idle" => desk[r].verdict = "none"
  /\ desk[r].pc # "answered" => desk[r].answer = "none"

\* How far the clock may run while the loop sleeps or asks.
LoopInv ==
  /\ loop = "sleeping" => loopTime <= now /\ now <= loopTime + Interval
  /\ loop = "asking" => loopTime <= now /\ now <= loopTime + 1

\* What is left of the token at the moment the loop went to sleep or to ask.
TokenInv ==
  client = "kis" /\ ~failed =>
    /\ loop = "sleeping" => expires > loopTime + Headroom
    /\ loop = "asking" => expires + Interval > loopTime + Headroom

AnswersInv == Order!TypeOK /\ Order!AnswersAreTrue /\ \A r \in Orders : FrameInv(r)

TimesInv == Order!TypeOK /\ LoopInv /\ TokenInv

-----------------------------------------------------------------------------
\* The parts of TypeOK: a request's frame, and the token with its loop.
DeskFrames ==
  [pc : {"idle", "posted", "replied", "answered"},
   kind : Order!Kinds \cup {"none"}, token : Nat,
   verdict : {"none", "done", "refused", "unauthorised"},
   answer : {"none", "mock", "invalid", "accepted", "rejected",
             "unauthorised", "unavailable", "error"}]

TokenType ==
  /\ now \in 0..MaxNow /\ client \in {"none", "kis"}
  /\ expires \in Nat /\ loop \in {"sleeping", "asking", "stopped"}
  /\ loopTime \in Nat
  /\ client = "none" => loop = "stopped"

LEMMA DeskParts ==
  Order!TypeOK <=> TokenType /\ failed \in BOOLEAN /\ desk \in [Orders -> DeskFrames]
  BY Zenon DEF Order!TypeOK, TokenType, DeskFrames

LEMMA DeskStart == ASSUME Order!TimesOk, MaxNow \in Nat, Order!Init PROVE Order!TypeOK
<1>1. TokenType
  BY DEF Order!TimesOk, Order!Init, TokenType
<1>2. failed \in BOOLEAN
  BY Zenon DEF Order!Init
<1>3. desk \in [Orders -> DeskFrames]
  BY DEF Order!Init, Order!Idle, DeskFrames, Order!Kinds
<1> QED BY <1>1, <1>2, <1>3, DeskParts

\* Every action keeps the types: one step per action, the requests' together.
LEMMA DeskStep ==
  ASSUME Order!TimesOk, MaxNow \in Nat, Order!TypeOK, [Order!Next]_(Order!vars)
  PROVE  Order!TypeOK'
<1> USE DEF Order!TypeOK, Order!TimesOk, Order!Kinds
<1>1. CASE Order!TimePasses
  BY <1>1 DEF Order!TimePasses, Order!tokenVars
<1>2. CASE Order!LoopWakes
  BY <1>2 DEF Order!LoopWakes
<1>3. CASE Order!RefreshSucceeds
  <2>1. TokenType' /\ desk' \in [Orders -> DeskFrames]
    BY <1>3, DeskParts DEF Order!RefreshSucceeds, TokenType
  <2>2. failed' \in BOOLEAN
    BY <1>3, Zenon DEF Order!RefreshSucceeds
  <2> QED BY ONLY <2>1, <2>2, Zenon DEF Order!TypeOK, TokenType, DeskFrames
<1>4. CASE Order!RefreshFails
  BY <1>4 DEF Order!RefreshFails
<1>5. CASE Order!Failover
  BY <1>5 DEF Order!Failover
<1>6. ASSUME NEW r \in Orders, Order!MockAnswer(r) \/ Order!Invalid(r) \/ Order!Post(r)
      PROVE  Order!TypeOK'
  BY <1>6 DEF Order!MockAnswer, Order!Invalid, Order!Post, Order!NewRequest,
    Order!AnsweredAtOnce, Order!tokenVars
<1>7. ASSUME NEW r \in Orders, Order!KisDecides(r) \/ Order!PostFails(r)
      PROVE  Order!TypeOK'
  BY <1>7 DEF Order!KisDecides, Order!Verdict, Order!PostFails, Order!Answered, Order!tokenVars
<1>8. ASSUME NEW r \in Orders, Order!ReplyParsed(r) \/ Order!ReplyLost(r) \/ Order!ReplyMalformed(r)
      PROVE  Order!TypeOK'
  BY <1>8 DEF Order!ReplyParsed, Order!ReplyLost, Order!ReplyMalformed, Order!ToAnswer,
    Order!Answered, Order!tokenVars
<1>9. CASE UNCHANGED Order!vars
  BY <1>9 DEF Order!vars, Order!tokenVars
<1> QED BY <1>1, <1>2, <1>3, <1>4, <1>5, <1>6, <1>7, <1>8, <1>9 DEF Order!Next, Order!Progress

-----------------------------------------------------------------------------
\* The requests' part of the invariant: the token's actions leave it alone, and of the
\* requests' actions only the one that answers is new to AnswersAreTrue.
LEMMA AnswersStep ==
  ASSUME Order!TimesOk, MaxNow \in Nat, AnswersInv, [Order!Next]_(Order!vars)
  PROVE  AnswersInv'
<1>1. Order!TypeOK'
  BY DeskStep DEF AnswersInv
<1> USE DEF AnswersInv, Order!AnswersAreTrue, FrameInv, Order!Placed, Order!TypeOK
<1>2. ASSUME UNCHANGED desk PROVE AnswersInv'
  BY <1>1, <1>2
<1>3. ASSUME NEW r \in Orders, Order!NewRequest(r), NEW kind, NEW answer \in {"mock", "invalid"},
             Order!AnsweredAtOnce(r, kind, answer)
      PROVE  AnswersInv'
  BY <1>1, <1>3 DEF Order!NewRequest, Order!AnsweredAtOnce
<1>4. ASSUME NEW r \in Orders, Order!Post(r) PROVE AnswersInv'
  BY <1>1, <1>4 DEF Order!Post, Order!NewRequest
<1>5. ASSUME NEW r \in Orders, Order!KisDecides(r) PROVE AnswersInv'
  BY <1>1, <1>5 DEF Order!KisDecides, Order!Verdict
<1>6. ASSUME NEW r \in Orders, Order!ReplyParsed(r) PROVE AnswersInv'
  <2>1. PICK answer \in {"accepted", "rejected", "unauthorised"} :
          /\ desk' = [desk EXCEPT ![r].pc = "answered", ![r].answer = answer]
          /\ answer = "accepted" => desk[r].verdict = "done"
          /\ answer # "accepted" => desk[r].verdict # "done"
    BY ONLY <1>6 DEF Order!ReplyParsed, Order!Answered
  <2> QED BY <1>1, <2>1
<1>7. ASSUME NEW r \in Orders, Order!PostFails(r) \/ Order!ReplyLost(r) \/ Order!ReplyMalformed(r)
      PROVE  AnswersInv'
  BY <1>1, <1>7 DEF Order!PostFails, Order!ReplyLost, Order!ReplyMalformed, Order!ToAnswer,
    Order!Answered
<1>8. CASE Order!TimePasses \/ Order!LoopWakes \/ Order!RefreshSucceeds \/ Order!RefreshFails \/ Order!Failover
  BY <1>2, <1>8 DEF Order!TimePasses, Order!LoopWakes, Order!RefreshSucceeds,
    Order!RefreshFails, Order!Failover
<1>9. CASE UNCHANGED Order!vars
  BY <1>2, <1>9 DEF Order!vars
<1>10. ASSUME NEW r \in Orders, Order!MockAnswer(r) \/ Order!Invalid(r) PROVE AnswersInv'
  BY <1>3, <1>10 DEF Order!MockAnswer, Order!Invalid
<1> QED BY <1>4, <1>5, <1>6, <1>7, <1>8, <1>9, <1>10 DEF Order!Next, Order!Progress

LEMMA AnswersStart ==
  ASSUME Order!TimesOk, MaxNow \in Nat, Order!Init
  PROVE  AnswersInv
<1>1. \A r \in Orders : desk[r] = Order!Idle
  BY Zenon DEF Order!Init
<1>2. \A r \in Orders : FrameInv(r) /\ desk[r].answer = "none"
  <2>1. Order!Idle.pc = "idle" /\ Order!Idle.verdict = "none" /\ Order!Idle.answer = "none"
    BY DEF Order!Idle
  <2> QED BY <1>1, <2>1, Zenon DEF FrameInv
<1> QED BY <1>2, DeskStart DEF AnswersInv, Order!AnswersAreTrue

-----------------------------------------------------------------------------
\* The token's part: the requests' actions leave it alone.
LEMMA TimesStep ==
  ASSUME Order!TimesOk, MaxNow \in Nat, TimesInv, [Order!Next]_(Order!vars)
  PROVE  TimesInv'
<1>1. Order!TypeOK'
  BY DeskStep DEF TimesInv
<1> USE DEF TimesInv, LoopInv, TokenInv, Order!TypeOK, Order!TimesOk
<1>2. CASE Order!TimePasses
  BY <1>1, <1>2 DEF Order!TimePasses, Order!tokenVars
<1>3. CASE Order!LoopWakes
  <2>1. CASE Order!NeedsRefresh
    BY <1>1, <1>3, <2>1 DEF Order!LoopWakes
  <2>2. CASE ~Order!NeedsRefresh
    BY <1>1, <1>3, <2>2 DEF Order!LoopWakes, Order!NeedsRefresh
  <2> QED BY <2>1, <2>2
<1>4. CASE Order!RefreshSucceeds
  BY <1>1, <1>4 DEF Order!RefreshSucceeds
<1>5. CASE Order!RefreshFails
  BY <1>1, <1>5 DEF Order!RefreshFails
<1>6. CASE Order!Failover
  BY <1>1, <1>6 DEF Order!Failover
<1>7. ASSUME UNCHANGED <<now, client, Order!tokenVars>> PROVE TimesInv'
  BY <1>1, <1>7 DEF Order!tokenVars
<1>8. ASSUME NEW r \in Orders, Order!MockAnswer(r) \/ Order!Invalid(r) \/ Order!Post(r) \/ Order!Progress(r)
      PROVE  TimesInv'
  BY <1>7, <1>8 DEF Order!MockAnswer, Order!Invalid, Order!Post, Order!NewRequest,
    Order!Progress, Order!KisDecides, Order!Verdict, Order!PostFails, Order!ReplyParsed,
    Order!ReplyLost, Order!ReplyMalformed, Order!ToAnswer
<1>9. CASE UNCHANGED Order!vars
  BY <1>7, <1>9 DEF Order!vars
<1> QED BY <1>2, <1>3, <1>4, <1>5, <1>6, <1>8, <1>9 DEF Order!Next

LEMMA TimesStart ==
  ASSUME Order!TimesOk, MaxNow \in Nat, Order!Init
  PROVE  TimesInv
<1>1. LoopInv
  BY DEF Order!Init, LoopInv, Order!TimesOk
<1>2. TokenInv
  BY DEF Order!Init, TokenInv, Order!TimesOk
<1> QED BY <1>1, <1>2, DeskStart DEF TimesInv

LEMMA TimesHold ==
  ASSUME Order!TimesOk, TimesInv
  PROVE  Order!TokenKept
  BY DEF TimesInv, LoopInv, TokenInv, Order!TokenKept, Order!TypeOK, Order!TimesOk

-----------------------------------------------------------------------------
\* A container's record; a plan lists what is not applied of its release, lowest first; one
\* that said it is ready has all its migrations, and behind the start command its rows.
Container ==
  [cmd : Deploy!Commands \cup {"none"}, pc : Deploy!Stages, plan : Deploy!BoundedSeq(Deploy!Versions, 3),
   wrote : Nat, db : BOOLEAN, redis : BOOLEAN, answer : Deploy!Answers]

PlanOk(b, d, done) ==
  /\ \A i, j \in 1 .. Len(b.plan) : i < j => b.plan[i] < b.plan[j]
  /\ \A v \in 1 .. Release[d] : v \in done \/ \E i \in 1 .. Len(b.plan) : b.plan[i] = v
  /\ \A i \in 1 .. Len(b.plan) : b.plan[i] <= Release[d]

\* All rows of release r are in m.
There(m, r) == \A k \in Deploy!Payload(r) : m[k] # Deploy!None

Behind == {"boot", "connect", "serve", "pinged", "verify"}

ContainerOk(b, d, done, m) ==
  /\ b \in Container /\ b.wrote <= Len(Rows[Release[d]])
  /\ b.pc = "migrate" => PlanOk(b, d, done)
  /\ b.answer = "ready" => 1 .. Release[d] \subseteq done
  /\ b.cmd = "deploy" /\ (b.pc \in Behind \/ b.answer = "ready") => There(m, Release[d])

NoGap(done) == done \subseteq Deploy!Versions /\ \A v \in done : 1 .. v \subseteq done

\* What the seeds make of the master data: WholePayloads, with its type.
MasterOk(m) ==
  /\ m \in [MasterKeys -> {Deploy!None} \cup Deploy!Versions]
  /\ \A k \in MasterKeys : m[k] # Deploy!None => There(m, m[k])
  /\ \A k, l \in MasterKeys :
       /\ m[k] # Deploy!None /\ m[l] # Deploy!None
       /\ {k, l} \subseteq Deploy!Payload(m[k]) \cap Deploy!Payload(m[l])
       => m[k] = m[l]

DeployInv ==
  /\ NoGap(applied)
  /\ MasterOk(master)
  /\ dbUp \in BOOLEAN /\ redisUp \in BOOLEAN /\ faults \in 0 .. MaxFaults
  /\ box = [d \in Containers |-> box[d]]
  /\ \A d \in Containers : ContainerOk(box[d], d, applied, master)

LEMMA ReleaseType ==
  /\ \A d \in Containers : Release[d] \in 1 .. 3 /\ Len(Rows[Release[d]]) \in Nat
  /\ \A r \in Deploy!Versions : Deploy!Payload(r) \subseteq MasterKeys
<1>1. /\ \A d \in Containers : Release[d] \in 1 .. 3
      /\ \A r \in 1 .. 3 : Rows[r] \in Seq(MasterKeys)
  BY ServicesAssumption DEF Deploy!ReleasesOk, Deploy!Versions
<1>2. \A r \in 1 .. 3 : Len(Rows[r]) \in Nat /\ \A i \in 1 .. Len(Rows[r]) : Rows[r][i] \in MasterKeys
  BY <1>1
<1> QED BY <1>1, <1>2 DEF Deploy!Payload, Deploy!Versions

\* A committed payload covers the rows it shares with others and removes none.
LEMMA UpsertKeeps ==
  ASSUME NEW m, MasterOk(m), NEW r \in Deploy!Versions
  PROVE  /\ MasterOk(Deploy!Upserted(m, r))
         /\ There(Deploy!Upserted(m, r), r)
         /\ \A q \in Deploy!Versions : There(m, q) => There(Deploy!Upserted(m, r), q)
<1> DEFINE n == Deploy!Upserted(m, r)
<1>0. /\ \A q \in Deploy!Versions : Deploy!Payload(q) \subseteq MasterKeys
      /\ r # Deploy!None /\ r \in Deploy!Versions
  BY ReleaseType DEF Deploy!None, Deploy!Versions
<1>1. /\ n = [k \in MasterKeys |-> n[k]]
      /\ \A k \in MasterKeys : n[k] = IF k \in Deploy!Payload(r) THEN r ELSE m[k]
  BY DEF Deploy!Upserted
<1> HIDE DEF n
<1>2. n \in [MasterKeys -> {Deploy!None} \cup Deploy!Versions]
  BY <1>0, <1>1 DEF MasterOk
<1>3. There(n, r)
  BY <1>0, <1>1 DEF There
<1>4. \A q \in Deploy!Versions : There(m, q) => There(n, q)
  BY <1>0, <1>1 DEF There
<1>5. ASSUME NEW k \in MasterKeys, n[k] # Deploy!None PROVE There(n, n[k])
  <2>1. CASE n[k] = r
    BY <2>1, <1>3
  <2>2. CASE n[k] # r
    <3>1. n[k] = m[k] /\ m[k] \in Deploy!Versions
      BY <1>1, <1>2, <1>5, <2>2
    <3> QED BY <1>4, <1>5, <3>1 DEF MasterOk
  <2> QED BY <2>1, <2>2
<1>6. ASSUME NEW k \in MasterKeys, NEW l \in MasterKeys, n[k] # Deploy!None, n[l] # Deploy!None,
             {k, l} \subseteq Deploy!Payload(n[k]) \cap Deploy!Payload(n[l])
      PROVE  n[k] = n[l]
  <2>1. CASE n[k] = r \/ n[l] = r
    BY <1>1, <1>6, <2>1
  <2>2. CASE n[k] # r /\ n[l] # r
    <3>1. n[k] = m[k] /\ n[l] = m[l]
      BY <1>1, <2>2
    <3> QED BY <1>6, <3>1 DEF MasterOk
  <2> QED BY <2>1, <2>2
<1>7. MasterOk(n)
  BY <1>2, <1>5, <1>6 DEF MasterOk
<1> QED BY <1>3, <1>4, <1>7 DEF n

LEMMA PlanSeq ==
  ASSUME NEW p
  PROVE p \in Deploy!BoundedSeq(Deploy!Versions, 3) <=> p \in Seq(Deploy!Versions) /\ Len(p) <= 3
<1>1. ASSUME p \in Deploy!BoundedSeq(Deploy!Versions, 3) PROVE p \in Seq(Deploy!Versions) /\ Len(p) <= 3
  <2>1. PICK n \in 0 .. 3 : p \in [1 .. n -> Deploy!Versions]
    BY <1>1 DEF Deploy!BoundedSeq, Deploy!SeqOf
  <2> QED BY <2>1
<1>2. ASSUME p \in Seq(Deploy!Versions), Len(p) <= 3 PROVE p \in Deploy!BoundedSeq(Deploy!Versions, 3)
  <2>1. Len(p) \in Nat /\ p \in [1 .. Len(p) -> Deploy!Versions]
    BY <1>2, LenProperties, ElementOfSeq
  <2>2. Len(p) \in 0 .. 3
    BY <1>2, <2>1
  <2> QED BY <2>1, <2>2 DEF Deploy!BoundedSeq, Deploy!SeqOf
<1> QED BY <1>1, <1>2

\* What is applied and what is seeded grows.
LEMMA ContainerMonotonic ==
  ASSUME NEW b, NEW d \in Containers, NEW done, NEW more, done \subseteq more, NEW m, NEW n,
         \A q \in Deploy!Versions : There(m, q) => There(n, q),
         ContainerOk(b, d, done, m)
  PROVE  ContainerOk(b, d, more, n)
<1>1. Release[d] \in Deploy!Versions
  BY ReleaseType DEF Deploy!Versions
<1> QED BY <1>1 DEF ContainerOk, PlanOk

\* A step of one container, while more may be applied and seeded.
LEMMA OneContainer ==
  ASSUME DeployInv, NEW d \in Containers, NEW b, NoGap(applied'), applied \subseteq applied',
         MasterOk(master'), \A q \in Deploy!Versions : There(master, q) => There(master', q),
         ContainerOk(b, d, applied', master'), box' = [box EXCEPT ![d] = b],
         UNCHANGED <<dbUp, redisUp>>, faults' \in 0 .. MaxFaults
  PROVE  DeployInv'
<1>1. ASSUME NEW e \in Containers PROVE ContainerOk(box'[e], e, applied', master')
  <2>1. CASE e = d
    BY <2>1 DEF DeployInv
  <2>2. CASE e # d
    <3>1. box'[e] = box[e] /\ ContainerOk(box[e], e, applied, master)
      BY <2>2 DEF DeployInv
    <3> QED BY <3>1, ContainerMonotonic
  <2> QED BY <2>1, <2>2
<1>2. box' = [e \in Containers |-> box'[e]]
  BY DEF DeployInv
<1> QED BY <1>1, <1>2 DEF DeployInv

LEMMA FreshOk ==
  ASSUME NEW cmd \in Deploy!Commands \cup {"none"}, NEW d \in Containers, NEW done, NEW m,
         NEW pc \in {"new", "down"}
  PROVE  /\ ContainerOk(Deploy!Fresh(cmd), d, done, m)
         /\ ContainerOk([Deploy!Fresh(cmd) EXCEPT !.pc = pc], d, done, m)
         /\ There(m, Release[d]) => ContainerOk([Deploy!Fresh(cmd) EXCEPT !.pc = "boot"], d, done, m)
<1>1. <<>> \in Deploy!BoundedSeq(Deploy!Versions, 3) /\ 0 \in Nat /\ 0 <= Len(Rows[Release[d]])
  <2>1. <<>> \in Seq(Deploy!Versions) /\ Len(<<>>) = 0
    OBVIOUS
  <2>2. Len(Rows[Release[d]]) \in Nat
    BY ReleaseType
  <2>3. 0 \in Nat /\ 0 <= Len(Rows[Release[d]])
    BY <2>2
  <2>4. \A p : p \in Seq(Deploy!Versions) /\ Len(p) <= 3 => p \in Deploy!BoundedSeq(Deploy!Versions, 3)
    BY PlanSeq, Zenon
  <2>5. Len(<<>>) <= 3
    BY <2>1
  <2> QED BY <2>1, <2>3, <2>4, <2>5, Zenon
<1>2. "start" \notin Behind /\ pc \notin Behind
  BY DEF Behind
<1> QED BY <1>1, <1>2 DEF Deploy!Fresh, ContainerOk, Container, Deploy!Stages, Deploy!Answers, Deploy!Commands

LEMMA PlanStarts ==
  ASSUME NEW d \in Containers, NEW b, NEW done,
         NEW p, p = Deploy!Kept(Deploy!Discover(d), Deploy!Versions \ done), b.plan = p
  PROVE  PlanOk(b, d, done) /\ p \in Deploy!BoundedSeq(Deploy!Versions, 3)
<1> DEFINE list == Deploy!Discover(d)
<1>1. list \in Seq(Deploy!Versions) /\ Len(list) = Release[d] /\ \A v \in 1 .. Release[d] : list[v] = v
  BY ReleaseType DEF Deploy!Discover, Deploy!Versions
<1> HIDE DEF list
<1>2. p \in Seq(Deploy!Versions) /\ IsKept(list, Deploy!Versions \ done, Len(list), p)
  BY <1>1, DeployKeptOk DEF list
<1>3. Len(p) \in Nat /\ Release[d] \in 1 .. 3
  BY <1>2, ReleaseType
<1>4. PICK at \in [1 .. Len(p) -> 1 .. Release[d]] :
        /\ \A i, j \in 1 .. Len(p) : i < j => at[i] < at[j]
        /\ \A i \in 1 .. Len(p) : p[i] = list[at[i]] /\ p[i] \in Deploy!Versions \ done
        /\ \A v \in 1 .. Release[d] : list[v] \in Deploy!Versions \ done => \E i \in 1 .. Len(p) : at[i] = v
  BY <1>1, <1>2 DEF IsKept
<1>5. \A i \in 1 .. Len(p) : p[i] = at[i]
  BY <1>1, <1>4
<1>6. PlanOk(b, d, done)
  <2>1. \A i, j \in 1 .. Len(p) : i < j => p[i] < p[j]
    BY <1>4, <1>5
  <2>2. ASSUME NEW v \in 1 .. Release[d], v \notin done PROVE \E i \in 1 .. Len(p) : p[i] = v
    <3>1. list[v] = v /\ v \in Deploy!Versions
      BY <1>1, <1>3 DEF Deploy!Versions
    <3>2. list[v] \in Deploy!Versions \ done
      BY <2>2, <3>1
    <3>3. PICK i \in 1 .. Len(p) : at[i] = v
      BY ONLY <1>4, <2>2, <3>2
    <3> QED BY ONLY <1>5, <3>3
  <2>3. \A i \in 1 .. Len(p) : p[i] <= Release[d]
    <3> SUFFICES ASSUME NEW i \in 1 .. Len(p) PROVE p[i] <= Release[d]
      OBVIOUS
    <3>1. p[i] = at[i] /\ at[i] \in 1 .. Release[d]
      BY <1>4, <1>5
    <3> QED BY <1>3, <3>1
  <2> QED BY <2>1, <2>2, <2>3 DEF PlanOk
<1>7. Len(p) <= 3
  <2> SUFFICES ASSUME Len(p) > 3 PROVE FALSE
    BY <1>3
  <2>1. 1 \in 1 .. Len(p) /\ 2 \in 1 .. Len(p) /\ 3 \in 1 .. Len(p) /\ 4 \in 1 .. Len(p)
    BY <1>3
  <2>2. at[1] < at[2] /\ at[2] < at[3] /\ at[3] < at[4] /\ at[1] \in 1 .. 3 /\ at[2] \in 1 .. 3
        /\ at[3] \in 1 .. 3 /\ at[4] \in 1 .. 3
    <3>1. at[1] < at[2] /\ at[2] < at[3] /\ at[3] < at[4]
      <4>1. \A i, j \in 1 .. Len(p) : i < j => at[i] < at[j]
        BY <1>4
      <4>2. 1 < 2 /\ 2 < 3 /\ 3 < 4
        OBVIOUS
      <4> QED BY <2>1, <4>1, <4>2
    <3>2. at[1] \in 1 .. Release[d] /\ at[2] \in 1 .. Release[d] /\ at[3] \in 1 .. Release[d]
          /\ at[4] \in 1 .. Release[d]
      BY <1>4, <2>1
    <3> QED BY <1>3, <3>1, <3>2
  <2> QED BY <2>2
<1> QED BY <1>2, <1>6, <1>7, PlanSeq

\* The lowest version of the plan closes no gap.
LEMMA PlanApplies ==
  ASSUME DeployInv, NEW d \in Containers, Deploy!Apply(d)
  PROVE  DeployInv'
<1> DEFINE b == box[d]
           p == b.plan
           c == [b EXCEPT !.plan = Tail(p)]
<1>1. /\ ContainerOk(b, d, applied, master) /\ b.pc = "migrate" /\ p # <<>> /\ applied' = applied \cup {Head(p)}
      /\ box' = [box EXCEPT ![d] = c] /\ UNCHANGED <<master, dbUp, redisUp, faults>>
  BY DEF DeployInv, Deploy!Apply, Deploy!Become
<1>2. p \in Seq(Deploy!Versions) /\ Len(p) <= 3 /\ Len(p) \in Nat \ {0} /\ PlanOk(b, d, applied)
  <2>1. p \in Deploy!BoundedSeq(Deploy!Versions, 3)
    BY <1>1 DEF ContainerOk, Container
  <2> QED BY <1>1, <2>1, PlanSeq DEF ContainerOk
<1>3. Head(p) = p[1] /\ p[1] \in Deploy!Versions /\ Tail(p) \in Seq(Deploy!Versions) /\ Len(Tail(p)) = Len(p) - 1
      /\ \A i \in 1 .. Len(p) - 1 : Tail(p)[i] = p[i + 1]
  BY <1>2
<1>4. NoGap(applied')
  <2>1. ASSUME NEW v \in 1 .. Head(p), v # Head(p) PROVE v \in applied
    <3>1. v \in 1 .. Release[d] /\ v < p[1]
      BY <1>2, <1>3, <2>1, ReleaseType DEF PlanOk, Deploy!Versions
    <3>2. ASSUME NEW i \in 1 .. Len(p), p[i] = v PROVE FALSE
      <4>1. i # 1
        BY <3>1, <3>2
      <4>2. p[1] < p[i]
        BY <1>2, <4>1 DEF PlanOk
      <4> QED BY <1>2, <1>3, <3>1, <3>2, <4>2 DEF Deploy!Versions
    <3> QED BY <1>2, <3>1, <3>2 DEF PlanOk
  <2> QED BY <1>1, <1>3, <2>1 DEF NoGap, DeployInv, Deploy!Versions
<1>5. ContainerOk(c, d, applied', master')
  <2>1. c \in Container /\ c.pc = b.pc /\ c.plan = Tail(p) /\ c.answer = b.answer
        /\ c.cmd = b.cmd /\ c.wrote = b.wrote
    <3>1. Tail(p) \in Deploy!BoundedSeq(Deploy!Versions, 3)
      <4>1. \A q : q \in Seq(Deploy!Versions) /\ Len(q) <= 3 => q \in Deploy!BoundedSeq(Deploy!Versions, 3)
        BY PlanSeq, Zenon
      <4>2. Tail(p) \in Seq(Deploy!Versions) /\ Len(Tail(p)) <= 3
        BY <1>2, <1>3
      <4> QED BY <4>1, <4>2, Zenon
    <3> QED BY <1>1, <3>1 DEF ContainerOk, Container
  <2>2. PlanOk(c, d, applied')
    <3> DEFINE q == Tail(p)
    <3>1. \A i, j \in 1 .. Len(q) : i < j => q[i] < q[j]
      BY <1>2, <1>3 DEF PlanOk
    <3>2. \A i \in 1 .. Len(q) : q[i] <= Release[d]
      BY <1>2, <1>3 DEF PlanOk
    <3>3. ASSUME NEW v \in 1 .. Release[d], v \notin applied' PROVE \E i \in 1 .. Len(q) : q[i] = v
      <4>1. PICK i \in 1 .. Len(p) : p[i] = v
        BY <1>1, <1>2, <3>3 DEF PlanOk
      <4>2. i # 1
        BY <1>1, <1>3, <3>3, <4>1
      <4>3. i - 1 \in 1 .. Len(q) /\ q[i - 1] = v
        BY <1>2, <1>3, <4>1, <4>2
      <4> QED BY <4>3
    <3> QED BY <2>1, <3>1, <3>2, <3>3 DEF PlanOk
  <2> QED BY <1>1, <2>1, <2>2 DEF ContainerOk
<1> HIDE DEF b, p, c
<1>6. faults' \in 0 .. MaxFaults /\ applied \subseteq applied' /\ MasterOk(master')
      /\ \A q \in Deploy!Versions : There(master, q) => There(master', q)
  BY <1>1 DEF DeployInv
<1> QED BY <1>1, <1>4, <1>5, <1>6, OneContainer

\* The steps of a container that apply nothing and commit nothing.
LEMMA ContainerStep ==
  ASSUME DeployInv, NEW d \in Containers,
         \/ Deploy!Launch(d) \/ Deploy!Plan(d) \/ Deploy!Migrated(d) \/ Deploy!SeedRow(d)
         \/ Deploy!PoolConnects(d) \/ Deploy!ClientConnects(d)
         \/ Deploy!Probes(d) \/ Deploy!Dies(d) \/ Deploy!Unreachable(d) \/ Deploy!Restart(d)
  PROVE  DeployInv'
<1> DEFINE b == box[d]
<1>1. ContainerOk(b, d, applied, master) /\ b \in Container /\ NoGap(applied)
  BY DEF DeployInv, ContainerOk
<1>2. UNCHANGED <<applied, master, dbUp, redisUp>> /\ faults' \in 0 .. MaxFaults
  BY ServicesAssumption DEF DeployInv, Deploy!Launch, Deploy!PoolConnects, Deploy!ClientConnects,
    Deploy!Plan, Deploy!Migrated, Deploy!SeedRow, Deploy!Visible, Deploy!Probes, Deploy!PingDb,
    Deploy!PingRedis, Deploy!Answer, Deploy!AnswerRaises, Deploy!Dies, Deploy!Unreachable,
    Deploy!Restart
<1>3. MasterOk(master)
  BY DEF DeployInv
<1>4. SUFFICES \E c : ContainerOk(c, d, applied, master) /\ box' = [box EXCEPT ![d] = c]
  BY <1>1, <1>2, <1>3, OneContainer
<1>5. CASE Deploy!Launch(d) \/ Deploy!Dies(d) \/ Deploy!Unreachable(d) \/ Deploy!Restart(d)
  <2>1. PICK cmd \in Deploy!Commands \cup {"none"} :
          \/ box' = [box EXCEPT ![d] = Deploy!Fresh(cmd)]
          \/ box' = [box EXCEPT ![d] = [Deploy!Fresh(cmd) EXCEPT !.pc = "down"]]
    BY <1>1, <1>5 DEF Deploy!Launch, Deploy!Dies, Deploy!Unreachable, Deploy!Restart,
      Deploy!Become, Container
  <2> QED BY <2>1, FreshOk
<1>6. CASE Deploy!PoolConnects(d) \/ Deploy!ClientConnects(d) \/ Deploy!Migrated(d)
  <2>1. PICK pc \in {"connect", "serve", "seed"} :
          /\ box' = [box EXCEPT ![d] = [b EXCEPT !.pc = pc]]
          /\ pc \in Behind => b.pc \in Behind
    BY <1>6 DEF Deploy!PoolConnects, Deploy!ClientConnects, Deploy!Migrated, Deploy!Goto, Behind
  <2>2. ContainerOk([b EXCEPT !.pc = pc], d, applied, master)
    BY <1>1, <2>1 DEF ContainerOk, Container, Deploy!Stages
  <2> QED BY <2>1, <2>2
<1>7. CASE Deploy!Plan(d)
  <2> DEFINE p == Deploy!Kept(Deploy!Discover(d), Deploy!Versions \ applied)
             c == [b EXCEPT !.pc = "migrate", !.plan = p]
  <2>1. box' = [box EXCEPT ![d] = c]
    BY <1>7 DEF Deploy!Plan, Deploy!Become
  <2>2. c.plan = p
    BY <1>1 DEF Container
  <2> HIDE DEF p
  <2>3. PlanOk(c, d, applied) /\ p \in Deploy!BoundedSeq(Deploy!Versions, 3)
    BY <2>2, PlanStarts DEF p
  <2>4. "migrate" \notin Behind /\ "migrate" \in Deploy!Stages
    BY DEF Behind, Deploy!Stages
  <2>5. c \in Container /\ c.pc = "migrate" /\ c.wrote = b.wrote /\ c.answer = b.answer /\ c.cmd = b.cmd
    BY <1>1, <2>3, <2>4 DEF Container
  <2>6. ContainerOk(c, d, applied, master)
    BY ONLY <1>1, <2>3, <2>4, <2>5 DEF ContainerOk
  <2> QED BY <2>1, <2>6
<1>8. CASE Deploy!SeedRow(d)
  <2> DEFINE c == [b EXCEPT !.wrote = b.wrote + 1]
  <2>1. box' = [box EXCEPT ![d] = c] /\ b.wrote < Len(Rows[Release[d]]) /\ b.wrote \in Nat
    BY <1>1, <1>8 DEF Deploy!SeedRow, Deploy!HasNext, Container
  <2>2. b.wrote + 1 \in Nat /\ b.wrote + 1 <= Len(Rows[Release[d]])
    BY <2>1, ReleaseType
  <2>3. ASSUME NEW n \in Nat, n <= Len(Rows[Release[d]])
        PROVE ContainerOk([b EXCEPT !.wrote = n], d, applied, master)
    <3>1. [b EXCEPT !.wrote = n] \in Container
      BY <1>1 DEF Container
    <3> QED BY <1>1, <2>3, <3>1 DEF ContainerOk, Container, PlanOk
  <2> QED BY <2>1, <2>2, <2>3
<1>9. CASE Deploy!PingDb(d) \/ Deploy!PingRedis(d)
  <2> DEFINE c1 == [b EXCEPT !.pc = "pinged", !.db = dbUp, !.answer = "none"]
             c2 == [b EXCEPT !.pc = "verify", !.redis = redisUp]
  <2>1. /\ box' = [box EXCEPT ![d] = c1] \/ box' = [box EXCEPT ![d] = c2]
        /\ b.pc \in Behind
    BY <1>9 DEF Deploy!PingDb, Deploy!PingRedis, Deploy!Become, Behind
  <2>2. dbUp \in BOOLEAN /\ redisUp \in BOOLEAN
    BY DEF DeployInv
  <2>3. ContainerOk(c1, d, applied, master)
    BY <1>1, <2>1, <2>2 DEF ContainerOk, Container, Deploy!Stages, Deploy!Answers
  <2>4. ContainerOk(c2, d, applied, master)
    BY <1>1, <2>1, <2>2 DEF ContainerOk, Container, Deploy!Stages, Deploy!Answers
  <2> QED BY <2>1, <2>3, <2>4
<1>10. CASE Deploy!Answer(d) \/ Deploy!AnswerRaises(d)
  <2>1. PICK answer \in {"ready", "not ready", "raised"} :
          /\ box' = [box EXCEPT ![d] = [b EXCEPT !.pc = "serve", !.answer = answer]]
          /\ answer = "ready" => Deploy!SchemaOk(d)
    BY <1>10 DEF Deploy!Answer, Deploy!AnswerRaises, Deploy!Become
  <2>2. answer = "ready" => 1 .. Release[d] \subseteq applied
    BY <1>1, <2>1, ReleaseType DEF Deploy!SchemaOk, NoGap, Deploy!Versions
  <2>3. b.pc \in Behind
    BY <1>10 DEF Deploy!Answer, Deploy!AnswerRaises, Behind
  <2>4. ContainerOk([b EXCEPT !.pc = "serve", !.answer = answer], d, applied, master)
    BY <1>1, <2>2, <2>3 DEF ContainerOk, Container, Deploy!Stages, Deploy!Answers
  <2> QED BY <2>1, <2>4
<1> QED BY <1>5, <1>6, <1>7, <1>8, <1>9, <1>10 DEF Deploy!Probes

\* The commit of a seed: the server behind it starts over a master with all its rows.
LEMMA SeedKeeps == ASSUME DeployInv, NEW d \in Containers, Deploy!SeedCommits(d) PROVE DeployInv'
<1> DEFINE c == [Deploy!Fresh(box[d].cmd) EXCEPT !.pc = "boot"]
<1>1. /\ UNCHANGED <<applied, dbUp, redisUp, faults>> /\ box' = [box EXCEPT ![d] = c]
      /\ master' = Deploy!Upserted(master, Release[d])
  BY DEF Deploy!SeedCommits, Deploy!Become
<1>2. Release[d] \in Deploy!Versions
  BY ReleaseType DEF Deploy!Versions
<1>3. MasterOk(master)
  BY DEF DeployInv
<1>4. /\ MasterOk(master') /\ There(master', Release[d])
      /\ \A q \in Deploy!Versions : There(master, q) => There(master', q)
  BY <1>1, <1>2, <1>3, UpsertKeeps
<1>5. box[d].cmd \in Deploy!Commands \cup {"none"}
  BY DEF DeployInv, ContainerOk, Container
<1>6. ContainerOk(c, d, applied, master')
  BY <1>4, <1>5, FreshOk
<1>7. NoGap(applied') /\ applied \subseteq applied' /\ faults' \in 0 .. MaxFaults
      /\ ContainerOk(c, d, applied', master')
  BY <1>1, <1>6 DEF DeployInv
<1> QED BY <1>1, <1>4, <1>7, OneContainer

LEMMA DeployStep == ASSUME DeployInv, [Deploy!Next]_(Deploy!vars) PROVE DeployInv'
<1>1. CASE UNCHANGED Deploy!vars
  BY <1>1 DEF Deploy!vars, DeployInv
<1>2. CASE Deploy!DbMoves \/ Deploy!RedisMoves
  <2>1. faults' \in 0 .. MaxFaults /\ dbUp' \in BOOLEAN /\ redisUp' \in BOOLEAN
        /\ UNCHANGED <<applied, master, box>>
    <3>1. CASE Deploy!DbMoves
      BY <3>1, ServicesAssumption DEF Deploy!DbMoves, DeployInv
    <3>2. CASE Deploy!RedisMoves
      BY <3>2, ServicesAssumption DEF Deploy!RedisMoves, DeployInv
    <3> QED BY <1>2, <3>1, <3>2
  <2> QED BY <2>1 DEF DeployInv
<1> QED BY <1>1, <1>2, PlanApplies, SeedKeeps, ContainerStep DEF Deploy!Next, Deploy!Deploys

LEMMA DeployStart == ASSUME Deploy!Init PROVE DeployInv
<1>1. NoGap(applied)
  BY DEF Deploy!Init, NoGap, Deploy!Versions
<1>2. dbUp = TRUE /\ redisUp = TRUE /\ faults = 0
  BY DEF Deploy!Init
<1>3. \A d \in Containers : ContainerOk([Deploy!Fresh("none") EXCEPT !.pc = "new"], d, applied, master)
  BY FreshOk
<1>4. box = [d \in Containers |-> [Deploy!Fresh("none") EXCEPT !.pc = "new"]]
  BY DEF Deploy!Init
<1>5. 0 \in 0 .. MaxFaults
  BY ServicesAssumption
<1>6. MasterOk(Deploy!Unseeded)
  BY DEF MasterOk, Deploy!Unseeded
<1>7. master = Deploy!Unseeded \/ \E r \in Deploy!Versions : master = Deploy!Upserted(Deploy!Unseeded, r)
  BY DEF Deploy!Init, Deploy!Versions
<1>8. MasterOk(master)
  BY <1>6, <1>7, UpsertKeeps
<1> QED BY <1>1, <1>2, <1>3, <1>4, <1>5, <1>8, Zenon DEF DeployInv

LEMMA DeployHolds == ASSUME DeployInv PROVE Deploy!TypeOK /\ Deploy!ReadyMeansDeployed
<1>1. MasterOk(master) /\ \A d \in Containers : ContainerOk(box[d], d, applied, master)
  BY DEF DeployInv
<1>2. Deploy!WholePayloads
  BY <1>1 DEF MasterOk, Deploy!WholePayloads, Deploy!Present, There
<1>3. Deploy!ReadyMeansDeployed
  BY <1>1, <1>2 DEF ContainerOk, Deploy!ReadyMeansDeployed, Deploy!Present, There
<1>4. \A d \in Containers : box[d].wrote \in 0 .. Len(Rows[Release[d]])
  BY <1>1, ReleaseType DEF ContainerOk, Container
<1>5. Deploy!TypeOK
  BY <1>1, <1>4 DEF DeployInv, ContainerOk, Container, NoGap, MasterOk, Deploy!TypeOK
<1> QED BY <1>3, <1>5

-----------------------------------------------------------------------------
\* The modules of the key set cache and of the Yahoo publishers speak of the same parts.

LEMMA JwksSame ==
  /\ Jwks!Init => JwksProofs!Init
  /\ [Jwks!Next]_(Jwks!vars) => [JwksProofs!Next]_(JwksProofs!vars)
<1>1. Jwks!Init => JwksProofs!Init
  BY DEF Jwks!Init, JwksProofs!Init, Jwks!Idle, JwksProofs!Idle, Jwks!Modes, JwksProofs!Modes
<1>2. \A r : Jwks!Progress(r) <=> JwksProofs!Progress(r)
  BY DEF Jwks!Progress, JwksProofs!Progress, Jwks!Enter, JwksProofs!Enter, Jwks!Discovered,
         JwksProofs!Discovered, Jwks!Served, JwksProofs!Served, Jwks!RefreshFails,
         JwksProofs!RefreshFails, Jwks!Refreshed, JwksProofs!Refreshed, Jwks!Leave,
         JwksProofs!Leave, Jwks!Holds, JwksProofs!Holds, Jwks!Hit, JwksProofs!Hit, Jwks!Fresh,
         JwksProofs!Fresh, Jwks!Answered, JwksProofs!Answered, Jwks!Status, JwksProofs!Status
<1>3. \A r, k, good : Jwks!GetKey(r, k, good) <=> JwksProofs!GetKey(r, k, good)
  BY DEF Jwks!GetKey, JwksProofs!GetKey, Jwks!Begun, JwksProofs!Begun, Jwks!Idle,
         JwksProofs!Idle, Jwks!Hit, JwksProofs!Hit, Jwks!Fresh, JwksProofs!Fresh,
         Jwks!Answered, JwksProofs!Answered, Jwks!Status, JwksProofs!Status
<1>4. \A r : Jwks!NoKeyAsked(r) <=> JwksProofs!NoKeyAsked(r)
  BY DEF Jwks!NoKeyAsked, JwksProofs!NoKeyAsked
<1>5. (Jwks!TimePasses <=> JwksProofs!TimePasses) /\ (Jwks!Rotate <=> JwksProofs!Rotate)
  BY DEF Jwks!TimePasses, JwksProofs!TimePasses, Jwks!Rotate, JwksProofs!Rotate
<1>6. Jwks!Next => JwksProofs!Next
  BY <1>2, <1>3, <1>4, <1>5, Zenon DEF Jwks!Next, JwksProofs!Next
<1> QED BY <1>1, <1>6, Zenon DEF Jwks!vars, JwksProofs!vars

LEMMA YahooSame ==
  /\ Yahoo!Init => YahooProofs!Init
  /\ [Yahoo!Next]_(Yahoo!vars) => [YahooProofs!Next]_(YahooProofs!vars)
  /\ Yahoo!ConstantsOk => YahooProofs!ConstantsOk
<1> USE DEF Yahoo!vars, YahooProofs!vars, Yahoo!pollVars, YahooProofs!pollVars,
            Yahoo!exchangeVars, YahooProofs!exchangeVars, Yahoo!N, YahooProofs!N,
            Yahoo!Never, YahooProofs!Never, Yahoo!NoTick, YahooProofs!NoTick
<1>1. Yahoo!Init => YahooProofs!Init
  BY DEF Yahoo!Init, YahooProofs!Init
<1>2. Yahoo!Start <=> YahooProofs!Start
  BY DEF Yahoo!Start, YahooProofs!Start, Yahoo!Loaded, YahooProofs!Loaded,
         Yahoo!Cardinality, YahooProofs!Cardinality
<1>3. Yahoo!PollOneBatch <=> YahooProofs!PollOneBatch
  BY DEF Yahoo!PollOneBatch, YahooProofs!PollOneBatch, Yahoo!Batch, YahooProofs!Batch
<1>4. Yahoo!Skip <=> YahooProofs!Skip
  BY DEF Yahoo!Skip, YahooProofs!Skip, Yahoo!Asked, YahooProofs!Asked
<1>5. Yahoo!Quote <=> YahooProofs!Quote
  BY DEF Yahoo!Quote, YahooProofs!Quote, Yahoo!Asked, YahooProofs!Asked, Yahoo!Delta,
         YahooProofs!Delta
<1>6. /\ Yahoo!Publish <=> YahooProofs!Publish
      /\ Yahoo!PublishRaises <=> YahooProofs!PublishRaises
      /\ Yahoo!Observe <=> YahooProofs!Observe
      /\ Yahoo!BatchDone <=> YahooProofs!BatchDone
      /\ Yahoo!Stop <=> YahooProofs!Stop
      /\ Yahoo!NewDay <=> YahooProofs!NewDay
  BY DEF Yahoo!Publish, YahooProofs!Publish, Yahoo!PublishRaises, YahooProofs!PublishRaises,
         Yahoo!Observe, YahooProofs!Observe, Yahoo!BatchDone, YahooProofs!BatchDone,
         Yahoo!Stop, YahooProofs!Stop, Yahoo!NewDay, YahooProofs!NewDay
<1>7. \A t : Yahoo!Trade(t) <=> YahooProofs!Trade(t)
  BY DEF Yahoo!Trade, YahooProofs!Trade
<1>8. Yahoo!Next => YahooProofs!Next
  BY <1>2, <1>3, <1>4, <1>5, <1>6, <1>7, Zenon DEF Yahoo!Next, YahooProofs!Next
<1>9. Yahoo!ConstantsOk => YahooProofs!ConstantsOk
  BY DEF Yahoo!ConstantsOk, YahooProofs!ConstantsOk, Yahoo!IsFiniteSet, YahooProofs!IsFiniteSet
<1> QED BY <1>1, <1>8, <1>9

-----------------------------------------------------------------------------
\* The invariants of the whole.

LEMMA JwksStart == ServicesInit => JwksProofs!Inv
  BY JwksSame, JwksProofs!Start DEF ServicesInit

LEMMA JwksStep ==
  JwksProofs!Inv /\ [ServicesNext]_servicesVars => JwksProofs!Inv'
  BY JwksSame, JwksMoves, JwksProofs!Step

LEMMA YahooStart == ServicesInit => YahooProofs!PublisherInv
  BY YahooSame, YahooProofs!PublisherStart DEF ServicesInit

LEMMA YahooStep ==
  YahooProofs!PublisherInv /\ [ServicesNext]_servicesVars => YahooProofs!PublisherInv'
  BY YahooSame, YahooMoves, YahooProofs!PublisherStep, ServicesAssumption DEF ServicesAssumption

LEMMA YahooHolds ==
  YahooProofs!PublisherInv => /\ Yahoo!TypeOK /\ Yahoo!PollsBalanced /\ Yahoo!VolumeNeverInflated
<1> SUFFICES ASSUME YahooProofs!PublisherInv
             PROVE  Yahoo!TypeOK /\ Yahoo!PollsBalanced /\ Yahoo!VolumeNeverInflated
  OBVIOUS
<1>1. YahooProofs!TypeOK
  BY YahooProofs!PublisherTypes
<1>2. YahooProofs!PollsBalanced /\ YahooProofs!VolumeNeverInflated
  BY YahooProofs!RoundBalances, YahooProofs!VolumeHolds DEF YahooProofs!PublisherInv
<1> QED BY <1>1, <1>2 DEF Yahoo!TypeOK, YahooProofs!TypeOK, Yahoo!PollsBalanced,
      YahooProofs!PollsBalanced, Yahoo!VolumeNeverInflated, YahooProofs!VolumeNeverInflated,
      Yahoo!N, YahooProofs!N, Yahoo!Never, YahooProofs!Never

\* The invariants of all parts, and with them the types: the requests that are under way are those
\* in the queue of the key set's lock, callers that wait for headlines are in their symbol's
\* queue, a plan is made of migrations that are not applied, and so on.
TypesInv ==
  /\ IInv /\ JwksProofs!Inv /\ JwksProofs!QueueInv /\ JwksProofs!CacheInv
  /\ YahooProofs!PublisherInv /\ FeedInv /\ StreamInv /\ Order!TypeOK /\ DeployInv /\ ReadInv

LEMMA TypesStart == ServicesInit => TypesInv
<1> SUFFICES ASSUME ServicesInit PROVE TypesInv
  OBVIOUS
<1>1. IInv
  BY InitIInv DEF ServicesInit
<1>2. JwksProofs!Inv /\ JwksProofs!QueueInv /\ JwksProofs!CacheInv
  <2>1. JwksProofs!Init
    BY JwksSame DEF ServicesInit
  <2>2. JwksProofs!CacheInv
    BY <2>1 DEF JwksProofs!Init, JwksProofs!CacheInv
  <2> QED BY <2>1, <2>2, JwksStart, JwksProofs!QueueStart
<1>3. YahooProofs!PublisherInv
  BY YahooStart
<1>4. FeedInv /\ StreamInv /\ DeployInv /\ ReadInv
  BY FeedStart, StreamStart, DeployStart, ReadStart DEF ServicesInit
<1>5. Order!TypeOK
  BY DeskStart, ServicesAssumption DEF ServicesInit, ServicesAssumption
<1> QED BY <1>1, <1>2, <1>3, <1>4, <1>5 DEF TypesInv

LEMMA TypesStep == TypesInv /\ [ServicesNext]_servicesVars => TypesInv'
<1> SUFFICES ASSUME TypesInv, [ServicesNext]_servicesVars PROVE TypesInv'
  OBVIOUS
<1>1. IInv'
  BY NextIInv, NewsMoves DEF TypesInv
<1>2. JwksProofs!Inv' /\ JwksProofs!QueueInv' /\ JwksProofs!CacheInv'
  <2>1. [JwksProofs!Next]_(JwksProofs!vars)
    BY JwksSame, JwksMoves
  <2>2. JwksProofs!Inv /\ JwksProofs!QueueInv /\ JwksProofs!CacheInv
    BY DEF TypesInv
  <2> QED BY <2>1, <2>2, JwksProofs!Step, JwksProofs!QueueStep, JwksProofs!CacheStep
<1>3. YahooProofs!PublisherInv'
  BY YahooStep DEF TypesInv
<1>4. FeedInv' /\ StreamInv'
  BY FeedStep, FeedMoves, StreamStep, StreamMoves DEF TypesInv
<1>5. DeployInv' /\ ReadInv'
  BY DeployStep, DeployMoves, ReadStep, ApiMoves DEF TypesInv
<1>6. Order!TypeOK'
  BY DeskStep, OrderMoves, ServicesAssumption DEF TypesInv, ServicesAssumption
<1> QED BY <1>1, <1>2, <1>3, <1>4, <1>5, <1>6 DEF TypesInv

LEMMA TypesHold == TypesInv => ServicesTypeOK
<1> SUFFICES ASSUME TypesInv PROVE ServicesTypeOK
  OBVIOUS
<1>1. TypeOK
  BY DEF TypesInv, IInv
<1>2. Jwks!TypeOK
  <2>1. JwksProofs!TypeOK
    BY JwksProofs!TypeHolds DEF TypesInv
  <2> QED BY <2>1, Zenon DEF Jwks!TypeOK, JwksProofs!TypeOK, Jwks!Modes, JwksProofs!Modes
<1>3. Yahoo!TypeOK
  BY YahooHolds DEF TypesInv
<1>4. Feed!TypeOK /\ Stream!TypeOK /\ Deploy!TypeOK
  BY FeedHolds, StreamHolds, DeployHolds DEF TypesInv
<1>5. Order!TypeOK
  BY DEF TypesInv
<1>6. Api!TypeOK
  BY ReadHolds DEF TypesInv
<1> QED BY <1>1, <1>2, <1>3, <1>4, <1>5, <1>6 DEF ServicesTypeOK

-----------------------------------------------------------------------------
\* The theorems.

\* However the callers interleave, wait and are cancelled, one of them asks upstream at a time per
\* symbol, none while the entry is fresh, and headlines are never replaced by none, while requests
\* use the key set cache on the same clock (news_provider.py, the cache).
THEOREM NewsPromiseKept == ServicesSpec => PromiseSpec
<1>1. ServicesInit => Promise!Init /\ IInv
  BY InitIInv, PromiseStart DEF ServicesInit
<1>2. IInv /\ [ServicesNext]_servicesVars => IInv'
  BY NextIInv, NewsMoves
<1>3. IInv /\ [ServicesNext]_servicesVars => [Promise!Next]_(Promise!vars)
  BY StepPromise, NewsMoves
<1> QED BY <1>1, <1>2, <1>3, PTL DEF ServicesSpec, PromiseSpec, Promise!Spec

\* Rotation of the signing keys turns no good token away, for any requests, keys and rotations
\* (JwksCache.get_key, _validate_token).
THEOREM RotationIsTolerated == ServicesSpec => []RotationTolerated
<1>1. ServicesInit => JwksProofs!Inv
  BY JwksStart
<1>2. JwksProofs!Inv /\ [ServicesNext]_servicesVars => JwksProofs!Inv'
  BY JwksStep
<1>3. JwksProofs!Inv => RotationTolerated
  BY DEF JwksProofs!Inv, JwksProofs!FrameOk, RotationTolerated, Jwks!RotationTolerated
<1> QED BY <1>1, <1>2, <1>3, PTL DEF ServicesSpec

\* No request is admitted on a key set older than the TTL, nor without a provider, for any TTL
\* (JwksCache.get_key, get_current_user).
THEOREM NoKeyIsStale == ServicesSpec => NoStaleKey
<1> DEFINE Admits ==
      \A r \in Requests :
        req[r].status = "none" /\ req'[r].status = "principal" =>
          mode = "entra" /\ req'[r].kid \in keys' /\ clock' - fetchedAt' < Ttl
<1>1. ServicesInit => JwksProofs!TimedInv
  BY JwksStart DEF ServicesInit, Init, JwksProofs!TimedInv
<1>2. JwksProofs!TimedInv /\ [ServicesNext]_servicesVars => JwksProofs!TimedInv'
  BY JwksStep, JwksSame, JwksMoves, JwksProofs!ClockStep DEF JwksProofs!TimedInv
<1>3. JwksProofs!TimedInv /\ [ServicesNext]_servicesVars => [Admits]_(Jwks!vars)
  BY JwksSame, JwksMoves, JwksProofs!AdmitStep, TtlAssumption DEF JwksProofs!TimedInv
<1> HIDE DEF Admits
<1>4. ServicesSpec => [][Admits]_(Jwks!vars)
  BY <1>1, <1>2, <1>3, PTL DEF ServicesSpec
<1> QED BY <1>4 DEF NoStaleKey, Jwks!NoStaleKey, Admits

\* The round robin of _poll_one_batch gives every symbol its turn, whatever the length of the
\* list, the batch size and the failures.
THEOREM RoundIsFair == ServicesSpec => []PollsBalanced
<1>1. ServicesInit => YahooProofs!PublisherInv
  BY YahooStart
<1>2. YahooProofs!PublisherInv /\ [ServicesNext]_servicesVars => YahooProofs!PublisherInv'
  BY YahooStep
<1>3. YahooProofs!PublisherInv => PollsBalanced
  BY YahooHolds DEF PollsBalanced
<1> QED BY <1>1, <1>2, <1>3, PTL DEF ServicesSpec

\* Published volumes never add up to more than was traded, in any order of trades, new days,
\* polls and failures (UsPublisher._fetch_one_tick).
THEOREM VolumeIsKept == ServicesSpec => []VolumeNeverInflated
<1>1. ServicesInit => YahooProofs!PublisherInv
  BY YahooStart
<1>2. YahooProofs!PublisherInv /\ [ServicesNext]_servicesVars => YahooProofs!PublisherInv'
  BY YahooStep
<1>3. YahooProofs!PublisherInv => VolumeNeverInflated
  BY YahooHolds DEF VolumeNeverInflated
<1> QED BY <1>1, <1>2, <1>3, PTL DEF ServicesSpec

\* The good records of any frames reach Redis in the order of the wire, none twice and none left
\* behind, whatever bad records, cut payloads and heartbeats are between them (stream_ticks).
THEOREM RecordsAreInOrder == ServicesSpec => []RecordsInOrder
<1>1. ServicesInit => FeedInv
  BY FeedStart DEF ServicesInit
<1>2. FeedInv /\ [ServicesNext]_servicesVars => FeedInv'
  BY FeedStep, FeedMoves
<1>3. FeedInv => RecordsInOrder
  BY FeedHolds DEF RecordsInOrder
<1> QED BY <1>1, <1>2, <1>3, PTL DEF ServicesSpec

\* A finished connection leaves neither a task nor a subscription, however many there are and
\* wherever the client or Redis leaves (market_stream).
THEOREM NothingIsOrphaned == ServicesSpec => []NoOrphans
<1>1. ServicesInit => StreamInv
  BY StreamStart DEF ServicesInit
<1>2. StreamInv /\ [ServicesNext]_servicesVars => StreamInv'
  BY StreamStep, StreamMoves
<1>3. StreamInv => NoOrphans
  BY StreamHolds DEF NoOrphans
<1> QED BY <1>1, <1>2, <1>3, PTL DEF ServicesSpec

\* An accepted order is at KIS, one that was rejected, invalid, unauthorised or mocked is not
\* (post_order, place_order).
THEOREM AnswersTrue == ServicesSpec => []AnswersAreTrue
<1>1. ServicesInit => AnswersInv
  BY AnswersStart, ServicesAssumption DEF ServicesInit, ServicesAssumption
<1>2. AnswersInv /\ [ServicesNext]_servicesVars => AnswersInv'
  BY AnswersStep, OrderMoves, ServicesAssumption DEF ServicesAssumption
<1>3. AnswersInv => AnswersAreTrue
  BY DEF AnswersInv, AnswersAreTrue
<1> QED BY <1>1, <1>2, <1>3, PTL DEF ServicesSpec

\* While the refresh loop runs and KIS does not fail it the token never runs out, for every life,
\* headroom and interval with interval < headroom < life (_TokenRefreshLoop).
THEOREM TokenIsKept == ServicesSpec => []TokenKept
<1>1. ServicesInit => TimesInv
  BY TimesStart, ServicesAssumption DEF ServicesInit, ServicesAssumption
<1>2. TimesInv /\ [ServicesNext]_servicesVars => TimesInv'
  BY TimesStep, OrderMoves, ServicesAssumption DEF ServicesAssumption
<1>3. TimesInv => TokenKept
  BY TimesHold, ServicesAssumption DEF TokenKept, ServicesAssumption
<1> QED BY <1>1, <1>2, <1>3, PTL DEF ServicesSpec

\* readyz says ok only with all migrations of the release, and behind the start command only with
\* its rows in the master, which holds no part of a payload at any time, for any containers,
\* releases, payloads and failures (verify_schema, migrate.py, upsert_seed).
THEOREM ReadyIsDeployed == ServicesSpec => []ReadyMeansDeployed
<1>1. ServicesInit => DeployInv
  BY DeployStart DEF ServicesInit
<1>2. DeployInv /\ [ServicesNext]_servicesVars => DeployInv'
  BY DeployStep, DeployMoves
<1>3. DeployInv => ReadyMeansDeployed
  BY DeployHolds DEF ReadyMeansDeployed
<1> QED BY <1>1, <1>2, <1>3, PTL DEF ServicesSpec

\* Types, lock queues and callers of all parts agree, for every value of the constants
\* (main.py's services).
THEOREM TypeCorrect == ServicesSpec => []ServicesTypeOK
  BY TypesStart, TypesStep, TypesHold, PTL DEF ServicesSpec
=============================================================================
