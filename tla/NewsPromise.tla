----------------------------- MODULE NewsPromise -----------------------------
(***************************************************************************)
(* What the news cache promises about its entries and its requests to      *)
(* upstream, without locks or callers: per symbol at most one request is   *)
(* out, and only while no fresh entry exists; it replaces the entry, or    *)
(* is given up with the caller that made it; and a symbol that has         *)
(* headlines keeps headlines.                                              *)
(***************************************************************************)
EXTENDS Integers

CONSTANTS Symbols, Ttl

VARIABLES clock, cache, asked   \* asked: the symbols whose request is out

vars == <<clock, cache, asked>>

Missing == [news |-> FALSE, at |-> -1]   \* no entry for the symbol

Init ==
  /\ clock = 0
  /\ cache = [s \in Symbols |-> Missing]
  /\ asked = {}

TimePasses ==
  /\ clock' = clock + 1
  /\ UNCHANGED <<cache, asked>>

Ask(s) ==
  /\ s \notin asked
  /\ cache[s] = Missing \/ clock - cache[s].at >= Ttl
  /\ asked' = asked \cup {s}
  /\ UNCHANGED <<clock, cache>>

Store(s) ==
  /\ s \in asked
  /\ \E news \in BOOLEAN :
       /\ cache[s].news => news
       /\ cache' = [cache EXCEPT ![s] = [news |-> news, at |-> clock]]
  /\ asked' = asked \ {s}
  /\ UNCHANGED clock

GiveUp(s) ==
  /\ s \in asked
  /\ asked' = asked \ {s}
  /\ UNCHANGED <<clock, cache>>

Next == TimePasses \/ \E s \in Symbols : Ask(s) \/ Store(s) \/ GiveUp(s)

Spec == Init /\ [][Next]_vars
=============================================================================
