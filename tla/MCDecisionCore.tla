-------------------------- MODULE MCDecisionCore --------------------------
(* Instances of DecisionCore for TLC. *)
EXTENDS DecisionCore, TLC

CONSTANTS kis, yahoo,   \* publisher tasks
          krx, us       \* symbols

\* Both publishers feed the Korean symbol, the Yahoo publisher alone the other.
MixedFeeds == (kis :> {krx}) @@ (yahoo :> {krx, us})

\* main.py registers both agents without a weight: the default 1.0.
EqualWeights == [a \in Agents |-> 1]
===========================================================================
