----------------------------- MODULE Selection -----------------------------
(***************************************************************************)
(* What the program takes of a list or a table, as functions that can be   *)
(* reasoned about: the elements that pass a filter, in the order of the    *)
(* list (a loop with "continue", a list comprehension), and the rows of a  *)
(* set in an order (ORDER BY, sorted).                                     *)
(***************************************************************************)
EXTENDS Integers, Sequences, FiniteSets

\* The elements of list that are in set, in the order of list.
Kept(list, set) ==
  LET kept[i \in 0 .. Len(list)] ==
        IF i = 0 THEN <<>>
        ELSE IF list[i] \in set THEN Append(kept[i - 1], list[i])
        ELSE kept[i - 1]
  IN  kept[Len(list)]

\* The elements of set, each once, in the order that the pairs of order are.
InOrder(set, order) ==
  CHOOSE s \in [1 .. Cardinality(set) -> set] :
    /\ \A i, j \in 1 .. Cardinality(set) : i < j => <<s[i], s[j]>> \in order
    /\ \A x \in set : \E i \in 1 .. Cardinality(set) : s[i] = x
=============================================================================
