--------------------------- MODULE ReadApiProofs ---------------------------
(***************************************************************************)
(* The read endpoints, for any requests, tickers, alarms, limit and number *)
(* of commits: the rows, pages and counters that a client reads are the    *)
(* store's, and what a failed query left out is empty.                     *)
(*                                                                         *)
(* A finite set has a list in any total order of its elements, so a page   *)
(* is the first Limit of all that match.  A request remembers what its     *)
(* calls have returned, and commits take nothing back: ticks, held         *)
(* securities and audit rows only grow, and alarms stay.  The invariant    *)
(* says of every request how its result so far relates to the tables, by   *)
(* the calls that are left.                                                *)
(***************************************************************************)
EXTENDS Services, Selection, FiniteSetTheorems, SequenceTheorems, WellFoundedInduction, TLAPS

\* Induction over a set of numbers, and lists of the elements of a finite set.

LEMMA NatSetInduction ==
  ASSUME NEW T \in SUBSET Nat, 0 \in T, \A n \in T : n + 1 \in T
  PROVE  \A n \in Nat : n \in T
<1> SUFFICES ASSUME Nat \ T # {} PROVE FALSE
  OBVIOUS
<1>1. \E x \in Nat \ T : \A y \in Nat \ T : ~ (<<y, x>> \in OpToRel(<, Nat))
  BY NatLessThanWellFounded, WFMin
<1>2. PICK x \in Nat \ T : \A y \in Nat \ T : ~ (y < x)
  BY <1>1 DEF OpToRel
<1> QED
  <2>1. x # 0 /\ x - 1 \in Nat
    OBVIOUS
  <2>2. x - 1 \in T
    BY <1>2, <2>1
  <2> QED BY <2>2

\* s lists the elements of set in the order.
Listed(s, set, order) ==
  /\ s \in [1 .. Cardinality(set) -> set]
  /\ \A i, j \in 1 .. Cardinality(set) : i < j => <<s[i], s[j]>> \in order
  /\ \A x \in set : \E i \in 1 .. Cardinality(set) : s[i] = x

LEMMA Least ==
  ASSUME NEW K \in SUBSET Nat, K # {}
  PROVE  \E k \in K : \A j \in K : k <= j
<1>1. \E x \in K : \A y \in K : ~ (<<y, x>> \in OpToRel(<, Nat))
  BY NatLessThanWellFounded, WFMin
<1>2. PICK x \in K : \A y \in K : ~ (y < x)
  BY <1>1 DEF OpToRel
<1> QED BY <1>2

\* One more element finds its place.
LEMMA OneMore ==
  ASSUME NEW S, NEW R,
         \A x, y \in S : x # y => <<x, y>> \in R \/ <<y, x>> \in R,
         \A x, y, z \in S : <<x, y>> \in R /\ <<y, z>> \in R => <<x, z>> \in R,
         NEW Y \in SUBSET S, NEW x \in S, x \notin Y, NEW n \in Nat, Cardinality(Y) = n,
         NEW s, Listed(s, Y, R), Cardinality(Y \cup {x}) = n + 1
  PROVE  \E t : Listed(t, Y \cup {x}, R)
<1> DEFINE K == {k \in 1 .. n + 1 : k = n + 1 \/ <<x, s[k]>> \in R}
<1>1. PICK k \in K : \A j \in K : k <= j
  <2>1. K \in SUBSET Nat /\ n + 1 \in K
    OBVIOUS
  <2> HIDE DEF K
  <2> QED BY <2>1, Least
<1>2. k \in 1 .. n + 1 /\ (k = n + 1 \/ <<x, s[k]>> \in R)
  OBVIOUS
<1>3. /\ s \in [1 .. n -> Y]
      /\ \A i, j \in 1 .. n : i < j => <<s[i], s[j]>> \in R
      /\ \A y \in Y : \E i \in 1 .. n : s[i] = y
  BY DEF Listed
<1>4. ASSUME NEW i \in 1 .. n PROVE s[i] \in S /\ s[i] \in Y /\ s[i] # x
  BY <1>3
<1>5. ASSUME NEW i \in 1 .. n, i < k PROVE <<s[i], x>> \in R
  <2>1. i \notin K
    BY <1>1, <1>5
  <2>2. <<x, s[i]>> \notin R
    BY <2>1
  <2> QED BY <1>4, <2>2
<1>6. ASSUME NEW i \in 1 .. n, i >= k PROVE <<x, s[i]>> \in R
  <2>1. k \in 1 .. n /\ <<x, s[k]>> \in R
    BY <1>2, <1>6
  <2>2. CASE i = k
    BY <2>1, <2>2
  <2>3. CASE i # k
    <3>1. <<s[k], s[i]>> \in R
      BY <1>3, <1>6, <2>1, <2>3
    <3> QED BY <2>1, <3>1, <1>4
  <2> QED BY <2>2, <2>3
<1> HIDE DEF K
<1> DEFINE t == [i \in 1 .. n + 1 |-> IF i < k THEN s[i] ELSE IF i = k THEN x ELSE s[i - 1]]
<1>7. \A i \in 1 .. n + 1 : /\ i < k => i \in 1 .. n /\ t[i] = s[i]
                            /\ i = k => t[i] = x
                            /\ i > k => i - 1 \in 1 .. n /\ i - 1 >= k /\ t[i] = s[i - 1]
  BY <1>2
<1>8. t \in [1 .. n + 1 -> Y \cup {x}]
  <2>1. ASSUME NEW i \in 1 .. n + 1
        PROVE  (IF i < k THEN s[i] ELSE IF i = k THEN x ELSE s[i - 1]) \in Y \cup {x}
    <3>1. i < k => i \in 1 .. n
      BY <1>2
    <3>2. i > k => i - 1 \in 1 .. n
      BY <1>2
    <3>3. i < k \/ i = k \/ i > k
      BY <1>2
    <3> QED BY <3>1, <3>2, <3>3, <1>4
  <2> QED BY <2>1
<1> HIDE DEF t
<1>9. ASSUME NEW i \in 1 .. n + 1, NEW j \in 1 .. n + 1, i < j PROVE <<t[i], t[j]>> \in R
  <2>1. CASE j < k
    BY <1>2, <1>3, <1>7, <1>9, <2>1
  <2>2. CASE j = k
    BY <1>2, <1>5, <1>7, <1>9, <2>2
  <2>3. CASE j > k
    <3>1. j - 1 \in 1 .. n /\ j - 1 >= k /\ t[j] = s[j - 1]
      BY <1>7, <2>3
    <3>2. CASE i < k
      <4>1. i \in 1 .. n /\ t[i] = s[i] /\ i < j - 1
        BY <1>2, <1>7, <3>1, <3>2
      <4> QED BY <3>1, <4>1, <1>3
    <3>3. CASE i = k
      BY <3>1, <3>3, <1>6, <1>7
    <3>4. CASE i > k
      <4>1. i - 1 \in 1 .. n /\ t[i] = s[i - 1] /\ i - 1 < j - 1
        BY <1>7, <1>9, <3>4
      <4> QED BY <3>1, <4>1, <1>3
    <3> QED BY <1>2, <3>2, <3>3, <3>4
  <2> QED BY <1>2, <2>1, <2>2, <2>3
<1>10. ASSUME NEW y \in Y \cup {x} PROVE \E i \in 1 .. n + 1 : t[i] = y
  <2>1. CASE y = x
    BY <1>2, <1>7, <2>1
  <2>2. CASE y # x
    <3>1. PICK i \in 1 .. n : s[i] = y
      BY <1>3, <2>2
    <3>2. CASE i < k
      <4>1. i \in 1 .. n + 1 /\ t[i] = y
        BY <1>7, <3>1, <3>2
      <4> QED BY <4>1
    <3>3. CASE i >= k
      <4>1. i + 1 \in 1 .. n + 1 /\ i + 1 > k
        BY <1>2, <3>3
      <4>2. t[i + 1] = s[i]
        BY <1>7, <4>1
      <4> QED BY <3>1, <4>1, <4>2
    <3> QED BY <1>2, <3>2, <3>3
  <2> QED BY <2>1, <2>2
<1>11. Listed(t, Y \cup {x}, R)
  <2> DEFINE Z == Y \cup {x}
             m == n + 1
  <2>1. /\ t \in [1 .. m -> Z]
        /\ \A i, j \in 1 .. m : i < j => <<t[i], t[j]>> \in R
        /\ \A y \in Z : \E i \in 1 .. m : t[i] = y
    BY <1>8, <1>9, <1>10
  <2>2. Cardinality(Z) = m
    OBVIOUS
  <2> HIDE DEF Z, m
  <2>3. Listed(t, Z, R)
    BY ONLY <2>1, <2>2, Zenon DEF Listed
  <2> QED BY <2>3 DEF Z
<1> QED BY <1>11

LEMMA ListExists ==
  ASSUME NEW S, IsFiniteSet(S), NEW R,
         \A x, y \in S : x # y => <<x, y>> \in R \/ <<y, x>> \in R,
         \A x, y, z \in S : <<x, y>> \in R /\ <<y, z>> \in R => <<x, z>> \in R
  PROVE  \E s : Listed(s, S, R)
<1> DEFINE T == {n \in Nat : \A X \in SUBSET S : Cardinality(X) = n => \E s : Listed(s, X, R)}
<1>0. \A X \in SUBSET S : IsFiniteSet(X)
  BY FS_Subset
<1>1. 0 \in T
  <2>1. ASSUME NEW X \in SUBSET S, Cardinality(X) = 0 PROVE \E s : Listed(s, X, R)
    <3>1. X = {}
      BY <1>0, <2>1, FS_EmptySet
    <3> DEFINE s == [i \in 1 .. 0 |-> i]
    <3>2. s \in [1 .. 0 -> X] /\ (\A i : i \notin 1 .. 0)
      OBVIOUS
    <3> HIDE DEF s
    <3>3. Listed(s, X, R)
      BY <2>1, <3>1, <3>2 DEF Listed
    <3> QED BY <3>3
  <2> QED BY <2>1
<1>2. ASSUME NEW n \in T PROVE n + 1 \in T
  <2>1. ASSUME NEW X \in SUBSET S, Cardinality(X) = n + 1 PROVE \E s : Listed(s, X, R)
    <3>1. X # {}
      BY <2>1, FS_EmptySet
    <3>2. PICK x \in X : TRUE
      BY <3>1
    <3> DEFINE Y == X \ {x}
    <3>3. Y \in SUBSET S /\ Cardinality(Y) = n /\ Y \cup {x} = X /\ x \notin Y /\ x \in S
      <4>1. IsFiniteSet(X)
        BY <1>0
      <4>2. Cardinality(X \ {x}) = Cardinality(X) - 1
        BY <4>1, FS_RemoveElement
      <4>3. Cardinality(Y) = n
        BY <2>1, <4>2
      <4> QED BY <4>3
    <3>4. PICK s : Listed(s, Y, R)
      BY <3>3
    <3> HIDE DEF Y
    <3> QED BY <2>1, <3>3, <3>4, OneMore
  <2> QED BY <2>1
<1>3. \A n \in Nat : n \in T
  <2> HIDE DEF T
  <2> QED BY <1>1, <1>2, NatSetInduction DEF T
<1>4. Cardinality(S) \in Nat
  BY FS_CardinalityType
<1> QED BY <1>3, <1>4

\* The elements of a finite set in a total order.
LEMMA InOrderOk ==
  ASSUME NEW S, IsFiniteSet(S), NEW R,
         \A x, y \in S : x # y => <<x, y>> \in R \/ <<y, x>> \in R,
         \A x, y, z \in S : <<x, y>> \in R /\ <<y, z>> \in R => <<x, z>> \in R
  PROVE  Listed(InOrder(S, R), S, R) /\ Cardinality(S) \in Nat
<1>1. PICK s : Listed(s, S, R)
  BY ListExists
<1>2. /\ s \in [1 .. Cardinality(S) -> S]
      /\ \A i, j \in 1 .. Cardinality(S) : i < j => <<s[i], s[j]>> \in R
      /\ \A x \in S : \E i \in 1 .. Cardinality(S) : s[i] = x
  BY <1>1 DEF Listed
<1>3. Listed(InOrder(S, R), S, R)
  BY <1>2, Zenon DEF InOrder, Listed
<1> QED BY <1>3, FS_CardinalityType

-----------------------------------------------------------------------------
\* The parameters, and operators that ReadApi has of its own.

LEMMA ApiSame ==
  /\ \A S : Api!Cardinality(S) = Cardinality(S) /\ (Api!IsFiniteSet(S) <=> IsFiniteSet(S))
  /\ \A S, R : Api!InOrder(S, R) = InOrder(S, R)
<1>1. \A S : Api!Cardinality(S) = Cardinality(S)
  BY Zenon DEF Api!Cardinality, Cardinality
<1>2. \A S : Api!IsFiniteSet(S) <=> IsFiniteSet(S)
  BY Zenon DEF Api!IsFiniteSet, IsFiniteSet
<1>3. \A S, R : Api!InOrder(S, R) = InOrder(S, R)
  BY <1>1, Zenon DEF Api!InOrder, InOrder
<1> QED BY <1>1, <1>2, <1>3

LEMMA ApiParameters ==
  /\ IsFiniteSet(Companies) /\ Companies = 1 .. Cardinality(Companies) /\ 1 \in Companies
  /\ Companies \subseteq Nat
  /\ AlarmIds \in SUBSET Nat /\ IsFiniteSet(AlarmIds) /\ Limit \in Nat \ {0} /\ MaxWrites \in Nat
<1>1. /\ IsFiniteSet(Companies) /\ Companies # {} /\ Companies = 1 .. Cardinality(Companies)
      /\ AlarmIds \in SUBSET Nat /\ IsFiniteSet(AlarmIds) /\ Limit \in Nat \ {0} /\ MaxWrites \in Nat
  BY ServicesAssumption, ApiSame, Zenon DEF ServicesAssumption, Api!ParametersOk
<1>2. Cardinality(Companies) \in Nat
  BY <1>1, FS_CardinalityType
<1> QED BY <1>1, <1>2

-----------------------------------------------------------------------------
\* page is the first n of the c elements of s, and has m.
FirstIs(page, n, s, c, m) ==
  /\ m <= c /\ m <= n /\ (m < c => m = n)
  /\ page = [i \in 1 .. m |-> s[i]] /\ Len(page) = m /\ DOMAIN page = 1 .. m

LEMMA FirstOf ==
  ASSUME NEW n \in Nat, NEW S, NEW c \in Nat, NEW s \in [1 .. c -> S]
  PROVE  \E m \in Nat : FirstIs(Api!First(n, s), n, s, c, m)
<1>1. s \in Seq(S) /\ Len(s) = c
  BY SeqDef
<1> DEFINE m == IF n < c THEN n ELSE c
<1>2. m \in Nat /\ m <= c /\ m <= n /\ (m < c => m = n)
  BY SMT
<1>3. Api!First(n, s) = [i \in 1 .. m |-> s[i]]
  BY <1>1 DEF Api!First
<1> HIDE DEF m
<1>4. [i \in 1 .. m |-> s[i]] \in [1 .. m -> S]
  BY <1>2
<1>5. Len([i \in 1 .. m |-> s[i]]) = m
  BY <1>2, <1>4, SeqDef
<1>6. FirstIs(Api!First(n, s), n, s, c, m)
  BY <1>2, <1>3, <1>5 DEF FirstIs
<1> QED BY <1>2, <1>6

\* A list that repeats nothing has as many elements as it is long.
LEMMA NoRepetition ==
  ASSUME NEW m \in Nat, NEW s, DOMAIN s = 1 .. m,
         \A i, j \in 1 .. m : i < j => s[i] # s[j]
  PROVE  Cardinality({s[i] : i \in 1 .. m}) = m
<1> DEFINE T == {s[i] : i \in 1 .. m}
           f == [i \in 1 .. m |-> s[i]]
<1>1. \A i, j \in 1 .. m : s[i] = s[j] => i = j
  OBVIOUS
<1>2. f \in Bijection(1 .. m, T)
  BY <1>1 DEF Bijection, Injection, Surjection, IsInjective
<1>3. ExistsBijection(1 .. m, T)
  BY <1>2 DEF ExistsBijection
<1> HIDE DEF T, f
<1>4. Cardinality(T) = m
  BY <1>3, FS_CountingElements
<1> QED BY <1>4 DEF T

\* Alarms of a page: what matches the filter, newest first.
Match(al, since) == {a \in AlarmIds : al[a] = "active" /\ Api!At(a) >= since}

LEMMA NewestIsTotal ==
  /\ \A a, b \in AlarmIds : a # b => <<a, b>> \in Api!NewestFirst \/ <<b, a>> \in Api!NewestFirst
  /\ \A a, b, c \in AlarmIds :
       <<a, b>> \in Api!NewestFirst /\ <<b, c>> \in Api!NewestFirst => <<a, c>> \in Api!NewestFirst
  /\ \A a, b \in AlarmIds : <<a, b>> \in Api!NewestFirst => Api!Newer(a, b) /\ a # b
<1>1. \A a \in AlarmIds : a \in Nat /\ Api!At(a) \in Nat
  BY ApiParameters DEF Api!At
<1>2. \A a, b : <<a, b>> \in Api!NewestFirst <=> a \in AlarmIds /\ b \in AlarmIds /\ Api!Newer(a, b)
  BY DEF Api!NewestFirst
<1> QED BY <1>1, <1>2 DEF Api!Newer

\* What a page of alarms and its total say of the alarms.
PageOk(items, total, al, since) ==
  /\ Cardinality({items[i] : i \in DOMAIN items}) = Len(items)
  /\ \A i \in DOMAIN items : \A b \in Match(al, since) \ {items[j] : j \in DOMAIN items} :
       Api!Newer(items[i], b)
  /\ total > Len(items) => Len(items) = Limit
  /\ total = Cardinality(Match(al, since))

LEMMA NewestOk ==
  ASSUME NEW since
  PROVE  PageOk(Api!Newest(since), Api!Cardinality(Api!Matched(since)), alarms, since)
<1> DEFINE C == Match(alarms, since)
           L == InOrder(C, Api!NewestFirst)
           n == Cardinality(C)
           page == Api!Newest(since)
<1>1. C \subseteq AlarmIds /\ IsFiniteSet(C) /\ Api!Matched(since) = C
  <2>1. C \in SUBSET AlarmIds /\ Api!Matched(since) = C
    BY DEF Match, Api!Matched
  <2> QED BY <2>1, ApiParameters, FS_Subset
<1> HIDE DEF C
<1>2. Listed(L, C, Api!NewestFirst) /\ n \in Nat
  BY <1>1, NewestIsTotal, InOrderOk
<1>3. /\ L \in [1 .. n -> C]
      /\ \A i, j \in 1 .. n : i < j => <<L[i], L[j]>> \in Api!NewestFirst
      /\ \A x \in C : \E i \in 1 .. n : L[i] = x
  BY <1>2 DEF Listed
<1>4. page = Api!First(Limit, L)
  BY <1>1, ApiSame, Zenon DEF Api!Newest
<1>9. Api!Cardinality(Api!Matched(since)) = n
  BY <1>1, ApiSame
<1> HIDE DEF L, page, n
<1>14. PICK m \in Nat : FirstIs(page, Limit, L, n, m)
  <2>1. Limit \in Nat
    BY ApiParameters
  <2>2. \E m \in Nat : FirstIs(Api!First(Limit, L), Limit, L, n, m)
    BY <1>2, <1>3, <2>1, FirstOf
  <2> QED BY <1>4, <2>2
<1>5. /\ m <= n /\ m <= Limit /\ (m < n => m = Limit)
      /\ page = [i \in 1 .. m |-> L[i]] /\ Len(page) = m /\ DOMAIN page = 1 .. m
  BY <1>14 DEF FirstIs
<1>6. \A i \in 1 .. m : page[i] = L[i] /\ i \in 1 .. n /\ L[i] \in AlarmIds
  BY <1>1, <1>2, <1>3, <1>5
<1>7. Cardinality({page[i] : i \in 1 .. m}) = m
  <2>1. ASSUME NEW i \in 1 .. m, NEW j \in 1 .. m, i < j PROVE page[i] # page[j]
    <3>1. <<L[i], L[j]>> \in Api!NewestFirst
      BY <1>2, <1>3, <1>6, <2>1
    <3> QED BY <1>6, <3>1, NewestIsTotal
  <2> QED BY <1>5, <2>1, NoRepetition
<1>8. ASSUME NEW i \in 1 .. m, NEW b \in C, \A j \in 1 .. m : page[j] # b
      PROVE  Api!Newer(page[i], b)
  <2>1. PICK k \in 1 .. n : L[k] = b
    BY <1>3
  <2>2. k > m
    BY <1>2, <1>6, <1>8, <2>1
  <2>3. <<L[i], L[k]>> \in Api!NewestFirst
    <3>1. i \in 1 .. n /\ i < k
      BY <1>5, <1>6, <2>2
    <3> QED BY <3>1, <1>3
  <2> QED BY <1>1, <1>6, <2>1, <2>3, NewestIsTotal
<1>10. n > Len(page) => Len(page) = Limit
  BY <1>2, <1>5, ApiParameters
<1>11. \A i \in DOMAIN page : \A b \in C \ {page[j] : j \in DOMAIN page} : Api!Newer(page[i], b)
  BY <1>5, <1>8
<1>12. Cardinality({page[i] : i \in DOMAIN page}) = Len(page)
  BY <1>5, <1>7
<1>13. Match(alarms, since) = C
  BY DEF C
<1> QED BY <1>9, <1>10, <1>11, <1>12, <1>13 DEF PageOk, n, page

-----------------------------------------------------------------------------
Held(c) == {t \in Companies : c[t] # 0}

LEMMA MatchingHeld ==
  /\ Api!Matching(0) = Held(companies)
  /\ \A s : Api!Matching(s) \subseteq Companies /\ IsFiniteSet(Api!Matching(s))
<1>1. Api!Matching(0) = Held(companies) /\ \A s : Api!Matching(s) \in SUBSET Companies
  BY DEF Api!Matching, Held
<1> QED BY <1>1, ApiParameters, FS_Subset

LEMMA MatchingIs ==
  \A s : /\ Api!Matching(s) \subseteq Held(companies)
         /\ s = 0 => Api!Matching(s) = Held(companies)
         /\ s # 0 => Api!Matching(s) = {t \in Held(companies) : companies[t] = s}
         /\ s # 0 => \A t \in Companies : companies[t] = s => t \in Api!Matching(s)
         /\ \A t \in Api!Matching(s) : s # 0 => t \in Companies /\ companies[t] = s
BY DEF Api!Matching, Held

Entries(list) == {list[i] : i \in DOMAIN list}

\* A page of a table in its order.
LEMMA FirstInOrder ==
  ASSUME NEW n \in Nat, NEW S, IsFiniteSet(S), NEW R,
         \A x, y \in S : x # y => <<x, y>> \in R \/ <<y, x>> \in R,
         \A x, y, z \in S : <<x, y>> \in R /\ <<y, z>> \in R => <<x, z>> \in R,
         NEW page, page = Api!First(n, Api!InOrder(S, R))
  PROVE  /\ Len(page) \in Nat /\ Len(page) <= n /\ DOMAIN page = 1 .. Len(page)
         /\ Entries(page) \subseteq S
         /\ \A i, j \in 1 .. Len(page) : i < j => <<page[i], page[j]>> \in R
<1> DEFINE L == InOrder(S, R)
           m == Cardinality(S)
<1>1. Listed(L, S, R) /\ m \in Nat
  BY InOrderOk
<1>2. page = Api!First(n, L)
  BY ApiSame
<1>3. L \in [1 .. m -> S] /\ \A i, j \in 1 .. m : i < j => <<L[i], L[j]>> \in R
  BY <1>1 DEF Listed
<1> HIDE DEF L, m
<1>4. PICK k \in Nat : FirstIs(page, n, L, m, k)
  BY <1>1, <1>2, <1>3, FirstOf
<1>5. k <= m /\ k <= n /\ Len(page) = k /\ DOMAIN page = 1 .. k /\ \A i \in 1 .. k : page[i] = L[i]
  BY <1>4 DEF FirstIs
<1>6. \A i \in 1 .. k : i \in 1 .. m /\ page[i] = L[i] /\ L[i] \in S
  BY <1>1, <1>3, <1>5
<1>7. Entries(page) \subseteq S
  BY <1>5, <1>6 DEF Entries
<1>8. \A i, j \in 1 .. k : i < j => <<page[i], page[j]>> \in R
  BY <1>3, <1>6
<1> QED BY <1>5, <1>7, <1>8

LEMMA SecuritiesOk ==
  ASSUME NEW s, NEW page, page = Api!ListSecurities(s)
  PROVE  /\ Entries(page) \subseteq Api!Matching(s) /\ Len(page) <= Limit
         /\ Cardinality(Entries(page)) = Len(page)
<1> DEFINE C == Api!Matching(s)
           R == Api!ByTicker
<1>1. C \subseteq Companies /\ IsFiniteSet(C) /\ \A x \in Companies : x \in Nat
  BY MatchingHeld, ApiParameters
<1>2. page = Api!First(Limit, Api!InOrder(C, R))
  BY Zenon DEF Api!ListSecurities
<1> HIDE DEF C
<1>3. \A x, y : <<x, y>> \in R <=> x \in Companies /\ y \in Companies /\ x < y
  BY DEF Api!ByTicker
<1> HIDE DEF R
<1>4. /\ \A x, y \in C : x # y => <<x, y>> \in R \/ <<y, x>> \in R
      /\ \A x, y, z \in C : <<x, y>> \in R /\ <<y, z>> \in R => <<x, z>> \in R
  BY <1>1, <1>3
<1>5. Limit \in Nat
  BY ApiParameters
<1>6. /\ Len(page) \in Nat /\ Len(page) <= Limit /\ DOMAIN page = 1 .. Len(page)
      /\ Entries(page) \subseteq C
      /\ \A i, j \in 1 .. Len(page) : i < j => <<page[i], page[j]>> \in R
  BY <1>1, <1>2, <1>4, <1>5, FirstInOrder
<1>7. ASSUME NEW i \in 1 .. Len(page), NEW j \in 1 .. Len(page), i < j PROVE page[i] # page[j]
  <2>1. <<page[i], page[j]>> \in R
    BY <1>6, <1>7
  <2>2. page[i] < page[j] /\ page[i] \in Nat
    BY <1>1, <1>3, <2>1
  <2> QED BY <2>2
<1>8. Cardinality({page[i] : i \in 1 .. Len(page)}) = Len(page)
  BY <1>6, <1>7, NoRepetition
<1>9. Entries(page) = {page[i] : i \in 1 .. Len(page)}
  BY <1>6 DEF Entries
<1> QED BY <1>6, <1>8, <1>9 DEF C

-----------------------------------------------------------------------------
\* The ticks of some symbols.
TicksAt(tk, S) == {x \in tk : x.symbol \in S}

LEMMA TicksOfAt ==
  /\ \A list : Api!TicksOf(list) = TicksAt(ticks, {list[i] : i \in DOMAIN list})
  /\ \A t : Api!TicksOf(<<t>>) = TicksAt(ticks, {t})
<1>1. \A list : Api!TicksOf(list) = TicksAt(ticks, {list[i] : i \in DOMAIN list})
  BY Zenon DEF Api!TicksOf, TicksAt, Api!Range
<1>2. \A t : {<<t>>[i] : i \in DOMAIN <<t>>} = {t}
  OBVIOUS
<1> QED BY <1>1, <1>2, Zenon

TickRows == [symbol : Companies, at : Api!Times]

LEMMA TicksFinite ==
  ASSUME NEW tk \in SUBSET TickRows, NEW S
  PROVE  IsFiniteSet(tk) /\ IsFiniteSet(TicksAt(tk, S)) /\ Cardinality(TicksAt(tk, S)) \in Nat
<1>1. IsFiniteSet(Api!Times)
  <2>1. Api!Times = 1 .. 2
    BY DEF Api!Times
  <2>2. 1 \in Int /\ 2 \in Int
    OBVIOUS
  <2>3. IsFiniteSet(1 .. 2)
    BY <2>2, FS_Interval, Zenon
  <2> QED BY <2>1, <2>3, Zenon
<1>2. IsFiniteSet(Companies \X Api!Times)
  BY <1>1, ApiParameters, FS_Product
<1> DEFINE f == [p \in Companies \X Api!Times |-> [symbol |-> p[1], at |-> p[2]]]
<1>3. f \in Surjection(Companies \X Api!Times, TickRows)
  <2>1. \A p \in Companies \X Api!Times : f[p] \in TickRows
    BY DEF TickRows
  <2>2. ASSUME NEW x \in TickRows PROVE \E p \in Companies \X Api!Times : f[p] = x
    <3>1. x.symbol \in Companies /\ x.at \in Api!Times /\ x = [symbol |-> x.symbol, at |-> x.at]
      BY DEF TickRows
    <3>2. <<x.symbol, x.at>> \in Companies \X Api!Times /\ f[<<x.symbol, x.at>>] = x
      BY <3>1
    <3> QED BY <3>2
  <2> QED BY <2>1, <2>2 DEF Surjection
<1>4. IsFiniteSet(TickRows)
  <2> HIDE DEF f
  <2> QED BY <1>2, <1>3, FS_Surjection
<1>5. IsFiniteSet(tk)
  BY <1>4, FS_Subset
<1>6. TicksAt(tk, S) \in SUBSET tk
  BY DEF TicksAt
<1> QED BY <1>5, <1>6, FS_Subset, FS_CardinalityType

\* Volumes: one bucket for every symbol asked for.
VolumeOk(items, asked, tk) ==
  /\ Len(items) = Len(asked)
  /\ DOMAIN items = DOMAIN asked
  /\ \A i \in DOMAIN items :
       /\ items[i].symbol = asked[i]
       /\ items[i].n \in Nat /\ items[i].n <= Cardinality(TicksAt(tk, {asked[i]}))

LEMMA AggregateOk ==
  ASSUME ticks \in SUBSET TickRows, NEW asked \in Seq(Companies)
  PROVE  VolumeOk(Api!AggregateVolume(asked), asked, ticks)
<1> DEFINE items == Api!AggregateVolume(asked)
           bucket(i) == {x \in Api!TicksOf(<<asked[i]>>) : x.at >= Api!Since}
<1>1. items = [i \in DOMAIN asked |-> [symbol |-> asked[i], n |-> Cardinality(bucket(i))]]
  BY ApiSame, Zenon DEF Api!AggregateVolume
<1>2. DOMAIN asked = 1 .. Len(asked) /\ Len(asked) \in Nat
  OBVIOUS
<1> HIDE DEF items
<1>3. ASSUME NEW i \in DOMAIN asked
      PROVE  /\ Cardinality(bucket(i)) \in Nat
             /\ Cardinality(bucket(i)) <= Cardinality(TicksAt(ticks, {asked[i]}))
  <2>1. bucket(i) \in SUBSET TicksAt(ticks, {asked[i]})
    BY TicksOfAt
  <2> HIDE DEF bucket
  <2>2. IsFiniteSet(TicksAt(ticks, {asked[i]}))
    BY TicksFinite
  <2>3. IsFiniteSet(bucket(i)) /\ Cardinality(bucket(i)) <= Cardinality(TicksAt(ticks, {asked[i]}))
    BY <2>1, <2>2, FS_Subset
  <2> QED BY <2>3, FS_CardinalityType
<1> HIDE DEF bucket
<1>4. DOMAIN items = 1 .. Len(asked)
  BY <1>1, <1>2
<1>5. Len(items) = Len(asked)
  <2>1. items \in [1 .. Len(asked) -> {items[i] : i \in 1 .. Len(asked)}]
    BY <1>1, <1>2
  <2> QED BY <2>1, <1>2, SeqDef
<1>6. \A i \in DOMAIN asked : items[i].symbol = asked[i] /\ items[i].n = Cardinality(bucket(i))
  BY <1>1
<1> QED BY <1>2, <1>3, <1>4, <1>5, <1>6 DEF VolumeOk, items

\* The last ticks: one per symbol, of symbols that were asked for.
SnapshotOk(items, S, tk) ==
  \A i, j \in DOMAIN items : items[i] \in TicksAt(tk, S) /\ (i # j => items[i].symbol # items[j].symbol)

LEMMA SnapshotIsOk ==
  ASSUME ticks \in SUBSET TickRows, NEW asked
  PROVE  SnapshotOk(Api!SnapshotPerSymbol(asked), {asked[i] : i \in DOMAIN asked}, ticks)
<1> DEFINE S == {asked[i] : i \in DOMAIN asked}
           C == {x \in Api!TicksOf(asked) : \A y \in Api!TicksOf(<<x.symbol>>) : y.at <= x.at}
           R == {p \in C \X C : p[1].symbol < p[2].symbol}
           L == InOrder(C, R)
           n == Cardinality(C)
<1>1. Api!SnapshotPerSymbol(asked) = L
  BY ApiSame, Zenon DEF Api!SnapshotPerSymbol
<1>2. C \in SUBSET TicksAt(ticks, S) /\ IsFiniteSet(C)
  <2>1. C \in SUBSET TicksAt(ticks, S)
    BY TicksOfAt
  <2>2. IsFiniteSet(TicksAt(ticks, S))
    BY TicksFinite
  <2> QED BY <2>1, <2>2, FS_Subset
<1>3. \A x \in C : x \in ticks /\ x.symbol \in Nat /\ x.at \in Nat
                   /\ x = [symbol |-> x.symbol, at |-> x.at]
  BY <1>2, ApiParameters DEF TicksAt, TickRows, Api!Times
<1>4. \A x, y \in C : y.symbol = x.symbol => y.at <= x.at
  BY <1>3, TicksOfAt DEF TicksAt
<1>5. \A x, y \in C : x.symbol = y.symbol => x = y
  <2>1. ASSUME NEW x \in C, NEW y \in C, x.symbol = y.symbol PROVE x = y
    <3>1. x.at <= y.at /\ y.at <= x.at /\ x.at \in Nat /\ y.at \in Nat
      BY <2>1, <1>3, <1>4
    <3>2. x.at = y.at
      BY <3>1
    <3> QED BY <2>1, <3>2, <1>3
  <2> QED BY <2>1
<1>6. \A x, y : <<x, y>> \in R <=> x \in C /\ y \in C /\ x.symbol < y.symbol
  OBVIOUS
<1> HIDE DEF C, R
<1>7. /\ \A x, y \in C : x # y => <<x, y>> \in R \/ <<y, x>> \in R
      /\ \A x, y, z \in C : <<x, y>> \in R /\ <<y, z>> \in R => <<x, z>> \in R
  BY <1>3, <1>5, <1>6
<1>8. Listed(L, C, R) /\ n \in Nat
  BY <1>2, <1>7, InOrderOk
<1>9. /\ L \in [1 .. n -> C]
      /\ \A i, j \in 1 .. n : i < j => <<L[i], L[j]>> \in R
  BY <1>8 DEF Listed
<1> HIDE DEF L, n
<1>10. ASSUME NEW i \in DOMAIN L, NEW j \in DOMAIN L
       PROVE  L[i] \in TicksAt(ticks, S) /\ (i # j => L[i].symbol # L[j].symbol)
  <2>1. i \in 1 .. n /\ j \in 1 .. n /\ L[i] \in C /\ L[j] \in C
    BY <1>9
  <2>2. L[i].symbol \in Nat /\ L[j].symbol \in Nat
    BY <2>1, <1>3
  <2>3. i < j => L[i].symbol < L[j].symbol
    BY <2>1, <1>6, <1>9
  <2>4. j < i => L[j].symbol < L[i].symbol
    BY <2>1, <1>6, <1>9
  <2>5. i # j => i < j \/ j < i
    BY <1>8, <2>1
  <2>6. i # j => L[i].symbol # L[j].symbol
    BY <2>2, <2>3, <2>4, <2>5
  <2> QED BY <2>1, <2>6, <1>2
<1> QED BY <1>1, <1>10 DEF SnapshotOk

\* The rows of the other lists: the tape, the relations and the audit rows of a symbol.
LEMMA TapeOk ==
  ASSUME ticks \in SUBSET TickRows, NEW asked, NEW page, page = Api!ListRecentTape(asked)
  PROVE  Entries(page) \subseteq TicksAt(ticks, Entries(asked)) /\ Len(page) <= Limit
<1> DEFINE C == TicksAt(ticks, Entries(asked))
           R == Api!Later
<1>1. page = Api!First(Limit, Api!InOrder(C, R))
  BY TicksOfAt, Zenon DEF Api!ListRecentTape, Entries
<1>2. IsFiniteSet(C) /\ C \in SUBSET ticks
  BY TicksFinite DEF TicksAt
<1>3. \A x \in ticks : /\ x.symbol \in Nat /\ x.at \in Nat
                       /\ x = [symbol |-> x.symbol, at |-> x.at]
  <2>1. ASSUME NEW x \in [symbol : Companies, at : 1 .. 2]
        PROVE  x.symbol \in Nat /\ x.at \in Nat /\ x = [symbol |-> x.symbol, at |-> x.at]
    <3>1. Companies \subseteq Nat
      BY ApiParameters
    <3>2. x.symbol \in Companies /\ x.at \in 1 .. 2
      OBVIOUS
    <3>3. x = [symbol |-> x.symbol, at |-> x.at]
      OBVIOUS
    <3>4. \A a \in 1 .. 2 : a \in Nat
      OBVIOUS
    <3> QED BY <3>1, <3>2, <3>3, <3>4, Zenon
  <2>2. TickRows = [symbol : Companies, at : 1 .. 2]
    <3>1. Api!Times = 1 .. 2
      BY DEF Api!Times
    <3> QED BY <3>1 DEF TickRows
  <2> QED BY <2>1, <2>2
<1>4. \A x, y : <<x, y>> \in R <=>
        /\ x \in ticks /\ y \in ticks
        /\ x.at > y.at \/ (x.at = y.at /\ x.symbol < y.symbol)
  BY DEF Api!Later
<1> HIDE DEF C, R
<1>5. ASSUME NEW x \in C, NEW y \in C, x # y PROVE <<x, y>> \in R \/ <<y, x>> \in R
  <2>1. x.symbol # y.symbol \/ x.at # y.at
    BY <1>2, <1>3, <1>5
  <2> QED BY <1>2, <1>3, <1>4, <2>1
<1>6. \A x, y, z \in C : <<x, y>> \in R /\ <<y, z>> \in R => <<x, z>> \in R
  BY <1>2, <1>3, <1>4
<1>7. Limit \in Nat
  BY ApiParameters
<1>8. Len(page) <= Limit /\ Entries(page) \subseteq C
  BY <1>1, <1>2, <1>5, <1>6, <1>7, FirstInOrder
<1> QED BY <1>8 DEF C

Touch(rel, asked) == {p \in rel : asked = <<>> \/ {p[1], p[2]} \cap Entries(asked) # {}}

LEMMA RelationsOk ==
  ASSUME relations \in SUBSET (Companies \X Companies), NEW asked, NEW list,
         list = Api!ListRelations(asked)
  PROVE  Entries(list) \subseteq Touch(relations, asked)
<1> DEFINE C == Touch(relations, asked)
           R == Api!ByEnds
           L == InOrder(C, R)
<1>1. Api!Touching(asked) = C
  BY Zenon DEF Api!Touching, Touch, Entries, Api!Range
<1>2. list = L
  BY <1>1, ApiSame, Zenon DEF Api!ListRelations
<1>3. C \in SUBSET (Companies \X Companies) /\ C \in SUBSET relations
  BY DEF Touch
<1>4. IsFiniteSet(C)
  BY <1>3, ApiParameters, FS_Product, FS_Subset
<1>5. \A x, y : <<x, y>> \in R <=>
        /\ x \in relations /\ y \in relations
        /\ x[1] < y[1] \/ (x[1] = y[1] /\ x[2] < y[2])
  BY DEF Api!ByEnds
<1>6. \A x \in C : x \in relations /\ x[1] \in Nat /\ x[2] \in Nat /\ x = <<x[1], x[2]>>
  BY <1>3, ApiParameters
<1> HIDE DEF C, R
<1>7. ASSUME NEW x \in C, NEW y \in C, x # y PROVE <<x, y>> \in R \/ <<y, x>> \in R
  <2>1. x[1] # y[1] \/ x[2] # y[2]
    BY <1>6, <1>7
  <2> QED BY <1>5, <1>6, <2>1
<1>8. \A x, y, z \in C : <<x, y>> \in R /\ <<y, z>> \in R => <<x, z>> \in R
  BY <1>5, <1>6
<1>9. Listed(L, C, R)
  BY <1>4, <1>7, <1>8, InOrderOk
<1>10. L \in [1 .. Cardinality(C) -> C]
  BY <1>9 DEF Listed
<1> HIDE DEF L
<1>11. Entries(L) \subseteq C
  BY <1>10 DEF Entries
<1> QED BY <1>2, <1>11 DEF C

AuditRows == {audits[i] : i \in DOMAIN audits}

LEMMA AuditOk ==
  ASSUME audits \in Seq([symbol : Companies, outcome : Api!Outcomes]), NEW t, NEW page,
         page = Api!FetchRecent(t)
  PROVE  Entries(page) \subseteq {row \in AuditRows : row.symbol = t} /\ Len(page) <= Limit
<1> DEFINE C == Api!RowsOf(t)
           R == {p \in C \X C : p[1] > p[2]}
           latest == Api!First(Limit, Api!InOrder(C, R))
<1>1. page = [k \in DOMAIN latest |-> audits[latest[k]]]
  BY Zenon DEF Api!FetchRecent
<1>2. DOMAIN audits = 1 .. Len(audits) /\ Len(audits) \in Nat
  OBVIOUS
<1>3. C \in SUBSET (1 .. Len(audits)) /\ \A i \in C : audits[i].symbol = t
  BY <1>2 DEF Api!RowsOf
<1> HIDE DEF C
<1>4. IsFiniteSet(C)
  <2>1. PICK n \in Nat : n = Len(audits)
    BY <1>2
  <2>2. 1 \in Int /\ n \in Int
    OBVIOUS
  <2>3. IsFiniteSet(1 .. n)
    BY <2>2, FS_Interval, Zenon
  <2> QED BY <1>3, <2>1, <2>3, FS_Subset
<1>5. \A x \in C : x \in Nat
  BY <1>2, <1>3
<1>6. \A x, y : <<x, y>> \in R <=> x \in C /\ y \in C /\ x > y
  OBVIOUS
<1> HIDE DEF R
<1>7. /\ \A x, y \in C : x # y => <<x, y>> \in R \/ <<y, x>> \in R
      /\ \A x, y, z \in C : <<x, y>> \in R /\ <<y, z>> \in R => <<x, z>> \in R
  BY <1>5, <1>6
<1>8. Limit \in Nat
  BY ApiParameters
<1>9. /\ Len(latest) \in Nat /\ Len(latest) <= Limit /\ DOMAIN latest = 1 .. Len(latest)
      /\ Entries(latest) \subseteq C
  <2>1. PICK s : s = latest
    OBVIOUS
  <2>2. Len(s) \in Nat /\ Len(s) <= Limit /\ DOMAIN s = 1 .. Len(s) /\ Entries(s) \subseteq C
    BY <1>4, <1>7, <1>8, <2>1, FirstInOrder
  <2> QED BY <2>1, <2>2
<1> HIDE DEF latest
<1>10. \A k \in 1 .. Len(latest) : latest[k] \in C
  BY <1>9 DEF Entries
<1>11. DOMAIN page = 1 .. Len(latest) /\ \A k \in 1 .. Len(latest) : page[k] = audits[latest[k]]
  BY <1>1, <1>9
<1>12. Len(page) = Len(latest)
  <2>1. page \in [1 .. Len(latest) -> {page[k] : k \in 1 .. Len(latest)}]
    BY <1>1, <1>9
  <2> QED BY <2>1, <1>9, SeqDef
<1>13. \A k \in 1 .. Len(latest) :
         audits[latest[k]] \in AuditRows /\ audits[latest[k]].symbol = t
  BY <1>2, <1>3, <1>10 DEF AuditRows
<1>14. Entries(page) \subseteq {row \in AuditRows : row.symbol = t}
  BY <1>11, <1>13 DEF Entries
<1> QED BY <1>9, <1>12, <1>14

-----------------------------------------------------------------------------
\* The decisions of a panel, of n audit rows at the time of the answer.
DecisionsOk(d, n) ==
  /\ d.blocked <= d.noop /\ d.live + d.shadow + d.noop <= d.total /\ d.total <= n
  /\ d.total \in Nat

LEMMA DecisionsAddUp ==
  ASSUME audits \in Seq([symbol : Companies, outcome : Api!Outcomes])
  PROVE  DecisionsOk(Api!AggregateDecisions, Len(audits))
<1> DEFINE n == Len(audits)
           RowsOf(O) == {i \in 1 .. n : audits[i].outcome \in O}
           Live == {o \in Api!Outcomes : o.mode = "live" /\ o.executed}
           Shadow == {o \in Api!Outcomes : o.mode = "shadow"}
           Noop == {o \in Api!Outcomes : o.mode = "noop"}
           Blocked == {o \in Api!Outcomes : o.blocked}
           Reported(i) == Api!Reports[i]
<1>1. \A O : Api!CountOf(O) = Cardinality(RowsOf(O))
  BY ApiSame, Zenon DEF Api!CountOf
<1>2. n \in Nat
  OBVIOUS
<1>3. \A o \in Api!Outcomes : o.blocked => o.mode = "noop"
  BY DEF Api!Outcomes, Api!Reports
<1>4. /\ Blocked \subseteq Noop
      /\ Live \cap Shadow = {} /\ Live \cap Noop = {} /\ Shadow \cap Noop = {}
  <2>1. Blocked \subseteq Noop
    BY <1>3
  <2>2. Live \cap Shadow = {} /\ Live \cap Noop = {} /\ Shadow \cap Noop = {}
    OBVIOUS
  <2> QED BY <2>1, <2>2
<1>5. /\ Api!AggregateDecisions.total = n
      /\ Api!AggregateDecisions.live = Cardinality(RowsOf(Live))
      /\ Api!AggregateDecisions.shadow = Cardinality(RowsOf(Shadow))
      /\ Api!AggregateDecisions.noop = Cardinality(RowsOf(Noop))
      /\ Api!AggregateDecisions.blocked = Cardinality(RowsOf(Blocked))
  <2> HIDE DEF RowsOf
  <2> QED BY <1>1 DEF Api!AggregateDecisions
<1> HIDE DEF Live, Shadow, Noop, Blocked
<1>6. IsFiniteSet(1 .. n) /\ Cardinality(1 .. n) = n
  <2>1. 1 \in Int /\ n \in Int
    BY <1>2
  <2> HIDE DEF n
  <2>2. IsFiniteSet(1 .. n) /\ Cardinality(1 .. n) = IF 1 > n THEN 0 ELSE n - 1 + 1
    BY <2>1, FS_Interval, Zenon
  <2> QED BY ONLY <1>2, <2>2
<1>7. \A O : RowsOf(O) \in SUBSET (1 .. n)
  OBVIOUS
<1>8. \A O : IsFiniteSet(RowsOf(O)) /\ Cardinality(RowsOf(O)) \in Nat
  <2> HIDE DEF RowsOf
  <2> QED BY <1>6, <1>7, FS_Subset, FS_CardinalityType
<1>9. RowsOf(Blocked) \in SUBSET RowsOf(Noop)
  BY <1>4
<1>10. RowsOf(Live) \cap RowsOf(Shadow) = {} /\ (RowsOf(Live) \cup RowsOf(Shadow)) \cap RowsOf(Noop) = {}
  BY <1>4
<1> HIDE DEF RowsOf, n
<1>11. Cardinality(RowsOf(Blocked)) <= Cardinality(RowsOf(Noop))
  BY <1>8, <1>9, FS_Subset
<1>12. /\ IsFiniteSet(RowsOf(Live) \cup RowsOf(Shadow))
       /\ Cardinality(RowsOf(Live) \cup RowsOf(Shadow)) = Cardinality(RowsOf(Live)) + Cardinality(RowsOf(Shadow))
  <2>1. Cardinality({}) = 0
    BY FS_EmptySet
  <2>2. Cardinality(RowsOf(Live) \cup RowsOf(Shadow))
          = Cardinality(RowsOf(Live)) + Cardinality(RowsOf(Shadow)) - Cardinality({})
    BY <1>8, <1>10, FS_Union
  <2>3. IsFiniteSet(RowsOf(Live) \cup RowsOf(Shadow))
    BY <1>8, FS_Union
  <2> QED BY <1>8, <2>1, <2>2, <2>3
<1>13. Cardinality((RowsOf(Live) \cup RowsOf(Shadow)) \cup RowsOf(Noop))
         = Cardinality(RowsOf(Live)) + Cardinality(RowsOf(Shadow)) + Cardinality(RowsOf(Noop))
  <2>1. Cardinality({}) = 0
    BY FS_EmptySet
  <2>2. Cardinality((RowsOf(Live) \cup RowsOf(Shadow)) \cup RowsOf(Noop))
          = Cardinality(RowsOf(Live) \cup RowsOf(Shadow)) + Cardinality(RowsOf(Noop)) - Cardinality({})
    BY <1>8, <1>10, <1>12, FS_Union
  <2> QED BY <1>8, <1>12, <2>1, <2>2
<1>14. Cardinality((RowsOf(Live) \cup RowsOf(Shadow)) \cup RowsOf(Noop)) <= n
  <2>1. (RowsOf(Live) \cup RowsOf(Shadow)) \cup RowsOf(Noop) \in SUBSET (1 .. n)
    BY <1>7
  <2> QED BY <1>6, <2>1, FS_Subset
<1>15. n <= Len(audits)
  BY <1>2 DEF n
<1> QED BY <1>2, <1>5, <1>8, <1>11, <1>13, <1>14, <1>15 DEF DecisionsOk

-----------------------------------------------------------------------------
\* A request's frame: its fields, and what they say of each other.
IsFrame(f) ==
  f \in [pc : {"idle", "gate", "read", "done"}, route : Api!Routes, asked : {f.asked},
         items : {f.items}, total : {f.total}, unacked : {f.unacked}, named : {f.named},
         todo : {f.todo}, lost : BOOLEAN, status : {0, 200, 400, 401, 404, 422, 500},
         traced : BOOLEAN]

RepositoryCalls ==
  {"list_entities", "list_edges", "get_by_ticker_batch", "get_security", "list_securities",
   "count_securities", "list_relations", "list", "count_active", "aggregate_volume",
   "list_recent_tape", "snapshot_per_symbol", "list_recent_ticks",
   "aggregate_decisions_per_minute", "aggregate_blocked_reasons", "fetch_recent"}

\* The routes that are answered from one query.
OneCall ==
  {"detail", "relations", "tape", "recent", "last", "audit", "volume", "decisions", "blocked"}

OnlyCall(route, queries) ==
  /\ route = "detail" => queries = <<"get_security">>
  /\ route = "relations" => queries = <<"list_relations">>
  /\ route = "tape" => queries = <<"list_recent_tape">>
  /\ route = "recent" => queries = <<"list_recent_ticks">>
  /\ route = "last" => queries = <<"snapshot_per_symbol">>
  /\ route = "audit" => queries = <<"fetch_recent">>
  /\ route = "volume" => queries = <<"aggregate_volume">>
  /\ route = "decisions" => queries = <<"aggregate_decisions_per_minute">>
  /\ route = "blocked" => queries = <<"aggregate_blocked_reasons">>

LEMMA OnlyCallIsOne ==
  ASSUME NEW route \in OneCall, NEW queries, OnlyCall(route, queries)
  PROVE  Len(queries) = 1
<1>1. \A x : Len(<<x>>) = 1
  OBVIOUS
<1>2. \E x : queries = <<x>>
  BY Zenon DEF OneCall, OnlyCall
<1> QED BY <1>1, <1>2

\* The calls that are left.
TodoOk(f) ==
  /\ f.todo \in Seq(RepositoryCalls) /\ f.todo # <<>>
  /\ f.route # "me"
  /\ f.route # "snapshot" => \A i \in 1 .. Len(f.todo) : f.todo[i] \notin Api!Intolerant
  /\ f.route = "alarms" => f.todo \in {<<"list", "count_active", "get_by_ticker_batch">>,
                                       <<"count_active", "get_by_ticker_batch">>,
                                       <<"get_by_ticker_batch">>}
  /\ f.route = "securities" => f.todo \in {<<"list_securities", "count_securities">>,
                                           <<"count_securities">>}
  /\ f.route \in OneCall => OnlyCall(f.route, f.todo)

\* What a request asked for.
AskedOk(route, asked) ==
  /\ route \in {"volume", "last"} => asked \in Seq(Companies)
  /\ route = "recent" => 1 \in DOMAIN asked
  /\ route = "detail" => asked[1] \in Companies

ShapeOk(f) ==
  /\ IsFrame(f)
  /\ f.pc = "done" <=> f.status # 0
  /\ f.pc \in {"idle", "gate"} \/ f.route = "me" => ~ f.lost
  /\ f.pc = "done" /\ f.lost /\ f.route # "snapshot" => f.status \in {200, 404}
  /\ f.pc = "done" /\ f.status # 500 => f.traced
  /\ f.pc = "read" => TodoOk(f)
  /\ AskedOk(f.route, f.asked)

\* All but the last k calls have returned.
Past(f, k) == f.status \in {200, 404} \/ (f.pc = "read" /\ Len(f.todo) <= k)

\* The rows that a list may show, of the tables, and the list.
MayList(route, asked, tk, c, rel, au) ==
  CASE route = "securities" -> Held(c)
    [] route = "detail"     -> Held(c) \cap {asked[1]}
    [] route = "relations"  -> Touch(rel, asked)
    [] route = "audit"      -> {row \in au : row.symbol = asked[1]}
    [] OTHER                -> TicksAt(tk, Entries(asked))

ListOk(items, route, asked, tk, c, rel, au) ==
  /\ Entries(items) \subseteq MayList(route, asked, tk, c, rel, au)
  /\ route \in {"securities", "tape", "recent", "audit"} => Len(items) <= Limit

LEMMA EmptyList == \A route, asked, tk, c, rel, au : ListOk(<<>>, route, asked, tk, c, rel, au)
<1>1. Entries(<<>>) = {} /\ Len(<<>>) <= Limit
  BY ApiParameters DEF Entries
<1> QED BY <1>1 DEF ListOk

\* What a page of securities says of the table: the sector's, but for those that were moved.
Spared(asked, mv) == IF asked[1] = 0 THEN {} ELSE mv

SecuritiesPage(items, asked, c, mv) ==
  /\ Cardinality(Entries(items)) = Len(items)
  /\ Entries(items) \subseteq Held(c)
  /\ asked[1] # 0 => Entries(items) \ mv \subseteq {t \in Companies : c[t] = asked[1]}

Covers(total, items, asked, mv) ==
  total \in Nat /\ total >= Cardinality(Entries(items) \ Spared(asked, mv))

LEMMA EmptyPage == \A asked, c, mv : SecuritiesPage(<<>>, asked, c, mv)
<1>1. Entries(<<>>) = {} /\ Len(<<>>) = 0
  BY DEF Entries
<1>2. Cardinality(Entries(<<>>)) = Len(<<>>)
  BY <1>1, FS_EmptySet
<1> QED BY <1>1, <1>2 DEF SecuritiesPage

AnswersOk(f, al, tk, c, n, rel, au, mv) ==
  /\ f.pc \in {"idle", "gate"} => f.items = <<>> /\ f.total = 0
  /\ f.route = "alarms" =>
       /\ Past(f, 2) => PageOk(f.items, f.total, al, f.asked[1])
       /\ Past(f, 1) => f.unacked >= f.total
  /\ f.route = "securities" =>
       /\ f.pc = "read" => f.total = 0 /\ (f.lost => f.items = <<>>)
       /\ f.pc = "read" /\ Len(f.todo) = 2 => f.items = <<>> /\ ~ f.lost
       /\ Past(f, 1) => SecuritiesPage(f.items, f.asked, c, mv)
                        /\ ListOk(f.items, f.route, f.asked, tk, c, rel, au)
       /\ f.lost => f.items = <<>> \/ f.total = 0
       /\ Past(f, 0) /\ ~ f.lost => Covers(f.total, f.items, f.asked, mv)
  /\ f.route \in OneCall =>
       /\ f.pc = "read" => f.items = <<>> /\ f.total = 0 /\ ~ f.lost
       /\ f.lost => f.items = <<>> /\ f.total = 0
  /\ f.route \in Api!Lists /\ Past(f, 0) => ListOk(f.items, f.route, f.asked, tk, c, rel, au)
  /\ f.route = "volume" /\ f.status = 200 /\ ~ f.lost => VolumeOk(f.items, f.asked, tk)
  /\ f.route = "last" /\ f.status = 200 =>
       SnapshotOk(f.items, {f.asked[i] : i \in DOMAIN f.asked}, tk)
  /\ f.route = "decisions" /\ f.status = 200 /\ ~ f.lost => DecisionsOk(f.items[1], n)

StoreOk ==
  /\ companies \in [Companies -> {0} \cup Api!Sectors] /\ relations \subseteq Companies \X Companies
  /\ ticks \subseteq TickRows /\ audits \in Seq([symbol : Companies, outcome : Api!Outcomes])
  /\ alarms \in [AlarmIds -> Api!Statuses] /\ writes \in 0 .. MaxWrites /\ moved \subseteq Companies

ReadInv ==
  /\ StoreOk
  /\ gets = [r \in Reads |-> gets[r]]
  /\ \A r \in Reads : ShapeOk(gets[r]) /\ AnswersOk(gets[r], alarms, ticks, companies, Len(audits), relations, AuditRows, moved)

\* Commits take nothing back.
LEMMA AnswersStay ==
  ASSUME NEW f, NEW al, NEW tk \in SUBSET TickRows, NEW tk2 \in SUBSET TickRows, tk \subseteq tk2,
         NEW c, NEW c2, Held(c) \subseteq Held(c2), NEW n \in Nat, NEW n2 \in Nat, n <= n2,
         NEW rel, NEW rel2, rel \subseteq rel2, NEW au, NEW au2, au \subseteq au2,
         NEW mv, NEW mv2, mv \subseteq mv2,
         \A t \in Companies : c[t] = 0 \/ c2[t] = c[t] \/ t \in mv2,
         ShapeOk(f), AnswersOk(f, al, tk, c, n, rel, au, mv)
  PROVE  AnswersOk(f, al, tk2, c2, n2, rel2, au2, mv2)
<1>1. \A S \in SUBSET Held(c) : IsFiniteSet(S) /\ Cardinality(S) \in Nat
  <2>1. Held(c) \in SUBSET Companies
    BY DEF Held
  <2> QED BY <2>1, ApiParameters, FS_Subset, FS_CardinalityType
<1>2. \A S : TicksAt(tk, S) \in SUBSET TicksAt(tk2, S)
  BY DEF TicksAt
<1>3. \A S : Cardinality(TicksAt(tk, S)) \in Nat /\ Cardinality(TicksAt(tk2, S)) \in Nat
             /\ Cardinality(TicksAt(tk, S)) <= Cardinality(TicksAt(tk2, S))
  <2>1. \A S : IsFiniteSet(TicksAt(tk2, S)) /\ Cardinality(TicksAt(tk2, S)) \in Nat /\ Cardinality(TicksAt(tk, S)) \in Nat
    BY TicksFinite
  <2> QED BY <1>2, <2>1, FS_Subset
<1>4. \A items, asked : VolumeOk(items, asked, tk) => VolumeOk(items, asked, tk2)
  <2>1. ASSUME NEW items, NEW asked, VolumeOk(items, asked, tk), NEW i \in DOMAIN items
        PROVE  items[i].n <= Cardinality(TicksAt(tk2, {asked[i]}))
    <3>1. items[i].n \in Nat /\ items[i].n <= Cardinality(TicksAt(tk, {asked[i]}))
      BY <2>1 DEF VolumeOk
    <3>2. /\ Cardinality(TicksAt(tk, {asked[i]})) \in Nat /\ Cardinality(TicksAt(tk2, {asked[i]})) \in Nat
          /\ Cardinality(TicksAt(tk, {asked[i]})) <= Cardinality(TicksAt(tk2, {asked[i]}))
      BY <1>3
    <3> QED BY <3>1, <3>2
  <2> QED BY <2>1 DEF VolumeOk
<1>5. \A items, S : SnapshotOk(items, S, tk) => SnapshotOk(items, S, tk2)
  BY <1>2 DEF SnapshotOk
<1>6. \A d : DecisionsOk(d, n) => DecisionsOk(d, n2)
  BY DEF DecisionsOk
<1>7. \A items, route, asked :
        ListOk(items, route, asked, tk, c, rel, au) => ListOk(items, route, asked, tk2, c2, rel2, au2)
  <2>1. \A asked : Touch(rel, asked) \subseteq Touch(rel2, asked)
    BY DEF Touch
  <2>2. \A route, asked : MayList(route, asked, tk, c, rel, au) \subseteq MayList(route, asked, tk2, c2, rel2, au2)
    BY <1>2, <2>1 DEF MayList
  <2> QED BY <2>2 DEF ListOk
<1>8. ASSUME NEW items, NEW asked, SecuritiesPage(items, asked, c, mv)
      PROVE  SecuritiesPage(items, asked, c2, mv2)
  <2>1. ASSUME asked[1] # 0, NEW t \in Entries(items) \ mv2 PROVE t \in Companies /\ c2[t] = asked[1]
    <3>1. t \in Companies /\ c[t] = asked[1]
      BY <1>8, <2>1 DEF SecuritiesPage
    <3> QED BY <2>1, <3>1
  <2> QED BY <1>8, <2>1 DEF SecuritiesPage
<1>9. ASSUME NEW total, NEW items, NEW asked, SecuritiesPage(items, asked, c, mv), Covers(total, items, asked, mv)
      PROVE  Covers(total, items, asked, mv2)
  <2> DEFINE old == Entries(items) \ Spared(asked, mv)
             new == Entries(items) \ Spared(asked, mv2)
  <2>1. new \in SUBSET old /\ old \in SUBSET Held(c)
    BY <1>9 DEF Spared, SecuritiesPage
  <2>2. total \in Nat /\ total >= Cardinality(old)
    BY <1>9 DEF Covers
  <2> HIDE DEF old, new
  <2>3. IsFiniteSet(old) /\ Cardinality(old) \in Nat /\ Cardinality(new) \in Nat
    BY <1>1, <2>1
  <2>4. Cardinality(new) <= Cardinality(old)
    BY <2>1, <2>3, FS_Subset
  <2>5. total >= Cardinality(new)
    BY <2>2, <2>3, <2>4
  <2> QED BY <2>2, <2>5 DEF Covers, new
<1>10. f.route = "securities" =>
         /\ Past(f, 1) => SecuritiesPage(f.items, f.asked, c2, mv2)
         /\ Past(f, 0) /\ ~ f.lost => Covers(f.total, f.items, f.asked, mv2)
  <2>1. f.route = "securities" =>
          /\ Past(f, 1) => SecuritiesPage(f.items, f.asked, c, mv)
          /\ Past(f, 0) /\ ~ f.lost => Covers(f.total, f.items, f.asked, mv)
    BY DEF AnswersOk
  <2>2. ASSUME f.route = "securities", Past(f, 0) PROVE Past(f, 1)
    <3>1. CASE f.status \in {200, 404}
      BY <3>1 DEF Past
    <3>2. CASE f.pc = "read" /\ Len(f.todo) <= 0
      <4>1. f.todo \in Seq(RepositoryCalls)
        BY <3>2 DEF ShapeOk, TodoOk
      <4>2. Len(f.todo) \in Nat
        BY <4>1
      <4>3. Len(f.todo) <= 1
        BY <3>2, <4>2
      <4> QED BY <3>2, <4>3 DEF Past
    <3> QED BY <2>2, <3>1, <3>2 DEF Past
  <2> QED BY <1>8, <1>9, <2>1, <2>2
<1> QED BY <1>4, <1>5, <1>6, <1>7, <1>10 DEF AnswersOk

-----------------------------------------------------------------------------
\* A call returns, with what it found or without, and the next begins or the answer is sent.
After(g) ==
  IF Len(g.todo) > 1 THEN [g EXCEPT !.todo = Tail(@)]
  ELSE [g EXCEPT !.pc = "done", !.status = IF g.route = "detail" /\ g.items = <<>> THEN 404 ELSE 200,
                 !.todo = <<>>, !.traced = TRUE]

SameCall(f, g) ==
  /\ IsFrame(g) /\ g.pc = "read" /\ g.route = f.route /\ g.asked = f.asked /\ g.todo = f.todo
  /\ g.status = f.status

\* f between the gate and the answer: at another place, with other calls left.
Placed(f, pc, left, status, traced) ==
  [pc |-> pc, route |-> f.route, asked |-> f.asked, items |-> f.items, total |-> f.total,
   unacked |-> f.unacked, named |-> f.named, todo |-> left, lost |-> f.lost,
   status |-> status, traced |-> traced]

LEMMA PlacedItself ==
  ASSUME NEW f, IsFrame(f)
  PROVE  f = Placed(f, f.pc, f.todo, f.status, f.traced)
BY DEF IsFrame, Placed

LEMMA PlacedTwice ==
  ASSUME NEW f, IsFrame(f), NEW pc, NEW left
  PROVE  [f EXCEPT !.pc = pc, !.todo = left] = Placed(f, pc, left, f.status, f.traced)
<1> DEFINE h == [f EXCEPT !.pc = pc]
           i == [f EXCEPT !.pc = pc, !.todo = left]
<1>1. i = [h EXCEPT !.todo = left]
  OBVIOUS
<1>2. h = Placed(f, pc, f.todo, f.status, f.traced)
  BY PlacedItself DEF Placed
<1> HIDE DEF h, i
<1>3. i = Placed(f, pc, left, f.status, f.traced)
  BY ONLY <1>1, <1>2 DEF Placed
<1> QED BY <1>3 DEF i

\* f after an answer, and after an error that nobody caught.
Answered(f, pc, status, left, traced) ==
  [f EXCEPT !.pc = pc, !.status = status, !.todo = left, !.traced = traced]
Crashed(f, pc, status, left) == [f EXCEPT !.pc = pc, !.status = status, !.todo = left]

LEMMA PlacedThrice ==
  ASSUME NEW f, IsFrame(f), NEW pc, NEW status, NEW left
  PROVE  Crashed(f, pc, status, left) = Placed(f, pc, left, status, f.traced)
<1> DEFINE h == [f EXCEPT !.pc = pc]
           i == [f EXCEPT !.pc = pc, !.status = status]
           j == [f EXCEPT !.pc = pc, !.status = status, !.todo = left]
<1>1. i = [h EXCEPT !.status = status]
  OBVIOUS
<1>2. j = [i EXCEPT !.todo = left]
  OBVIOUS
<1>3. h = Placed(f, pc, f.todo, f.status, f.traced)
  BY PlacedItself DEF Placed
<1> HIDE DEF h, i, j
<1>4. i = Placed(f, pc, f.todo, status, f.traced)
  BY ONLY <1>1, <1>3 DEF Placed
<1>5. j = Placed(f, pc, left, status, f.traced)
  BY ONLY <1>2, <1>4 DEF Placed
<1> QED BY <1>5, Zenon DEF j, Crashed

LEMMA PlacedWhole ==
  ASSUME NEW f, IsFrame(f), NEW pc, NEW status, NEW left, NEW traced
  PROVE  Answered(f, pc, status, left, traced) = Placed(f, pc, left, status, traced)
<1> DEFINE h == [f EXCEPT !.pc = pc, !.status = status, !.todo = left]
           i == [f EXCEPT !.pc = pc, !.status = status, !.todo = left, !.traced = traced]
<1>1. i = [h EXCEPT !.traced = traced]
  OBVIOUS
<1>2. h = Placed(f, pc, left, status, f.traced)
  BY PlacedThrice, Zenon DEF Crashed
<1> HIDE DEF h, i
<1>3. i = Placed(f, pc, left, status, traced)
  BY ONLY <1>1, <1>2 DEF Placed
<1> QED BY <1>3, Zenon DEF i, Answered

PlacedOk(g, f, pc, left, status) ==
  /\ IsFrame(g) /\ g.pc = pc /\ g.route = f.route /\ g.asked = f.asked /\ g.todo = left
  /\ g.items = f.items /\ g.total = f.total /\ g.lost = f.lost /\ g.status = status

Places == {"idle", "gate", "read", "done"}
Answers == {0, 200, 400, 401, 404, 422, 500}

LEMMA PlacedFrame ==
  ASSUME NEW f, IsFrame(f), NEW pc, pc \in Places, NEW left, NEW status, status \in Answers,
         NEW traced, traced \in BOOLEAN
  PROVE  PlacedOk(Placed(f, pc, left, status, traced), f, pc, left, status)
<1> DEFINE g == Placed(f, pc, left, status, traced)
<1>1. f.route \in Api!Routes /\ f.lost \in BOOLEAN
  BY DEF IsFrame
<1>2. /\ g.pc = pc /\ g.route = f.route /\ g.asked = f.asked /\ g.todo = left
      /\ g.items = f.items /\ g.total = f.total /\ g.unacked = f.unacked /\ g.lost = f.lost
      /\ g.status = status /\ g.named = f.named
  BY DEF Placed
<1>3. IsFrame(g)
  BY <1>1, <1>2 DEF IsFrame, Placed, Places, Answers
<1> QED BY <1>2, <1>3 DEF PlacedOk

LEMMA AfterIs ==
  ASSUME NEW f, ShapeOk(f), f.pc = "read", NEW g, SameCall(f, g)
  PROVE  /\ Len(g.todo) \in Nat \ {0} /\ g.status = 0
         /\ Len(g.todo) > 1 =>
              /\ After(g).pc = "read" /\ After(g).status = 0
              /\ After(g).todo = Tail(g.todo) /\ Len(After(g).todo) = Len(g.todo) - 1
         /\ Len(g.todo) = 1 =>
              /\ After(g).pc = "done" /\ After(g).status \in {200, 404} /\ After(g).traced
              /\ g.route # "detail" => After(g).status = 200
         /\ After(g).route = g.route /\ After(g).asked = g.asked /\ After(g).items = g.items
         /\ After(g).total = g.total /\ After(g).unacked = g.unacked /\ After(g).lost = g.lost
         /\ IsFrame(After(g))
<1>1. g.todo \in Seq(RepositoryCalls) /\ g.todo # <<>> /\ g.status = 0 /\ g.todo = f.todo
  BY DEF ShapeOk, TodoOk, SameCall
<1>2. Len(g.todo) \in Nat \ {0}
  BY <1>1, EmptySeq
<1>3. Len(g.todo) > 1 => Len(Tail(g.todo)) = Len(g.todo) - 1
  BY <1>1
<1>4. CASE Len(g.todo) > 1
  <2>1. After(g) = [g EXCEPT !.todo = Tail(@)]
    BY <1>4 DEF After
  <2>2. IsFrame(After(g)) /\ After(g).todo = Tail(g.todo)
    BY <2>1 DEF SameCall, IsFrame
  <2> QED BY <1>1, <1>2, <1>3, <1>4, <2>1, <2>2 DEF SameCall, IsFrame
<1>5. CASE ~ (Len(g.todo) > 1)
  <2> DEFINE status == IF g.route = "detail" /\ g.items = <<>> THEN 404 ELSE 200
             h == Placed(g, "done", <<>>, status, TRUE)
  <2>1. After(g) = Answered(g, "done", status, <<>>, TRUE)
    BY <1>5, Zenon DEF After, Answered
  <2>2. status \in {200, 404} /\ (g.route # "detail" => status = 200)
    OBVIOUS
  <2> HIDE DEF status
  <2>3. IsFrame(g)
    BY DEF SameCall
  <2>4. Answered(g, "done", status, <<>>, TRUE) = h
    BY <2>3, PlacedWhole, Zenon
  <2>5. TRUE \in BOOLEAN /\ "done" \in Places /\ status \in Answers
    BY <2>2 DEF Places, Answers
  <2>6. PlacedOk(h, g, "done", <<>>, status)
    BY <2>3, <2>5, PlacedFrame, Zenon
  <2>7. h.traced
    BY Zenon DEF Placed
  <2>8. h.total = g.total /\ h.unacked = g.unacked
    BY DEF Placed
  <2> HIDE DEF h
  <2>9. After(g) = h
    BY ONLY <2>1, <2>4, Zenon
  <2>10. /\ h.pc = "done" /\ h.status = status /\ h.route = g.route /\ h.asked = g.asked
         /\ h.items = g.items /\ h.lost = g.lost /\ IsFrame(h)
    BY <2>6 DEF PlacedOk
  <2> QED BY <1>1, <1>2, <1>5, <2>2, <2>7, <2>8, <2>9, <2>10
<1> QED BY <1>4, <1>5

LEMMA ShapeProceeds ==
  ASSUME NEW f, ShapeOk(f), f.pc = "read", NEW g, SameCall(f, g)
  PROVE  ShapeOk(After(g))
<1>1. TodoOk(f) /\ AskedOk(f.route, f.asked)
  BY DEF ShapeOk
<1>2. g.todo = f.todo /\ g.route = f.route /\ g.asked = f.asked
  BY DEF SameCall
<1>3. Len(g.todo) = 1 \/ Len(g.todo) > 1
  <2>1. Len(g.todo) \in Nat \ {0}
    BY AfterIs
  <2>2. \A x \in Nat \ {0} : x \in Nat /\ (x = 1 \/ x > 1)
    OBVIOUS
  <2> QED BY <2>1, <2>2, Zenon
<1>4. CASE Len(g.todo) > 1
  <2>1. After(g).todo = Tail(f.todo) /\ After(g).route = f.route /\ Len(Tail(f.todo)) = Len(f.todo) - 1
    BY <1>2, <1>4, AfterIs
  <2>2. Tail(f.todo) \in Seq(RepositoryCalls) /\ Tail(f.todo) # <<>>
    <3>1. f.todo \in Seq(RepositoryCalls) /\ f.todo # <<>> /\ Len(f.todo) > 1
      BY <1>1, <1>2, <1>4 DEF TodoOk
    <3>2. \A s \in Seq(RepositoryCalls) : s # <<>> /\ Len(s) > 1 => Tail(s) \in Seq(RepositoryCalls) /\ Tail(s) # <<>>
      <4>1. ASSUME NEW s \in Seq(RepositoryCalls), s # <<>>, Len(s) > 1
            PROVE  Tail(s) \in Seq(RepositoryCalls) /\ Len(Tail(s)) # 0
        <5>1. Tail(s) \in Seq(RepositoryCalls) /\ Len(Tail(s)) = Len(s) - 1 /\ Len(s) \in Nat
          BY <4>1
        <5>2. \A k \in Nat : k > 1 => k - 1 # 0
          OBVIOUS
        <5> QED BY <4>1, <5>1, <5>2, Zenon
      <4>2. Len(<<>>) = 0
        OBVIOUS
      <4> QED BY <4>1, <4>2, Zenon
    <3> QED BY <3>1, <3>2, Zenon
  <2>3. \A i \in 1 .. Len(Tail(f.todo)) : i + 1 \in 1 .. Len(f.todo) /\ Tail(f.todo)[i] = f.todo[i + 1]
    BY <1>1, <1>2, <1>4, <2>1 DEF TodoOk
  <2>4. f.route # "snapshot" => \A i \in 1 .. Len(Tail(f.todo)) : Tail(f.todo)[i] \notin Api!Intolerant
    BY <1>1, <2>3 DEF TodoOk
  <2>5. /\ f.route = "alarms" => Tail(f.todo) \in {<<"count_active", "get_by_ticker_batch">>,
                                                   <<"get_by_ticker_batch">>}
        /\ f.route = "securities" => Tail(f.todo) = <<"count_securities">>
        /\ f.route \notin OneCall
    <3>1. /\ Tail(<<"list", "count_active", "get_by_ticker_batch">>) = <<"count_active", "get_by_ticker_batch">>
          /\ Tail(<<"count_active", "get_by_ticker_batch">>) = <<"get_by_ticker_batch">>
          /\ Tail(<<"list_securities", "count_securities">>) = <<"count_securities">>
      OBVIOUS
    <3>2. \A x : Len(<<x>>) = 1
      OBVIOUS
    <3>4. \A s : Len(s) > 1 => Len(s) # 1
      <4>1. ~ (1 > 1)
        OBVIOUS
      <4> QED BY <4>1, Zenon
    <3>3. \A x : f.todo # <<x>>
      BY <1>2, <1>4, <3>2, <3>4, Zenon
    <3>5. f.route \notin OneCall
      <4>1. f.route \in OneCall => OnlyCall(f.route, f.todo)
        BY <1>1 DEF TodoOk
      <4>2. f.route \in OneCall => \E x : f.todo = <<x>>
        BY <4>1, Zenon DEF OneCall, OnlyCall
      <4> QED BY <3>3, <4>2
    <3> QED BY <1>1, <3>1, <3>3, <3>5 DEF TodoOk
  <2>6. TodoOk(After(g))
    <3>1. f.route # "me"
      BY <1>1 DEF TodoOk
    <3> QED BY <2>1, <2>2, <2>4, <2>5, <3>1 DEF TodoOk
  <2>7. /\ After(g).pc = "read" /\ After(g).status = 0 /\ IsFrame(After(g))
        /\ After(g).route = f.route /\ After(g).asked = f.asked /\ f.route # "me"
    BY <1>1, <1>2, <1>4, AfterIs DEF TodoOk
  <2> QED BY <1>1, <2>6, <2>7 DEF ShapeOk
<1>5. CASE Len(g.todo) = 1
  <2> DEFINE h == After(g)
  <2>1. /\ h.pc = "done" /\ h.status \in {200, 404} /\ h.traced /\ IsFrame(h)
        /\ h.route = f.route /\ h.asked = f.asked
    <3>1. h.pc = "done" /\ h.status \in {200, 404} /\ h.traced
      <4>1. Len(g.todo) = 1 => /\ After(g).pc = "done" /\ After(g).status \in {200, 404}
                               /\ After(g).traced
        BY AfterIs
      <4> QED BY <1>5, <4>1
    <3>2. IsFrame(h) /\ h.route = f.route /\ h.asked = f.asked
      BY <1>2, AfterIs
    <3> QED BY <3>1, <3>2
  <2> HIDE DEF h
  <2>2. ShapeOk(h)
    <3>1. h.route # "me"
      BY <1>1, <2>1 DEF TodoOk
    <3> QED BY <1>1, <2>1, <3>1 DEF ShapeOk
  <2> QED BY <2>2 DEF h
<1> QED BY <1>3, <1>4, <1>5

\* What the answer must know when the call that is at the head of todo has returned.
Gained(g, al, tk, c, n, rel, au, mv) ==
  /\ g.route = "alarms" =>
       /\ Len(g.todo) <= 3 => PageOk(g.items, g.total, al, g.asked[1])
       /\ Len(g.todo) <= 2 => g.unacked >= g.total
  /\ g.route = "securities" =>
       /\ Len(g.todo) = 2 => g.total = 0 /\ (g.lost => g.items = <<>>)
       /\ SecuritiesPage(g.items, g.asked, c, mv)
       /\ g.lost => g.items = <<>> \/ g.total = 0
       /\ Len(g.todo) = 1 /\ ~ g.lost => Covers(g.total, g.items, g.asked, mv)
  /\ g.route \in OneCall /\ g.lost => g.items = <<>> /\ g.total = 0
  /\ g.route \in Api!Lists => ListOk(g.items, g.route, g.asked, tk, c, rel, au)
  /\ g.route = "volume" /\ ~ g.lost => VolumeOk(g.items, g.asked, tk)
  /\ g.route = "last" => SnapshotOk(g.items, {g.asked[i] : i \in DOMAIN g.asked}, tk)
  /\ g.route = "decisions" /\ ~ g.lost => DecisionsOk(g.items[1], n)

LEMMA SecuritiesListed == "securities" \in Api!Lists
BY DEF Api!Lists

LEMMA AnswersProceed ==
  ASSUME NEW f, ShapeOk(f), f.pc = "read", NEW g, SameCall(f, g),
         NEW al, NEW tk, NEW c, NEW n, NEW rel, NEW au, NEW mv, Gained(g, al, tk, c, n, rel, au, mv)
  PROVE  AnswersOk(After(g), al, tk, c, n, rel, au, mv)
<1> DEFINE h == After(g)
<1>1. Len(g.todo) \in Nat /\ (Len(g.todo) = 1 \/ Len(g.todo) > 1)
  <2>1. Len(g.todo) \in Nat \ {0}
    BY AfterIs
  <2>2. \A x \in Nat \ {0} : x \in Nat /\ (x = 1 \/ x > 1)
    OBVIOUS
  <2> QED BY <2>1, <2>2, Zenon
<1>2. CASE Len(g.todo) > 1
  <2>1. /\ h.pc = "read" /\ h.status = 0 /\ Len(h.todo) = Len(g.todo) - 1
        /\ h.route = g.route /\ h.asked = g.asked /\ h.items = g.items /\ h.total = g.total
        /\ h.unacked = g.unacked /\ h.lost = g.lost
    BY <1>2, AfterIs
  <2>2. g.route \notin OneCall /\ (g.route = "securities" => Len(g.todo) = 2)
    <3>1. TodoOk(f) /\ g.route = f.route /\ g.todo = f.todo
      BY DEF ShapeOk, SameCall
    <3>2. f.route \in OneCall => Len(f.todo) = 1
      BY <3>1, OnlyCallIsOne DEF TodoOk
    <3>3. f.route = "securities" => Len(f.todo) = 2
      <4>1. Len(<<"list_securities", "count_securities">>) = 2 /\ Len(<<"count_securities">>) = 1
        OBVIOUS
      <4>2. ~ (1 > 1)
        OBVIOUS
      <4>3. Len(f.todo) # 1
        BY <1>2, <3>1, <4>2, Zenon
      <4> QED BY <3>1, <4>1, <4>3 DEF TodoOk
    <3>4. ~ (1 > 1)
      OBVIOUS
    <3> QED BY <1>2, <3>1, <3>2, <3>3, <3>4, Zenon
  <2>5. g.route \notin {"volume", "last", "decisions"} /\ "securities" \in Api!Lists
    BY <2>2, SecuritiesListed DEF OneCall
  <2> HIDE DEF h
  <2>3. (Past(h, 2) => Len(g.todo) <= 3) /\ (Past(h, 1) => Len(g.todo) <= 2) /\ ~ Past(h, 0)
    BY <1>1, <1>2, <2>1 DEF Past
  <2>4. AnswersOk(h, al, tk, c, n, rel, au, mv)
    <3>1. h.route = "securities" => Len(h.todo) # 2
      <4>1. h.route = "securities" => Len(h.todo) = 2 - 1
        BY <2>1, <2>2, Zenon
      <4>2. 2 - 1 # 2
        OBVIOUS
      <4> QED BY <4>1, <4>2, Zenon
    <3>2. h.route = "alarms" =>
            /\ Past(h, 2) => PageOk(h.items, h.total, al, h.asked[1])
            /\ Past(h, 1) => h.unacked >= h.total
      BY <2>1, <2>3 DEF Gained
    <3>3. h.route = "securities" =>
            /\ h.total = 0 /\ (h.lost => h.items = <<>>)
            /\ SecuritiesPage(h.items, h.asked, c, mv)
            /\ ListOk(h.items, h.route, h.asked, tk, c, rel, au)
      BY <2>1, <2>2, <2>5 DEF Gained
    <3> QED BY <2>1, <2>2, <2>3, <3>1, <3>2, <3>3 DEF AnswersOk
  <2> QED BY <2>4 DEF h
<1>3. CASE Len(g.todo) = 1
  <2>1. /\ h.pc = "done"
        /\ h.route = g.route /\ h.asked = g.asked /\ h.items = g.items /\ h.total = g.total
        /\ h.unacked = g.unacked /\ h.lost = g.lost
    BY <1>3, AfterIs
  <2> HIDE DEF h
  <2>2. AnswersOk(h, al, tk, c, n, rel, au, mv)
    BY <1>3, <2>1, SecuritiesListed DEF AnswersOk, Gained
  <2> QED BY <2>2 DEF h
<1> HIDE DEF h
<1> QED BY <1>1, <1>2, <1>3

-----------------------------------------------------------------------------
\* f with other results.
With(f, items, total, unacked, named, lost) ==
  [pc |-> f.pc, route |-> f.route, asked |-> f.asked, items |-> items, total |-> total,
   unacked |-> unacked, named |-> named, todo |-> f.todo, lost |-> lost,
   status |-> f.status, traced |-> f.traced]

LEMMA WithFrame ==
  ASSUME NEW f, IsFrame(f), NEW items, NEW total, NEW unacked, NEW named, NEW lost \in BOOLEAN,
         NEW g, g = With(f, items, total, unacked, named, lost)
  PROVE  /\ IsFrame(g) /\ g.pc = f.pc /\ g.route = f.route /\ g.asked = f.asked /\ g.todo = f.todo
         /\ g.status = f.status /\ g.traced = f.traced /\ g.items = items /\ g.total = total
         /\ g.unacked = unacked /\ g.named = named /\ g.lost = lost
<1>3. /\ f.pc \in {"idle", "gate", "read", "done"} /\ f.route \in Api!Routes
      /\ f.status \in {0, 200, 400, 401, 404, 422, 500} /\ f.traced \in BOOLEAN
  BY DEF IsFrame
<1>4. /\ g.pc = f.pc /\ g.route = f.route /\ g.asked = f.asked /\ g.todo = f.todo
      /\ g.status = f.status /\ g.traced = f.traced /\ g.items = items /\ g.total = total
      /\ g.unacked = unacked /\ g.named = named /\ g.lost = lost
  BY DEF With
<1>5. IsFrame(g)
  BY <1>3, <1>4 DEF IsFrame, With
<1> QED BY <1>4, <1>5

LEMMA ExceptIsWith ==
  ASSUME NEW f, IsFrame(f), NEW x
  PROVE  /\ [f EXCEPT !.items = x] = With(f, x, f.total, f.unacked, f.named, f.lost)
         /\ [f EXCEPT !.total = x] = With(f, f.items, x, f.unacked, f.named, f.lost)
         /\ [f EXCEPT !.unacked = x] = With(f, f.items, f.total, x, f.named, f.lost)
         /\ [f EXCEPT !.named = x] = With(f, f.items, f.total, f.unacked, x, f.lost)
         /\ [f EXCEPT !.lost = x] = With(f, f.items, f.total, f.unacked, f.named, x)
         /\ f = With(f, f.items, f.total, f.unacked, f.named, f.lost)
<1>1. f \in [pc : {"idle", "gate", "read", "done"}, route : Api!Routes, asked : {f.asked},
             items : {f.items}, total : {f.total}, unacked : {f.unacked}, named : {f.named},
             todo : {f.todo}, lost : BOOLEAN, status : {0, 200, 400, 401, 404, 422, 500},
             traced : BOOLEAN]
  BY DEF IsFrame
<1>2. [f EXCEPT !.items = x] = With(f, x, f.total, f.unacked, f.named, f.lost)
  BY <1>1 DEF With
<1>3. [f EXCEPT !.total = x] = With(f, f.items, x, f.unacked, f.named, f.lost)
  BY <1>1 DEF With
<1>4. [f EXCEPT !.unacked = x] = With(f, f.items, f.total, x, f.named, f.lost)
  BY <1>1 DEF With
<1>5. [f EXCEPT !.named = x] = With(f, f.items, f.total, f.unacked, x, f.lost)
  BY <1>1 DEF With
<1>6. [f EXCEPT !.lost = x] = With(f, f.items, f.total, f.unacked, f.named, x)
  BY <1>1 DEF With
<1>7. f = With(f, f.items, f.total, f.unacked, f.named, f.lost)
  BY <1>1 DEF With
<1> QED BY <1>2, <1>3, <1>4, <1>5, <1>6, <1>7

\* The calls whose results a property is about.
LEMMA RunOf ==
  ASSUME NEW f, IsFrame(f)
  PROVE  /\ Api!Run("list_securities", f)
              = With(f, Api!ListSecurities(f.asked[1]), f.total, f.unacked, f.named, f.lost)
         /\ Api!Run("count_securities", f)
              = With(f, f.items, Api!CountSecurities(f.asked[1]), f.unacked, f.named, f.lost)
         /\ Api!Run("get_by_ticker_batch", f)
              = With(f, f.items, f.total, f.unacked, Api!GetByTickerBatch(Api!Wanted(f)), f.lost)
         /\ Api!Run("get_security", f)
              = With(f, Api!GetSecurity(f.asked[1]), f.total, f.unacked, f.named, f.lost)
         /\ Api!Run("list_relations", f)
              = With(f, Api!ListRelations(f.asked), f.total, f.unacked, f.named, f.lost)
         /\ Api!Run("list_recent_tape", f)
              = With(f, Api!ListRecentTape(f.asked), f.total, f.unacked, f.named, f.lost)
         /\ Api!Run("list_recent_ticks", f)
              = With(f, Api!ListRecentTicks(f.asked[1]), f.total, f.unacked, f.named, f.lost)
         /\ Api!Run("fetch_recent", f)
              = With(f, Api!FetchRecent(f.asked[1]), f.total, f.unacked, f.named, f.lost)
         /\ Api!Run("snapshot_per_symbol", f)
              = With(f, Api!SnapshotPerSymbol(f.asked), f.total, f.unacked, f.named, f.lost)
         /\ Api!Run("aggregate_volume", f)
              = With(f, Api!AggregateVolume(f.asked), f.total, f.unacked, f.named, f.lost)
         /\ Api!Run("aggregate_decisions_per_minute", f)
              = With(f, <<Api!AggregateDecisions>>, f.total, f.unacked, f.named, f.lost)
         /\ Api!Run("list", f)
              = With(f, Api!Newest(f.asked[1]), Api!Cardinality(Api!Matched(f.asked[1])),
                     f.unacked, f.named, f.lost)
         /\ Api!Run("count_active", f)
              = With(f, f.items, f.total, Api!CountActive, f.named, f.lost)
<1>1. f \in [pc : {"idle", "gate", "read", "done"}, route : Api!Routes, asked : {f.asked},
             items : {f.items}, total : {f.total}, unacked : {f.unacked}, named : {f.named},
             todo : {f.todo}, lost : BOOLEAN, status : {0, 200, 400, 401, 404, 422, 500},
             traced : BOOLEAN]
  BY DEF IsFrame
<1>2. ASSUME NEW x, NEW y
      PROVE  [f EXCEPT !.items = x, !.total = y] = With(f, x, y, f.unacked, f.named, f.lost)
  <2> DEFINE h == [f EXCEPT !.items = x]
             g == [f EXCEPT !.items = x, !.total = y]
  <2>1. g = [h EXCEPT !.total = y]
    OBVIOUS
  <2>2. h = With(f, x, f.total, f.unacked, f.named, f.lost)
    BY ExceptIsWith, Zenon
  <2> HIDE DEF g, h
  <2>7. f.lost \in BOOLEAN
    BY DEF IsFrame
  <2>3. /\ IsFrame(h) /\ h.pc = f.pc /\ h.route = f.route /\ h.asked = f.asked /\ h.todo = f.todo
        /\ h.status = f.status /\ h.traced = f.traced /\ h.items = x /\ h.total = f.total
        /\ h.unacked = f.unacked /\ h.named = f.named /\ h.lost = f.lost
    BY <2>2, <2>7, WithFrame
  <2>4. [h EXCEPT !.total = y] = With(h, h.items, y, h.unacked, h.named, h.lost)
    BY <2>3, ExceptIsWith
  <2>5. With(h, h.items, y, h.unacked, h.named, h.lost) = With(f, x, y, f.unacked, f.named, f.lost)
    BY <2>3 DEF With
  <2>6. g = With(f, x, y, f.unacked, f.named, f.lost)
    BY <2>1, <2>4, <2>5
  <2> QED BY <2>6 DEF g
<1>3. Api!Run("list_securities", f) = [f EXCEPT !.items = Api!ListSecurities(f.asked[1])]
  BY DEF Api!Run
<1>4. Api!Run("count_securities", f) = [f EXCEPT !.total = Api!CountSecurities(f.asked[1])]
  BY DEF Api!Run
<1>5. Api!Run("get_by_ticker_batch", f) = [f EXCEPT !.named = Api!GetByTickerBatch(Api!Wanted(f))]
  BY DEF Api!Run
<1>6. Api!Run("snapshot_per_symbol", f) = [f EXCEPT !.items = Api!SnapshotPerSymbol(f.asked)]
  BY DEF Api!Run
<1>7. Api!Run("aggregate_volume", f) = [f EXCEPT !.items = Api!AggregateVolume(f.asked)]
  BY DEF Api!Run
<1>8. Api!Run("aggregate_decisions_per_minute", f) = [f EXCEPT !.items = <<Api!AggregateDecisions>>]
  BY DEF Api!Run
<1>9. Api!Run("list", f) = [f EXCEPT !.items = Api!Newest(f.asked[1]),
                                     !.total = Api!Cardinality(Api!Matched(f.asked[1]))]
  BY DEF Api!Run
<1>10. Api!Run("count_active", f) = [f EXCEPT !.unacked = Api!CountActive]
  BY DEF Api!Run
<1>11. Api!Run("list", f) = With(f, Api!Newest(f.asked[1]),
                                Api!Cardinality(Api!Matched(f.asked[1])), f.unacked, f.named, f.lost)
  BY <1>2, <1>9, Zenon
<1>12. /\ \A x : [f EXCEPT !.items = x] = With(f, x, f.total, f.unacked, f.named, f.lost)
       /\ \A x : [f EXCEPT !.total = x] = With(f, f.items, x, f.unacked, f.named, f.lost)
       /\ \A x : [f EXCEPT !.unacked = x] = With(f, f.items, f.total, x, f.named, f.lost)
       /\ \A x : [f EXCEPT !.named = x] = With(f, f.items, f.total, f.unacked, x, f.lost)
  BY ExceptIsWith
<1>13. /\ Api!Run("get_security", f) = [f EXCEPT !.items = Api!GetSecurity(f.asked[1])]
       /\ Api!Run("list_relations", f) = [f EXCEPT !.items = Api!ListRelations(f.asked)]
       /\ Api!Run("list_recent_tape", f) = [f EXCEPT !.items = Api!ListRecentTape(f.asked)]
  BY DEF Api!Run
<1>14. /\ Api!Run("list_recent_ticks", f) = [f EXCEPT !.items = Api!ListRecentTicks(f.asked[1])]
       /\ Api!Run("fetch_recent", f) = [f EXCEPT !.items = Api!FetchRecent(f.asked[1])]
  BY DEF Api!Run
<1>15. /\ Api!Run("get_security", f)
            = With(f, Api!GetSecurity(f.asked[1]), f.total, f.unacked, f.named, f.lost)
       /\ Api!Run("list_relations", f)
            = With(f, Api!ListRelations(f.asked), f.total, f.unacked, f.named, f.lost)
       /\ Api!Run("list_recent_tape", f)
            = With(f, Api!ListRecentTape(f.asked), f.total, f.unacked, f.named, f.lost)
  BY <1>12, <1>13, Zenon
<1>16. /\ Api!Run("list_recent_ticks", f)
            = With(f, Api!ListRecentTicks(f.asked[1]), f.total, f.unacked, f.named, f.lost)
       /\ Api!Run("fetch_recent", f)
            = With(f, Api!FetchRecent(f.asked[1]), f.total, f.unacked, f.named, f.lost)
  BY <1>12, <1>14, Zenon
<1> QED BY <1>3, <1>4, <1>5, <1>6, <1>7, <1>8, <1>10, <1>11, <1>12, <1>15, <1>16, Zenon

\* Every call leaves all but the results alone.
LEMMA RunKeeps ==
  ASSUME NEW f, IsFrame(f), f.pc = "read", NEW query
  PROVE  SameCall(f, Api!Run(query, f)) /\ Api!Run(query, f).lost = f.lost
<1> DEFINE g == Api!Run(query, f)
<1>1. \E items, total, unacked, named : g = With(f, items, total, unacked, named, f.lost)
  <2>1. CASE \E x : g = [f EXCEPT !.items = x]
    <3>1. PICK x : g = [f EXCEPT !.items = x]
      BY <2>1
    <3>2. [f EXCEPT !.items = x] = With(f, x, f.total, f.unacked, f.named, f.lost)
      BY ExceptIsWith
    <3> HIDE DEF g
    <3>3. g = With(f, x, f.total, f.unacked, f.named, f.lost)
      BY <3>1, <3>2
    <3> QED BY <3>3
  <2>2. CASE \E x : g = [f EXCEPT !.total = x]
    <3>1. PICK x : g = [f EXCEPT !.total = x]
      BY <2>2
    <3>2. [f EXCEPT !.total = x] = With(f, f.items, x, f.unacked, f.named, f.lost)
      BY ExceptIsWith
    <3> HIDE DEF g
    <3>3. g = With(f, f.items, x, f.unacked, f.named, f.lost)
      BY <3>1, <3>2
    <3> QED BY <3>3
  <2>3. CASE query \in {"list", "count_active", "get_by_ticker_batch"}
    <3>1. CASE query = "list"
      <4>1. g = With(f, Api!Newest(f.asked[1]), Api!Cardinality(Api!Matched(f.asked[1])),
                     f.unacked, f.named, f.lost)
        BY <3>1, RunOf
      <4> HIDE DEF g
      <4> QED BY <4>1
    <3>2. CASE query = "count_active"
      <4>1. g = With(f, f.items, f.total, Api!CountActive, f.named, f.lost)
        BY <3>2, RunOf
      <4> HIDE DEF g
      <4> QED BY <4>1
    <3>3. CASE query = "get_by_ticker_batch"
      <4>1. g = With(f, f.items, f.total, f.unacked, Api!GetByTickerBatch(Api!Wanted(f)), f.lost)
        BY <3>3, RunOf
      <4> HIDE DEF g
      <4> QED BY <4>1
    <3> QED BY <2>3, <3>1, <3>2, <3>3
  <2>4. CASE g = f
    <3> HIDE DEF g
    <3>1. g = With(f, f.items, f.total, f.unacked, f.named, f.lost)
      BY <2>4, ExceptIsWith
    <3> QED BY <3>1
  <2>5. query \notin {"list", "count_active", "get_by_ticker_batch"} =>
          \/ \E x : g = [f EXCEPT !.items = x]
          \/ \E x : g = [f EXCEPT !.total = x]
          \/ g = f
    BY DEF Api!Run
  <2> HIDE DEF g
  <2> QED BY <2>1, <2>2, <2>3, <2>4, <2>5
<1> HIDE DEF g
<1>2. f.lost \in BOOLEAN
  BY DEF IsFrame
<1>3. SameCall(f, g) /\ g.lost = f.lost
  BY <1>1, <1>2, WithFrame DEF SameCall
<1> QED BY <1>3 DEF g

-----------------------------------------------------------------------------
LEMMA StoreTypes ==
  ASSUME StoreOk
  PROVE  ticks \in SUBSET TickRows /\ audits \in Seq([symbol : Companies, outcome : Api!Outcomes])
  BY DEF StoreOk

\* The counters of the alarm page do not depend on the page.
LEMMA ActiveCoversMatch ==
  ASSUME NEW since
  PROVE  Api!CountActive >= Cardinality(Match(alarms, since))
<1> DEFINE A == {a \in AlarmIds : alarms[a] = "active"}
<1>1. Api!CountActive = Cardinality(A)
  BY ApiSame, Zenon DEF Api!CountActive
<1>2. A \in SUBSET AlarmIds /\ Match(alarms, since) \in SUBSET A
  BY DEF Match
<1> HIDE DEF A
<1>3. IsFiniteSet(A) /\ IsFiniteSet(Match(alarms, since))
  BY <1>2, ApiParameters, FS_Subset
<1>4. /\ Cardinality(Match(alarms, since)) <= Cardinality(A)
      /\ Cardinality(A) \in Nat /\ Cardinality(Match(alarms, since)) \in Nat
  BY <1>2, <1>3, FS_Subset, FS_CardinalityType
<1> QED BY <1>1, <1>4

\* What a call that returned contributes.
LEMMA RunGains ==
  ASSUME StoreOk, NEW f, ShapeOk(f), f.pc = "read",
         AnswersOk(f, alarms, ticks, companies, Len(audits), relations, AuditRows, moved)
  PROVE  Gained(Api!Run(Head(f.todo), f), alarms, ticks, companies, Len(audits), relations, AuditRows, moved)
<1> DEFINE g == Api!Run(Head(f.todo), f)
<1>1. IsFrame(f) /\ TodoOk(f) /\ AskedOk(f.route, f.asked)
      /\ (f.route \in OneCall => OnlyCall(f.route, f.todo))
  BY DEF ShapeOk, TodoOk
<1>2. SameCall(f, g) /\ g.lost = f.lost
  BY <1>1, RunKeeps
<1> SUFFICES Gained(g, alarms, ticks, companies, Len(audits), relations, AuditRows, moved)
  OBVIOUS
<1> HIDE DEF g
<1>3. g.route = f.route /\ g.asked = f.asked /\ g.todo = f.todo
  BY <1>2 DEF SameCall
<1>4. f.lost \in BOOLEAN
  BY <1>1 DEF IsFrame
<1>18. "alarms" \notin OneCall /\ "alarms" \notin Api!Lists
  BY DEF OneCall, Api!Lists
<1>5. CASE f.route = "alarms"
  <2>1. CASE f.todo = <<"list", "count_active", "get_by_ticker_batch">>
    <3>1. Head(f.todo) = "list" /\ Len(f.todo) = 3
      BY <2>1
    <3>2. g = With(f, Api!Newest(f.asked[1]), Api!Cardinality(Api!Matched(f.asked[1])),
                   f.unacked, f.named, f.lost)
      BY <1>1, <3>1, RunOf DEF g
    <3>3. g.items = Api!Newest(f.asked[1]) /\ g.total = Api!Cardinality(Api!Matched(f.asked[1]))
      BY <3>2 DEF With
    <3>4. PageOk(g.items, g.total, alarms, g.asked[1])
      BY <1>3, <3>3, NewestOk
    <3>5. ~ (Len(g.todo) <= 2)
      BY <1>3, <3>1
    <3> QED BY <1>3, <1>5, <1>18, <3>4, <3>5 DEF Gained
  <2>2. CASE f.todo = <<"count_active", "get_by_ticker_batch">>
    <3>1. Head(f.todo) = "count_active" /\ Len(f.todo) = 2
      BY <2>2
    <3>2. g = With(f, f.items, f.total, Api!CountActive, f.named, f.lost)
      BY <1>1, <3>1, RunOf DEF g
    <3>3. g.items = f.items /\ g.total = f.total /\ g.unacked = Api!CountActive
      BY <3>2 DEF With
    <3>4. PageOk(f.items, f.total, alarms, f.asked[1])
      BY <1>5, <3>1 DEF AnswersOk, Past
    <3>5. g.unacked >= g.total
      BY <3>3, <3>4, ActiveCoversMatch DEF PageOk
    <3> QED BY <1>3, <1>5, <1>18, <3>3, <3>4, <3>5 DEF Gained
  <2>3. CASE f.todo = <<"get_by_ticker_batch">>
    <3>1. Head(f.todo) = "get_by_ticker_batch" /\ Len(f.todo) = 1
      BY <2>3
    <3>2. g = With(f, f.items, f.total, f.unacked, Api!GetByTickerBatch(Api!Wanted(f)), f.lost)
      BY <1>1, <3>1, RunOf DEF g
    <3>3. g.items = f.items /\ g.total = f.total /\ g.unacked = f.unacked
      BY <3>2 DEF With
    <3>4. PageOk(f.items, f.total, alarms, f.asked[1]) /\ f.unacked >= f.total
      BY <1>5, <3>1 DEF AnswersOk, Past
    <3> QED BY <1>3, <1>5, <1>18, <3>3, <3>4 DEF Gained
  <2> QED BY <1>1, <1>5, <2>1, <2>2, <2>3 DEF TodoOk
<1>11. f.route \in OneCall => ~ g.lost
  BY <1>2 DEF AnswersOk
<1>6. CASE f.route = "securities"
  <2>0. f.total = 0 /\ (f.lost => f.items = <<>>)
    BY <1>6 DEF AnswersOk
  <2>1. CASE f.todo = <<"list_securities", "count_securities">>
    <3>1. Head(f.todo) = "list_securities" /\ Len(f.todo) = 2
      BY <2>1
    <3>2. PICK page : page = Api!ListSecurities(f.asked[1])
      OBVIOUS
    <3>3. g = With(f, page, f.total, f.unacked, f.named, f.lost)
      BY <1>1, <3>1, <3>2, RunOf DEF g
    <3>4. g.items = page /\ g.total = 0 /\ ~ g.lost
      BY <1>6, <2>0, <3>1, <3>3 DEF With, AnswersOk
    <3>5. /\ Entries(page) \subseteq Api!Matching(f.asked[1]) /\ Len(page) <= Limit
          /\ Cardinality(Entries(page)) = Len(page)
      BY <3>2, SecuritiesOk
    <3>6. SecuritiesPage(page, f.asked, companies, moved)
      BY <3>5, MatchingIs DEF SecuritiesPage
    <3>7. ListOk(page, f.route, f.asked, ticks, companies, relations, AuditRows)
      BY <1>6, <3>5, MatchingIs DEF ListOk, MayList
    <3>8. Len(g.todo) # 1
      BY <1>3, <3>1
    <3>9. g.route \notin OneCall
      BY <1>3, <1>6 DEF OneCall
    <3> QED BY <1>3, <1>6, <3>4, <3>6, <3>7, <3>8, <3>9 DEF Gained
  <2>2. CASE f.todo = <<"count_securities">>
    <3>1. Head(f.todo) = "count_securities" /\ Len(f.todo) = 1
      BY <2>2
    <3>2. g = With(f, f.items, Api!CountSecurities(f.asked[1]), f.unacked, f.named, f.lost)
      BY <1>1, <3>1, RunOf DEF g
    <3>3. g.items = f.items /\ g.total = Api!CountSecurities(f.asked[1])
      BY <3>2 DEF With
    <3>4. /\ SecuritiesPage(f.items, f.asked, companies, moved)
          /\ ListOk(f.items, f.route, f.asked, ticks, companies, relations, AuditRows)
      BY <1>6, <3>1 DEF AnswersOk, Past
    <3> DEFINE C == Api!Matching(f.asked[1])
               shown == Entries(f.items) \ Spared(f.asked, moved)
    <3>5. g.total = Cardinality(C)
      BY <3>3, ApiSame DEF Api!CountSecurities
    <3>6. shown \in SUBSET C
      BY <3>4, MatchingIs DEF SecuritiesPage, Spared
    <3>7. IsFiniteSet(C)
      BY MatchingHeld
    <3> HIDE DEF C, shown
    <3>8. Cardinality(shown) <= Cardinality(C) /\ Cardinality(C) \in Nat /\ Cardinality(shown) \in Nat
      BY <3>6, <3>7, FS_Subset, FS_CardinalityType
    <3>9. Covers(g.total, f.items, f.asked, moved)
      BY <3>5, <3>8 DEF Covers, shown
    <3>10. Len(g.todo) # 2
      BY <1>3, <3>1
    <3>11. g.route \notin OneCall
      BY <1>3, <1>6 DEF OneCall
    <3> QED BY <1>2, <1>3, <1>6, <2>0, <3>3, <3>4, <3>9, <3>10, <3>11 DEF Gained
  <2> QED BY <1>1, <1>6, <2>1, <2>2 DEF TodoOk
<1>7. CASE f.route = "volume"
  <2>1. Head(f.todo) = "aggregate_volume"
    BY <1>1, <1>7 DEF OneCall, OnlyCall
  <2>2. g = With(f, Api!AggregateVolume(f.asked), f.total, f.unacked, f.named, f.lost)
    BY <1>1, <2>1, RunOf DEF g
  <2>3. g.items = Api!AggregateVolume(f.asked)
    BY <2>2 DEF With
  <2>4. VolumeOk(g.items, g.asked, ticks)
    BY <1>1, <1>3, <1>7, <2>3, AggregateOk, StoreTypes DEF AskedOk
  <2>5. g.route \notin Api!Lists
    BY <1>3, <1>7 DEF Api!Lists
  <2> QED BY <1>3, <1>7, <1>11, <2>4, <2>5 DEF Gained
<1>8. CASE f.route = "last"
  <2>1. Head(f.todo) = "snapshot_per_symbol"
    BY <1>1, <1>8 DEF OneCall, OnlyCall
  <2>2. g = With(f, Api!SnapshotPerSymbol(f.asked), f.total, f.unacked, f.named, f.lost)
    BY <1>1, <2>1, RunOf DEF g
  <2>3. g.items = Api!SnapshotPerSymbol(f.asked)
    BY <2>2 DEF With
  <2>4. SnapshotOk(g.items, {g.asked[i] : i \in DOMAIN g.asked}, ticks)
    BY <1>3, <2>3, SnapshotIsOk, StoreTypes
  <2>5. Entries(g.items) \subseteq TicksAt(ticks, Entries(g.asked))
    BY <2>4 DEF SnapshotOk, Entries
  <2>6. ListOk(g.items, g.route, g.asked, ticks, companies, relations, AuditRows)
    BY <1>3, <1>8, <2>5 DEF ListOk, MayList
  <2> QED BY <1>3, <1>8, <1>11, <2>4, <2>6 DEF Gained
<1>9. CASE f.route = "decisions"
  <2>1. Head(f.todo) = "aggregate_decisions_per_minute"
    BY <1>1, <1>9 DEF OneCall, OnlyCall
  <2>2. g = With(f, <<Api!AggregateDecisions>>, f.total, f.unacked, f.named, f.lost)
    BY <1>1, <2>1, RunOf DEF g
  <2>3. g.items[1] = Api!AggregateDecisions
    BY <2>2 DEF With
  <2>4. DecisionsOk(g.items[1], Len(audits))
    BY <2>3, DecisionsAddUp, StoreTypes
  <2>5. g.route \notin Api!Lists
    BY <1>3, <1>9 DEF Api!Lists
  <2> QED BY <1>3, <1>9, <1>11, <2>4, <2>5 DEF Gained
<1>12. ASSUME f.route \in {"detail", "relations", "tape", "recent", "audit"},
              ListOk(g.items, f.route, f.asked, ticks, companies, relations, AuditRows)
       PROVE  Gained(g, alarms, ticks, companies, Len(audits), relations, AuditRows, moved)
  <2>1. g.route \in OneCall
    BY <1>3, <1>12 DEF OneCall
  <2> QED BY <1>3, <1>11, <1>12, <2>1 DEF Gained
<1>13. CASE f.route = "detail"
  <2>1. Head(f.todo) = "get_security"
    BY <1>1, <1>13 DEF OneCall, OnlyCall
  <2>2. g = With(f, Api!GetSecurity(f.asked[1]), f.total, f.unacked, f.named, f.lost)
    BY <1>1, <2>1, RunOf DEF g
  <2>3. g.items = Api!GetSecurity(f.asked[1])
    BY <2>2 DEF With
  <2>4. Entries(g.items) \subseteq Held(companies) \cap {f.asked[1]}
    <3>1. CASE companies[f.asked[1]] # 0
      <4>1. g.items = <<f.asked[1]>>
        BY <2>3, <3>1 DEF Api!GetSecurity
      <4>2. Entries(<<f.asked[1]>>) = {f.asked[1]}
        BY DEF Entries
      <4>3. f.asked[1] \in Companies
        BY <1>1, <1>13 DEF AskedOk
      <4> QED BY <3>1, <4>1, <4>2, <4>3 DEF Held
    <3>2. CASE companies[f.asked[1]] = 0
      BY <2>3, <3>2 DEF Api!GetSecurity, Entries
    <3> QED BY <3>1, <3>2
  <2>5. ListOk(g.items, f.route, f.asked, ticks, companies, relations, AuditRows)
    BY <1>13, <2>4 DEF ListOk, MayList
  <2> QED BY <1>12, <1>13, <2>5
<1>14. CASE f.route = "relations"
  <2>1. Head(f.todo) = "list_relations"
    BY <1>1, <1>14 DEF OneCall, OnlyCall
  <2>2. g = With(f, Api!ListRelations(f.asked), f.total, f.unacked, f.named, f.lost)
    BY <1>1, <2>1, RunOf DEF g
  <2>3. g.items = Api!ListRelations(f.asked)
    BY <2>2 DEF With
  <2>4. Entries(g.items) \subseteq Touch(relations, f.asked)
    BY <2>3, RelationsOk DEF StoreOk
  <2>5. ListOk(g.items, f.route, f.asked, ticks, companies, relations, AuditRows)
    BY <1>14, <2>4 DEF ListOk, MayList
  <2> QED BY <1>12, <1>14, <2>5
<1>15. CASE f.route = "tape"
  <2>1. Head(f.todo) = "list_recent_tape"
    BY <1>1, <1>15 DEF OneCall, OnlyCall
  <2>2. g = With(f, Api!ListRecentTape(f.asked), f.total, f.unacked, f.named, f.lost)
    BY <1>1, <2>1, RunOf DEF g
  <2>3. g.items = Api!ListRecentTape(f.asked)
    BY <2>2 DEF With
  <2>4. Entries(g.items) \subseteq TicksAt(ticks, Entries(f.asked)) /\ Len(g.items) <= Limit
    BY <2>3, TapeOk, StoreTypes
  <2>5. ListOk(g.items, f.route, f.asked, ticks, companies, relations, AuditRows)
    BY <1>15, <2>4 DEF ListOk, MayList
  <2> QED BY <1>12, <1>15, <2>5
<1>16. CASE f.route = "recent"
  <2>1. Head(f.todo) = "list_recent_ticks"
    BY <1>1, <1>16 DEF OneCall, OnlyCall
  <2>2. g = With(f, Api!ListRecentTicks(f.asked[1]), f.total, f.unacked, f.named, f.lost)
    BY <1>1, <2>1, RunOf DEF g
  <2>3. g.items = Api!ListRecentTape(<<f.asked[1]>>)
    BY <2>2 DEF With, Api!ListRecentTicks
  <2>4. Entries(g.items) \subseteq TicksAt(ticks, Entries(<<f.asked[1]>>)) /\ Len(g.items) <= Limit
    BY <2>3, TapeOk, StoreTypes
  <2>5. Entries(<<f.asked[1]>>) = {f.asked[1]} /\ f.asked[1] \in Entries(f.asked)
    BY <1>1, <1>16 DEF Entries, AskedOk
  <2>6. TicksAt(ticks, Entries(<<f.asked[1]>>)) \subseteq TicksAt(ticks, Entries(f.asked))
    BY <2>5 DEF TicksAt
  <2>7. ListOk(g.items, f.route, f.asked, ticks, companies, relations, AuditRows)
    BY <1>16, <2>4, <2>6 DEF ListOk, MayList
  <2> QED BY <1>12, <1>16, <2>7
<1>17. CASE f.route = "audit"
  <2>1. Head(f.todo) = "fetch_recent"
    BY <1>1, <1>17 DEF OneCall, OnlyCall
  <2>2. g = With(f, Api!FetchRecent(f.asked[1]), f.total, f.unacked, f.named, f.lost)
    BY <1>1, <2>1, RunOf DEF g
  <2>3. g.items = Api!FetchRecent(f.asked[1])
    BY <2>2 DEF With
  <2>4. /\ Entries(g.items) \subseteq {row \in AuditRows : row.symbol = f.asked[1]}
        /\ Len(g.items) <= Limit
    BY <2>3, AuditOk, StoreTypes
  <2>5. ListOk(g.items, f.route, f.asked, ticks, companies, relations, AuditRows)
    BY <1>17, <2>4 DEF ListOk, MayList
  <2> QED BY <1>12, <1>17, <2>5
<1>10. CASE f.route \notin {"alarms", "securities", "volume", "last", "decisions"} \cup Api!Lists
  BY <1>3, <1>10, <1>11 DEF Gained
<1> QED BY <1>5, <1>6, <1>7, <1>8, <1>9, <1>10, <1>13, <1>14, <1>15, <1>16, <1>17 DEF Api!Lists

\* A call that fails leaves an empty result, where only the names of a page may be missing.
LEMMA FailureGains ==
  ASSUME NEW f, ShapeOk(f), f.pc = "read", NEW al, NEW tk, NEW c, NEW n, NEW rel, NEW au, NEW mv,
         AnswersOk(f, al, tk, c, n, rel, au, mv), Head(f.todo) \notin Api!InMemory
  PROVE  LET g == [f EXCEPT !.lost = TRUE]
         IN  SameCall(f, g) /\ g.lost /\ Gained(g, al, tk, c, n, rel, au, mv)
<1> DEFINE g == [f EXCEPT !.lost = TRUE]
<1>1. IsFrame(f) /\ TodoOk(f)
  BY DEF ShapeOk
<1>2. g = With(f, f.items, f.total, f.unacked, f.named, TRUE)
  BY <1>1, ExceptIsWith
<1> HIDE DEF g
<1>3. /\ IsFrame(g) /\ g.pc = f.pc /\ g.route = f.route /\ g.asked = f.asked /\ g.todo = f.todo
      /\ g.status = f.status /\ g.items = f.items /\ g.total = f.total
      /\ g.unacked = f.unacked /\ g.lost
  <2>1. PICK b \in BOOLEAN : g = With(f, f.items, f.total, f.unacked, f.named, b)
    BY <1>2, Zenon
  <2>2. /\ IsFrame(g) /\ g.pc = f.pc /\ g.route = f.route /\ g.asked = f.asked /\ g.todo = f.todo
        /\ g.status = f.status /\ g.items = f.items /\ g.total = f.total /\ g.unacked = f.unacked
    BY <1>1, <2>1, WithFrame
  <2>3. g.lost
    BY <1>2 DEF With
  <2> QED BY <2>2, <2>3
<1>4. f.route = "alarms" => PageOk(f.items, f.total, al, f.asked[1]) /\ f.unacked >= f.total
  <2>1. ASSUME f.route = "alarms" PROVE Len(f.todo) = 1
    <3>1. Head(<<"list", "count_active", "get_by_ticker_batch">>) \in Api!InMemory
      BY DEF Api!InMemory
    <3>2. Head(<<"count_active", "get_by_ticker_batch">>) \in Api!InMemory
      BY DEF Api!InMemory
    <3>3. f.todo = <<"get_by_ticker_batch">>
      BY <1>1, <2>1, <3>1, <3>2 DEF TodoOk
    <3> QED BY <3>3
  <2>2. f.route = "alarms" => Past(f, 2) /\ Past(f, 1)
    <3>1. 1 <= 2 /\ 1 <= 1
      OBVIOUS
    <3> QED BY <2>1, <3>1, Zenon DEF Past
  <2> QED BY <2>2 DEF AnswersOk
<1>5. f.route \in OneCall => f.items = <<>> /\ f.total = 0
  BY DEF AnswersOk
<1>6. f.route = "securities" =>
        /\ f.total = 0
        /\ SecuritiesPage(f.items, f.asked, c, mv)
        /\ ListOk(f.items, f.route, f.asked, tk, c, rel, au)
        /\ Len(f.todo) = 2 => f.items = <<>>
  <2>1. ASSUME f.route = "securities" PROVE f.total = 0 /\ (Len(f.todo) = 2 => f.items = <<>>)
    BY <2>1 DEF AnswersOk
  <2>2. f.route = "securities" => Len(f.todo) = 2 \/ Len(f.todo) = 1
    <3>1. Len(<<"list_securities", "count_securities">>) = 2 /\ Len(<<"count_securities">>) = 1
      OBVIOUS
    <3> QED BY <1>1, <3>1 DEF TodoOk
  <2>3. CASE Len(f.todo) = 2
    BY <2>1, <2>3, EmptyPage, EmptyList
  <2>4. CASE f.route = "securities" /\ Len(f.todo) = 1
    BY <2>1, <2>4 DEF AnswersOk, Past
  <2> QED BY <2>1, <2>2, <2>3, <2>4
<1>7. f.route \in Api!Lists => ListOk(f.items, f.route, f.asked, tk, c, rel, au)
  <2>1. f.route \in Api!Lists => f.route = "securities" \/ f.route \in OneCall
    BY DEF Api!Lists, OneCall
  <2> QED BY <1>5, <1>6, <2>1, EmptyList
<1>8. f.route = "last" => SnapshotOk(f.items, {f.asked[i] : i \in DOMAIN f.asked}, tk)
  <2>1. f.route = "last" => f.items = <<>>
    BY <1>5 DEF OneCall
  <2>2. DOMAIN <<>> = {}
    OBVIOUS
  <2> QED BY <2>1, <2>2, Zenon DEF SnapshotOk
<1>9. Gained(g, al, tk, c, n, rel, au, mv)
  BY <1>3, <1>4, <1>5, <1>6, <1>7, <1>8 DEF Gained
<1>10. SameCall(f, g) /\ g.lost
  BY <1>3 DEF SameCall
<1> QED BY <1>9, <1>10 DEF g
-----------------------------------------------------------------------------
\* Steps of a request.

\* The codes a request ends with before its last call.
Refusals == {200, 400, 401, 422, 500}

\* g is the end of f.
Closed(g, f, status) ==
  /\ IsFrame(g) /\ g.pc = "done" /\ g.status = status /\ (status # 500 => g.traced)
  /\ g.route = f.route /\ g.asked = f.asked /\ g.items = f.items /\ g.total = f.total
  /\ g.lost = f.lost

LEMMA AnswerIs ==
  ASSUME NEW f, IsFrame(f), NEW r, NEW status, status \in Refusals,
         Api!Answer(r, status, f)
  PROVE  \E g : Api!Step(r, g) /\ Closed(g, f, status)
<1> DEFINE g == Placed(f, "done", <<>>, status, TRUE)
<1>1. Answered(f, "done", status, <<>>, TRUE) = g
  BY ONLY IsFrame(f), PlacedWhole, Zenon
<1>2. Api!Step(r, Answered(f, "done", status, <<>>, TRUE))
  BY ONLY Api!Answer(r, status, f), Zenon DEF Api!Answer, Answered
<1>3. "done" \in Places /\ status \in Answers
  BY DEF Places, Answers, Refusals
<1>4. TRUE \in BOOLEAN
  OBVIOUS
<1>5. PlacedOk(g, f, "done", <<>>, status)
  BY <1>3, <1>4, PlacedFrame, Zenon
<1>6. g.traced
  BY Zenon DEF Placed
<1> HIDE DEF g
<1>7. Api!Step(r, g)
  BY ONLY <1>1, <1>2, Zenon
<1>8. Closed(g, f, status)
  BY <1>5, <1>6 DEF Closed, PlacedOk
<1> QED BY <1>7, <1>8

LEMMA CrashIs ==
  ASSUME NEW f, IsFrame(f), NEW r, Api!Crash(r, f)
  PROVE  \E g : Api!Step(r, g) /\ Closed(g, f, 500)
<1>1. f \in [pc : {"idle", "gate", "read", "done"}, route : Api!Routes, asked : {f.asked},
             items : {f.items}, total : {f.total}, unacked : {f.unacked}, named : {f.named},
             todo : {f.todo}, lost : BOOLEAN, status : {0, 200, 400, 401, 404, 422, 500},
             traced : BOOLEAN]
  BY DEF IsFrame
<1>2. PICK status : status = 500
  OBVIOUS
<1> DEFINE g == Placed(f, "done", <<>>, status, f.traced)
<1>3. Crashed(f, "done", status, <<>>) = g
  BY PlacedThrice, Zenon
<1>4. Api!Step(r, Crashed(f, "done", 500, <<>>))
  BY ONLY Api!Crash(r, f), Zenon DEF Api!Crash, Crashed
<1>5. "done" \in Places /\ status \in Answers /\ f.traced \in BOOLEAN
  BY <1>1, <1>2 DEF Places, Answers
<1>6. PlacedOk(g, f, "done", <<>>, status)
  BY <1>5, PlacedFrame, Zenon
<1> HIDE DEF g
<1>7. Api!Step(r, g)
  BY ONLY <1>2, <1>3, <1>4
<1>8. Closed(g, f, 500)
  BY <1>2, <1>6 DEF Closed, PlacedOk
<1> QED BY <1>7, <1>8

\* g is f at its first call.
Opened(g, f, left) ==
  /\ IsFrame(g) /\ g.pc = "read" /\ g.status = f.status /\ g.todo = left
  /\ g.route = f.route /\ g.asked = f.asked /\ g.items = f.items /\ g.total = f.total
  /\ g.lost = f.lost

LEMMA OpensIs ==
  ASSUME NEW f, IsFrame(f), NEW left, NEW g, g = [f EXCEPT !.pc = "read", !.todo = left]
  PROVE  Opened(g, f, left)
<1>1. f \in [pc : {"idle", "gate", "read", "done"}, route : Api!Routes, asked : {f.asked},
             items : {f.items}, total : {f.total}, unacked : {f.unacked}, named : {f.named},
             todo : {f.todo}, lost : BOOLEAN, status : {0, 200, 400, 401, 404, 422, 500},
             traced : BOOLEAN]
  BY DEF IsFrame
<1>2. [f EXCEPT !.pc = "read", !.todo = left] = Placed(f, "read", left, f.status, f.traced)
  BY PlacedTwice, Zenon
<1>3. "read" \in Places /\ f.status \in Answers /\ f.traced \in BOOLEAN
  BY <1>1 DEF Places, Answers
<1>4. PlacedOk(Placed(f, "read", left, f.status, f.traced), f, "read", left, f.status)
  BY <1>3, PlacedFrame, Zenon
<1>5. PlacedOk(g, f, "read", left, f.status)
  BY ONLY <1>2, <1>4, g = [f EXCEPT !.pc = "read", !.todo = left], Zenon
<1> QED BY <1>5 DEF Opened, PlacedOk

LEMMA OneRead ==
  ASSUME ReadInv, NEW r \in Reads, NEW g, ShapeOk(g),
         AnswersOk(g, alarms, ticks, companies, Len(audits), relations, AuditRows, moved), Api!Step(r, g)
  PROVE  ReadInv'
<1>1. gets' = [gets EXCEPT ![r] = g] /\ companies' = companies /\ relations' = relations
      /\ ticks' = ticks /\ audits' = audits /\ alarms' = alarms /\ writes' = writes
      /\ moved' = moved /\ AuditRows' = AuditRows
  BY DEF Api!Step, Api!store, AuditRows
<1>2. gets = [q \in Reads |-> gets[q]]
  BY DEF ReadInv
<1>3. gets' = [q \in Reads |-> gets'[q]] /\ gets'[r] = g
      /\ \A q \in Reads : q # r => gets'[q] = gets[q]
  BY <1>1, <1>2
<1>4. StoreOk'
  BY <1>1 DEF ReadInv, StoreOk
<1>5. ASSUME NEW q \in Reads
      PROVE  ShapeOk(gets'[q]) /\ AnswersOk(gets'[q], alarms, ticks, companies, Len(audits), relations, AuditRows, moved)
  BY <1>3 DEF ReadInv
<1> QED BY <1>1, <1>3, <1>4, <1>5 DEF ReadInv

\* A request that is turned away, at the gate or by a store that fails.
LEMMA ClosedOk ==
  ASSUME NEW f, ShapeOk(f), NEW status \in {400, 401, 422, 500},
         f.lost => f.route = "snapshot", NEW al, NEW tk, NEW c, NEW n, NEW rel, NEW au, NEW mv,
         NEW g, Closed(g, f, status)
  PROVE  ShapeOk(g) /\ AnswersOk(g, al, tk, c, n, rel, au, mv)
<1>1. AskedOk(f.route, f.asked)
  BY DEF ShapeOk
<1>2. ShapeOk(g)
  BY <1>1 DEF ShapeOk, Closed
<1>4. "snapshot" \notin OneCall
  BY DEF OneCall
<1>3. AnswersOk(g, al, tk, c, n, rel, au, mv)
  BY <1>4 DEF AnswersOk, Past, Closed
<1> QED BY <1>2, <1>3

\* The calls of the handlers.
LEMMA CallList ==
  ASSUME NEW x \in RepositoryCalls, NEW y \in RepositoryCalls, NEW z \in RepositoryCalls
  PROVE  /\ <<x>> \in Seq(RepositoryCalls) /\ <<x, y>> \in Seq(RepositoryCalls)
         /\ <<x, y, z>> \in Seq(RepositoryCalls)
         /\ x \notin Api!Intolerant => \A i \in 1 .. Len(<<x>>) : <<x>>[i] \notin Api!Intolerant
         /\ x \notin Api!Intolerant /\ y \notin Api!Intolerant =>
              \A i \in 1 .. Len(<<x, y>>) : <<x, y>>[i] \notin Api!Intolerant
         /\ x \notin Api!Intolerant /\ y \notin Api!Intolerant /\ z \notin Api!Intolerant =>
              \A i \in 1 .. Len(<<x, y, z>>) : <<x, y, z>>[i] \notin Api!Intolerant
<1>1. <<x>> \in Seq(RepositoryCalls)
  OBVIOUS
<1>2. <<x, y>> \in Seq(RepositoryCalls)
  OBVIOUS
<1>3. <<x, y, z>> \in Seq(RepositoryCalls)
  OBVIOUS
<1>4. x \notin Api!Intolerant => \A i \in 1 .. Len(<<x>>) : <<x>>[i] \notin Api!Intolerant
  OBVIOUS
<1>5. x \notin Api!Intolerant /\ y \notin Api!Intolerant =>
        \A i \in 1 .. Len(<<x, y>>) : <<x, y>>[i] \notin Api!Intolerant
  OBVIOUS
<1>6. x \notin Api!Intolerant /\ y \notin Api!Intolerant /\ z \notin Api!Intolerant =>
        \A i \in 1 .. Len(<<x, y, z>>) : <<x, y, z>>[i] \notin Api!Intolerant
  OBVIOUS
<1> QED BY <1>1, <1>2, <1>3, <1>4, <1>5, <1>6

CallsOk(queries, route) ==
  /\ queries \in Seq(RepositoryCalls)
  /\ route # "snapshot" => \A i \in 1 .. Len(queries) : queries[i] \notin Api!Intolerant

LEMMA HandlerIs ==
  ASSUME NEW route \in Api!Routes, NEW queries, queries = Api!Handlers[route].calls
  PROVE  /\ CallsOk(queries, route)
         /\ route = "alarms" => queries = <<"list", "count_active", "get_by_ticker_batch">>
         /\ route = "securities" => queries = <<"list_securities", "count_securities">>
         /\ OnlyCall(route, queries) /\ (route = "me" => queries = <<>>)
         /\ route \in {"alarms", "securities", "decisions"} =>
              ~ Api!Handlers[route].symbols /\ queries # <<>>
         /\ Api!Handlers[route].refuses \subseteq {400, 422}
<1>1. route \in {"me", "snapshot", "detail", "securities", "relations", "alarms", "volume", "tape",
                 "last", "recent", "decisions", "blocked", "audit"}
  BY DEF Api!Routes, Api!Handlers
<1>2. Api!Handlers[route].refuses \subseteq {400, 422}
  BY <1>1 DEF Api!Handlers, Api!Handler, Api!InvalidInput, Api!ValidationError, Api!Me,
    Api!LatestSnapshot, Api!SecuritiesDetail, Api!SecuritiesList, Api!SecuritiesRelations,
    Api!AlarmsList, Api!TicksVolume, Api!TicksTape, Api!TicksSnapshot, Api!TicksRecent,
    Api!MetricsDecisions, Api!MetricsBlocked, Api!AuditRecent
<1>3. CASE route = "me"
  <2>1. queries = <<>>
    BY <1>3 DEF Api!Handlers, Api!Handler, Api!Me
  <2>2. CallsOk(queries, route)
    <3>1. queries \in Seq(RepositoryCalls) /\ Len(queries) = 0
      BY <2>1
    <3> QED BY <3>1 DEF CallsOk
  <2> QED BY <1>3, <2>1, <2>2, <1>2 DEF OnlyCall
<1>4. CASE route = "snapshot"
  <2>1. queries = <<"list_entities", "list_edges", "get_by_ticker_batch">>
    BY <1>4 DEF Api!Handlers, Api!Handler, Api!LatestSnapshot
  <2>2. /\ "list_entities" \in RepositoryCalls
        /\ "list_edges" \in RepositoryCalls
        /\ "get_by_ticker_batch" \in RepositoryCalls
    BY DEF RepositoryCalls
  <2>4. CallsOk(queries, route)
    BY <1>4, <2>1, <2>2, CallList, Zenon DEF CallsOk
  <2> QED BY <1>4, <2>1, <2>4, <1>2 DEF OnlyCall
<1>5. CASE route = "detail"
  <2>1. queries = <<"get_security">>
    BY <1>5 DEF Api!Handlers, Api!Handler, Api!SecuritiesDetail
  <2>2. "get_security" \in RepositoryCalls
    BY DEF RepositoryCalls
  <2>3. "get_security" \notin Api!Intolerant
    BY DEF Api!Intolerant
  <2>4. CallsOk(queries, route)
    BY <2>1, <2>2, <2>3, CallList, Zenon DEF CallsOk
  <2> QED BY <1>5, <2>1, <2>4, <1>2 DEF OnlyCall
<1>6. CASE route = "securities"
  <2>1. queries = <<"list_securities", "count_securities">>
    BY <1>6 DEF Api!Handlers, Api!Handler, Api!SecuritiesList
  <2>2. /\ "list_securities" \in RepositoryCalls
        /\ "count_securities" \in RepositoryCalls
    BY DEF RepositoryCalls
  <2>3. /\ "list_securities" \notin Api!Intolerant
        /\ "count_securities" \notin Api!Intolerant
    BY DEF Api!Intolerant
  <2>4. CallsOk(queries, route)
    BY <2>1, <2>2, <2>3, CallList, Zenon DEF CallsOk
  <2>5. ~ Api!Handlers[route].symbols /\ queries # <<>>
    BY <1>6, <2>1 DEF Api!Handlers, Api!Handler, Api!SecuritiesList
  <2> QED BY <1>6, <2>1, <2>4, <2>5, <1>2 DEF OnlyCall
<1>7. CASE route = "relations"
  <2>1. queries = <<"list_relations">>
    BY <1>7 DEF Api!Handlers, Api!Handler, Api!SecuritiesRelations
  <2>2. "list_relations" \in RepositoryCalls
    BY DEF RepositoryCalls
  <2>3. "list_relations" \notin Api!Intolerant
    BY DEF Api!Intolerant
  <2>4. CallsOk(queries, route)
    BY <2>1, <2>2, <2>3, CallList, Zenon DEF CallsOk
  <2> QED BY <1>7, <2>1, <2>4, <1>2 DEF OnlyCall
<1>8. CASE route = "alarms"
  <2>1. queries = <<"list", "count_active", "get_by_ticker_batch">>
    BY <1>8 DEF Api!Handlers, Api!Handler, Api!AlarmsList
  <2>2. /\ "list" \in RepositoryCalls
        /\ "count_active" \in RepositoryCalls
        /\ "get_by_ticker_batch" \in RepositoryCalls
    BY DEF RepositoryCalls
  <2>3. /\ "list" \notin Api!Intolerant
        /\ "count_active" \notin Api!Intolerant
        /\ "get_by_ticker_batch" \notin Api!Intolerant
    BY DEF Api!Intolerant
  <2>4. CallsOk(queries, route)
    BY <2>1, <2>2, <2>3, CallList, Zenon DEF CallsOk
  <2>5. ~ Api!Handlers[route].symbols /\ queries # <<>>
    BY <1>8, <2>1 DEF Api!Handlers, Api!Handler, Api!AlarmsList
  <2> QED BY <1>8, <2>1, <2>4, <2>5, <1>2 DEF OnlyCall
<1>9. CASE route = "volume"
  <2>1. queries = <<"aggregate_volume">>
    BY <1>9 DEF Api!Handlers, Api!Handler, Api!TicksVolume
  <2>2. "aggregate_volume" \in RepositoryCalls
    BY DEF RepositoryCalls
  <2>3. "aggregate_volume" \notin Api!Intolerant
    BY DEF Api!Intolerant
  <2>4. CallsOk(queries, route)
    BY <2>1, <2>2, <2>3, CallList, Zenon DEF CallsOk
  <2> QED BY <1>9, <2>1, <2>4, <1>2 DEF OnlyCall
<1>10. CASE route = "tape"
  <2>1. queries = <<"list_recent_tape">>
    BY <1>10 DEF Api!Handlers, Api!Handler, Api!TicksTape
  <2>2. "list_recent_tape" \in RepositoryCalls
    BY DEF RepositoryCalls
  <2>3. "list_recent_tape" \notin Api!Intolerant
    BY DEF Api!Intolerant
  <2>4. CallsOk(queries, route)
    BY <2>1, <2>2, <2>3, CallList, Zenon DEF CallsOk
  <2> QED BY <1>10, <2>1, <2>4, <1>2 DEF OnlyCall
<1>11. CASE route = "last"
  <2>1. queries = <<"snapshot_per_symbol">>
    BY <1>11 DEF Api!Handlers, Api!Handler, Api!TicksSnapshot
  <2>2. "snapshot_per_symbol" \in RepositoryCalls
    BY DEF RepositoryCalls
  <2>3. "snapshot_per_symbol" \notin Api!Intolerant
    BY DEF Api!Intolerant
  <2>4. CallsOk(queries, route)
    BY <2>1, <2>2, <2>3, CallList, Zenon DEF CallsOk
  <2> QED BY <1>11, <2>1, <2>4, <1>2 DEF OnlyCall
<1>12. CASE route = "recent"
  <2>1. queries = <<"list_recent_ticks">>
    BY <1>12 DEF Api!Handlers, Api!Handler, Api!TicksRecent
  <2>2. "list_recent_ticks" \in RepositoryCalls
    BY DEF RepositoryCalls
  <2>3. "list_recent_ticks" \notin Api!Intolerant
    BY DEF Api!Intolerant
  <2>4. CallsOk(queries, route)
    BY <2>1, <2>2, <2>3, CallList, Zenon DEF CallsOk
  <2> QED BY <1>12, <2>1, <2>4, <1>2 DEF OnlyCall
<1>13. CASE route = "decisions"
  <2>1. queries = <<"aggregate_decisions_per_minute">>
    BY <1>13 DEF Api!Handlers, Api!Handler, Api!MetricsDecisions
  <2>2. "aggregate_decisions_per_minute" \in RepositoryCalls
    BY DEF RepositoryCalls
  <2>3. "aggregate_decisions_per_minute" \notin Api!Intolerant
    BY DEF Api!Intolerant
  <2>4. CallsOk(queries, route)
    BY <2>1, <2>2, <2>3, CallList, Zenon DEF CallsOk
  <2>5. ~ Api!Handlers[route].symbols /\ queries # <<>>
    BY <1>13, <2>1 DEF Api!Handlers, Api!Handler, Api!MetricsDecisions
  <2> QED BY <1>13, <2>1, <2>4, <2>5, <1>2 DEF OnlyCall
<1>14. CASE route = "blocked"
  <2>1. queries = <<"aggregate_blocked_reasons">>
    BY <1>14 DEF Api!Handlers, Api!Handler, Api!MetricsBlocked
  <2>2. "aggregate_blocked_reasons" \in RepositoryCalls
    BY DEF RepositoryCalls
  <2>3. "aggregate_blocked_reasons" \notin Api!Intolerant
    BY DEF Api!Intolerant
  <2>4. CallsOk(queries, route)
    BY <2>1, <2>2, <2>3, CallList, Zenon DEF CallsOk
  <2> QED BY <1>14, <2>1, <2>4, <1>2 DEF OnlyCall
<1>15. CASE route = "audit"
  <2>1. queries = <<"fetch_recent">>
    BY <1>15 DEF Api!Handlers, Api!Handler, Api!AuditRecent
  <2>2. "fetch_recent" \in RepositoryCalls
    BY DEF RepositoryCalls
  <2>3. "fetch_recent" \notin Api!Intolerant
    BY DEF Api!Intolerant
  <2>4. CallsOk(queries, route)
    BY <2>1, <2>2, <2>3, CallList, Zenon DEF CallsOk
  <2> QED BY <1>15, <2>1, <2>4, <1>2 DEF OnlyCall
<1> QED BY <1>1, <1>3, <1>4, <1>5, <1>6, <1>7, <1>8, <1>9, <1>10, <1>11, <1>12, <1>13, <1>14, <1>15

\* An accepted request: an answer without a call, or the calls of the handler.
LEMMA AcceptedOk ==
  ASSUME ReadInv, NEW r \in Reads, Api!Accepted(r)
  PROVE  ReadInv'
<1> DEFINE f == gets[r]
           handler == Api!Handlers[f.route]
           queries == handler.calls
<1>1. /\ ShapeOk(f) /\ AnswersOk(f, alarms, ticks, companies, Len(audits), relations, AuditRows, moved)
      /\ f.pc = "gate"
  BY DEF ReadInv, Api!Accepted
<1>2. /\ IsFrame(f) /\ f.route \in Api!Routes /\ f.status = 0 /\ ~ f.lost /\ f.items = <<>>
      /\ AskedOk(f.route, f.asked) /\ f.total = 0 /\ f.traced \in BOOLEAN
  BY <1>1 DEF ShapeOk, AnswersOk, IsFrame
<1>3. IF queries = <<>> \/ (handler.symbols /\ f.asked = <<>>)
      THEN Api!Answer(r, 200, f)
      ELSE Api!Step(r, [f EXCEPT !.pc = "read", !.todo = queries])
  BY Zenon DEF Api!Accepted
<1>4. /\ CallsOk(queries, f.route)
      /\ f.route = "alarms" => queries = <<"list", "count_active", "get_by_ticker_batch">>
      /\ f.route = "securities" => queries = <<"list_securities", "count_securities">>
      /\ OnlyCall(f.route, queries) /\ (f.route = "me" => queries = <<>>)
      /\ f.route \in {"alarms", "securities", "decisions"} => ~ handler.symbols /\ queries # <<>>
  BY <1>2, HandlerIs
<1> HIDE DEF f, handler, queries
<1>5. CASE queries = <<>> \/ (handler.symbols /\ f.asked = <<>>)
  <2>1. f.route \notin {"alarms", "securities", "decisions"} /\ (f.route = "volume" => f.asked = <<>>)
    <3>1. \A x : <<x>> # <<>>
      OBVIOUS
    <3> QED BY <1>4, <1>5, <3>1 DEF OnlyCall
  <2>2. PICK g : Api!Step(r, g) /\ Closed(g, f, 200)
    <3>1. Api!Answer(r, 200, f)
      BY <1>3, <1>5
    <3>2. 200 \in Refusals
      BY DEF Refusals
    <3> QED BY <1>2, <3>1, <3>2, AnswerIs
  <2>5. /\ IsFrame(g) /\ g.pc = "done" /\ g.route = f.route /\ g.asked = f.asked
        /\ g.items = f.items /\ g.total = f.total /\ g.lost = f.lost /\ g.status = 200 /\ g.traced
    BY <2>2 DEF Closed
  <2>6. ShapeOk(g)
    BY <1>2, <2>5 DEF ShapeOk
  <2>7. /\ VolumeOk(<<>>, <<>>, ticks)
        /\ \A S : SnapshotOk(<<>>, S, ticks)
    BY DEF VolumeOk, SnapshotOk
  <2>8. AnswersOk(g, alarms, ticks, companies, Len(audits), relations, AuditRows, moved)
    BY <1>2, <2>1, <2>5, <2>7, EmptyList DEF AnswersOk
  <2> QED BY <2>2, <2>6, <2>8, OneRead
<1>6. CASE ~ (queries = <<>> \/ (handler.symbols /\ f.asked = <<>>))
  <2>2. PICK g : g = [f EXCEPT !.pc = "read", !.todo = queries]
    OBVIOUS
  <2>3. Api!Step(r, g)
    BY <1>3, <1>6, <2>2, Zenon
  <2>5. /\ IsFrame(g) /\ g.pc = "read" /\ g.route = f.route /\ g.asked = f.asked /\ g.todo = queries
        /\ g.items = f.items /\ g.total = f.total /\ g.lost = f.lost /\ g.status = 0
    <3>1. Opened(g, f, queries)
      BY <1>2, <2>2, OpensIs, Zenon
    <3> QED BY <1>2, <3>1 DEF Opened
  <2>6. TodoOk(g)
    BY <1>4, <1>6, <2>5 DEF TodoOk, CallsOk
  <2>7. ShapeOk(g)
    BY <1>2, <2>5, <2>6 DEF ShapeOk
  <2>8. /\ g.route = "alarms" => ~ Past(g, 2) /\ ~ Past(g, 1)
        /\ g.route = "securities" => ~ Past(g, 1)
        /\ ~ Past(g, 0)
    <3>1. Len(<<"list", "count_active", "get_by_ticker_batch">>) = 3
      OBVIOUS
    <3>2. Len(<<"list_securities", "count_securities">>) = 2
      OBVIOUS
    <3>3. g.route = "alarms" => Len(g.todo) = 3
      BY <1>4, <2>5, <3>1
    <3>4. g.route = "securities" => Len(g.todo) = 2
      BY <1>4, <2>5, <3>2
    <3>5. g.status \notin {200, 404}
      BY <2>5
    <3>6. \A k : Past(g, k) => Len(g.todo) <= k
      BY <3>5 DEF Past
    <3>7. ~ (3 <= 2) /\ ~ (3 <= 1) /\ ~ (2 <= 1)
      OBVIOUS
    <3>8. ~ (Len(g.todo) <= 0)
      <4>1. g.todo \in Seq(RepositoryCalls) /\ g.todo # <<>>
        BY <2>6 DEF TodoOk
      <4>2. Len(g.todo) \in Nat \ {0}
        BY <4>1, EmptySeq
      <4> QED BY <4>2
    <3> QED BY <3>3, <3>4, <3>6, <3>7, <3>8, Zenon
  <2>9. AnswersOk(g, alarms, ticks, companies, Len(audits), relations, AuditRows, moved)
    BY <1>2, <2>5, <2>8 DEF AnswersOk
  <2> QED BY <2>3, <2>7, <2>9, OneRead
<1> QED BY <1>5, <1>6

\* A request that arrives.
LEMMA ArriveOk ==
  ASSUME ReadInv, NEW r \in Reads, NEW route \in Api!Routes, Api!Arrive(r, route)
  PROVE  ReadInv'
<1>1. PICK asked \in Api!Asked(route) :
        Api!Step(r, [Api!Idle EXCEPT !.pc = "gate", !.route = route, !.asked = asked])
  BY Zenon DEF Api!Arrive
<1>2. PICK g : g = [Api!Idle EXCEPT !.pc = "gate", !.route = route, !.asked = asked]
  OBVIOUS
<1>3. g = [pc |-> "gate", route |-> route, asked |-> asked, items |-> <<>>, total |-> 0,
           unacked |-> 0, named |-> {}, todo |-> <<>>, lost |-> FALSE, status |-> 0,
           traced |-> FALSE]
  BY <1>2 DEF Api!Idle
<1>4. /\ g.pc = "gate" /\ g.route = route /\ g.asked = asked /\ g.items = <<>> /\ g.total = 0
      /\ g.status = 0 /\ ~ g.lost
  BY <1>3
<1>5. IsFrame(g)
  BY <1>3 DEF IsFrame
<1>9. route \in {"volume", "last"} => asked \in Seq(Companies)
  <2>1. route \in {"volume", "last"} => asked \in Api!BoundedSeq(Companies, 2)
    BY DEF Api!Asked
  <2>2. \A S, n : Api!BoundedSeq(S, n) = UNION {[1 .. m -> S] : m \in 0 .. n}
    BY Zenon DEF Api!BoundedSeq, Api!SeqOf
  <2>3. \A s \in UNION {[1 .. m -> Companies] : m \in 0 .. 2} : s \in Seq(Companies)
    <3>1. ASSUME NEW m \in 0 .. 2, NEW s \in [1 .. m -> Companies] PROVE s \in Seq(Companies)
      <4>1. m \in Nat
        OBVIOUS
      <4> QED BY <4>1, SeqDef, Zenon
    <3> QED BY <3>1
  <2> QED BY <2>1, <2>2, <2>3, Zenon
<1>6. AskedOk(route, asked)
  <2>1. route \in {"detail", "recent"} => asked \in {<<t>> : t \in Companies}
    BY DEF Api!Asked
  <2>2. \A t : 1 \in DOMAIN <<t>> /\ <<t>>[1] = t
    OBVIOUS
  <2> QED BY <1>9, <2>1, <2>2 DEF AskedOk
<1>7. ShapeOk(g)
  BY <1>4, <1>5, <1>6 DEF ShapeOk
<1>8. AnswersOk(g, alarms, ticks, companies, Len(audits), relations, AuditRows, moved)
  BY <1>4 DEF AnswersOk, Past
<1> QED BY <1>1, <1>2, <1>7, <1>8, OneRead

\* Requests that the gate, the validation or a failing store turns away.
LEMMA TurnedAwayOk ==
  ASSUME ReadInv, NEW r \in Reads,
         Api!Refused(r) \/ Api!Invalid(r) \/ Api!SourceTooLong(r) \/ Api!SnapshotFails(r)
  PROVE  ReadInv'
<1>1. ShapeOk(gets[r]) /\ IsFrame(gets[r])
  BY DEF ReadInv, ShapeOk
<1>2. CASE \E status \in {400, 401, 422, 500} : gets[r].pc = "gate" /\ Api!Answer(r, status, gets[r])
  <2>1. PICK status \in {400, 401, 422, 500} : gets[r].pc = "gate" /\ Api!Answer(r, status, gets[r])
    BY <1>2
  <2>2. PICK g : Api!Step(r, g) /\ Closed(g, gets[r], status)
    <3>1. status \in Refusals
      BY DEF Refusals
    <3> QED BY <1>1, <2>1, <3>1, AnswerIs
  <2>3. ~ gets[r].lost
    BY <1>1, <2>1 DEF ShapeOk
  <2>4. ShapeOk(g) /\ AnswersOk(g, alarms, ticks, companies, Len(audits), relations, AuditRows, moved)
    BY <1>1, <2>2, <2>3, ClosedOk
  <2> QED BY <2>2, <2>4, OneRead
<1>3. ASSUME NEW f, ShapeOk(f), f.lost => f.route = "snapshot", Api!Crash(r, f)
      PROVE  ReadInv'
  <2>1. PICK g : Api!Step(r, g) /\ Closed(g, f, 500)
    BY <1>3, CrashIs DEF ShapeOk
  <2>2. PICK status \in {400, 401, 422, 500} : status = 500
    OBVIOUS
  <2>3. ShapeOk(g) /\ AnswersOk(g, alarms, ticks, companies, Len(audits), relations, AuditRows, moved)
    BY <1>3, <2>1, <2>2, ClosedOk
  <2> QED BY <2>1, <2>3, OneRead
<1>4. CASE Api!SnapshotFails(r)
  <2>1. /\ gets[r].pc = "read" /\ Head(gets[r].todo) \in Api!Intolerant
        /\ Api!Crash(r, [gets[r] EXCEPT !.lost = TRUE])
    BY <1>4, Zenon DEF Api!SnapshotFails
  <2>2. gets[r].route = "snapshot"
    <3>1. TodoOk(gets[r])
      BY <1>1, <2>1 DEF ShapeOk
    <3>2. \A s \in Seq(RepositoryCalls) : s # <<>> => 1 \in 1 .. Len(s) /\ Head(s) = s[1]
      OBVIOUS
    <3> QED BY <2>1, <3>1, <3>2, Zenon DEF TodoOk
  <2>3. PICK h : h = [gets[r] EXCEPT !.lost = TRUE]
    OBVIOUS
  <2>4. h = With(gets[r], gets[r].items, gets[r].total, gets[r].unacked, gets[r].named, TRUE)
    BY <1>1, <2>3, ExceptIsWith
  <2>5. PICK b \in BOOLEAN :
          h = With(gets[r], gets[r].items, gets[r].total, gets[r].unacked, gets[r].named, b)
    BY <2>4, Zenon
  <2>6. /\ IsFrame(h) /\ h.pc = gets[r].pc /\ h.route = gets[r].route /\ h.asked = gets[r].asked
        /\ h.status = gets[r].status /\ h.todo = gets[r].todo
    BY <1>1, <2>5, WithFrame
  <2>7. ShapeOk(h)
    BY <1>1, <2>1, <2>2, <2>6 DEF ShapeOk, TodoOk
  <2> QED BY <1>3, <2>1, <2>2, <2>3, <2>6, <2>7
<1>5. Api!Refused(r) => \E status \in {400, 401, 422, 500} : gets[r].pc = "gate" /\ Api!Answer(r, status, gets[r])
  BY DEF Api!Refused
<1>6. Api!Invalid(r) => \E status \in {400, 401, 422, 500} : gets[r].pc = "gate" /\ Api!Answer(r, status, gets[r])
  <2>1. gets[r].route \in Api!Routes
    BY <1>1 DEF IsFrame
  <2>2. Api!Handlers[gets[r].route].refuses \subseteq {400, 422}
    BY <2>1, HandlerIs
  <2> QED BY <2>2 DEF Api!Invalid
<1>7. CASE Api!SourceTooLong(r)
  <2>1. gets[r].pc = "gate" /\ Api!Crash(r, gets[r])
    BY <1>7, Zenon DEF Api!SourceTooLong
  <2>2. ~ gets[r].lost
    BY <1>1, <2>1 DEF ShapeOk
  <2> QED BY <1>1, <1>3, <2>1, <2>2
<1> QED BY <1>2, <1>4, <1>5, <1>6, <1>7

\* A call returns or fails.
LEMMA QueryOk ==
  ASSUME ReadInv, NEW r \in Reads, Api!Query(r) \/ Api!QueryFails(r)
  PROVE  ReadInv'
<1>1. /\ ShapeOk(gets[r]) /\ AnswersOk(gets[r], alarms, ticks, companies, Len(audits), relations, AuditRows, moved) /\ StoreOk
      /\ gets[r].pc = "read" /\ IsFrame(gets[r])
  BY DEF ReadInv, Api!Query, Api!QueryFails, ShapeOk
<1>2. \A g : Api!Proceed(r, g) => Api!Step(r, After(g))
  BY Zenon DEF Api!Proceed, Api!Answer, After
<1>3. ASSUME NEW g, SameCall(gets[r], g), Gained(g, alarms, ticks, companies, Len(audits), relations, AuditRows, moved),
             Api!Proceed(r, g)
      PROVE  ReadInv'
  <2>1. Api!Step(r, After(g))
    BY <1>2, <1>3
  <2>2. ShapeOk(After(g))
    BY <1>1, <1>3, ShapeProceeds
  <2>3. AnswersOk(After(g), alarms, ticks, companies, Len(audits), relations, AuditRows, moved)
    BY <1>1, <1>3, AnswersProceed
  <2> QED BY <2>1, <2>2, <2>3, OneRead
<1>4. CASE Api!Query(r)
  <2>1. Api!Proceed(r, Api!Run(Head(gets[r].todo), gets[r]))
    BY <1>4, Zenon DEF Api!Query
  <2>2. SameCall(gets[r], Api!Run(Head(gets[r].todo), gets[r]))
    BY <1>1, RunKeeps
  <2>3. Gained(Api!Run(Head(gets[r].todo), gets[r]), alarms, ticks, companies, Len(audits), relations, AuditRows, moved)
    BY <1>1, RunGains
  <2> QED BY <1>3, <2>1, <2>2, <2>3
<1>5. CASE Api!QueryFails(r)
  <2>1. /\ Head(gets[r].todo) \notin Api!InMemory
        /\ Api!Proceed(r, [gets[r] EXCEPT !.lost = TRUE])
    BY <1>5, Zenon DEF Api!QueryFails
  <2>2. LET g == [gets[r] EXCEPT !.lost = TRUE]
        IN  SameCall(gets[r], g) /\ g.lost /\ Gained(g, alarms, ticks, companies, Len(audits), relations, AuditRows, moved)
    BY <1>1, <2>1, FailureGains
  <2> QED BY <1>3, <2>1, <2>2
<1> QED BY <1>4, <1>5

-----------------------------------------------------------------------------
\* Commits of the writers.
LEMMA CommitOk ==
  ASSUME ReadInv, StoreOk', gets' = gets, alarms' = alarms, ticks \subseteq ticks',
         Held(companies) \subseteq Held(companies'), Len(audits) <= Len(audits'),
         relations \subseteq relations', AuditRows \subseteq AuditRows', moved \subseteq moved',
         \A t \in Companies :
           companies[t] = 0 \/ companies'[t] = companies[t] \/ t \in moved'
  PROVE  ReadInv'
<1>1. /\ ticks \in SUBSET TickRows /\ ticks' \in SUBSET TickRows
      /\ Len(audits) \in Nat /\ Len(audits') \in Nat
  <2>1. /\ ticks \in SUBSET TickRows /\ ticks' \in SUBSET TickRows
        /\ audits \in Seq([symbol : Companies, outcome : Api!Outcomes])
        /\ audits' \in Seq([symbol : Companies, outcome : Api!Outcomes])
    BY DEF ReadInv, StoreOk, TickRows
  <2> QED BY <2>1
<1>2. ASSUME NEW r \in Reads
      PROVE  ShapeOk(gets[r]) /\ AnswersOk(gets[r], alarms, ticks', companies', Len(audits'), relations', AuditRows', moved')
  <2>1. ShapeOk(gets[r]) /\ AnswersOk(gets[r], alarms, ticks, companies, Len(audits), relations, AuditRows, moved)
    BY DEF ReadInv
  <2> QED BY <1>1, <2>1, AnswersStay
<1>3. gets = [r \in Reads |-> gets[r]]
  BY DEF ReadInv
<1> QED BY <1>2, <1>3 DEF ReadInv

LEMMA WriterOk ==
  ASSUME ReadInv, NEW t \in Companies,
         \/ \E s \in Api!Sectors : Api!Seed(t, s)
         \/ \E at \in Api!Times : Api!InsertTick(t, at)
         \/ \E outcome \in Api!Outcomes : Api!InsertAudit(t, outcome)
  PROVE  ReadInv'
<1>1. /\ StoreOk /\ gets' = gets /\ alarms' = alarms
      /\ writes < MaxWrites /\ writes' = writes + 1
  BY DEF ReadInv, Api!Seed, Api!InsertTick, Api!InsertAudit, Api!Commits
<1>2. /\ companies \in [Companies -> {0} \cup Api!Sectors] /\ relations \subseteq Companies \X Companies
      /\ ticks \subseteq TickRows /\ audits \in Seq([symbol : Companies, outcome : Api!Outcomes])
      /\ alarms \in [AlarmIds -> Api!Statuses] /\ writes \in 0 .. MaxWrites
      /\ moved \subseteq Companies
  BY <1>1 DEF StoreOk
<1>3. writes' \in 0 .. MaxWrites
  BY <1>1, <1>2, ApiParameters
<1>4. ASSUME NEW s \in Api!Sectors, Api!Seed(t, s) PROVE ReadInv'
  <2>1. /\ companies' = [companies EXCEPT ![t] = s] /\ ticks' = ticks /\ audits' = audits
        /\ relations' = relations \cup Api!SameSector(companies')
        /\ moved' = IF companies[t] \in {0, s} THEN moved ELSE moved \cup {t}
    BY <1>4 DEF Api!Seed
  <2>2. companies' \in [Companies -> {0} \cup Api!Sectors]
    BY <1>2, <2>1
  <2>3. relations' \subseteq Companies \X Companies
    BY <1>2, <2>1 DEF Api!SameSector
  <2>4. Held(companies) \subseteq Held(companies')
    <3>1. s # 0
      BY DEF Api!Sectors
    <3>2. \A c \in Companies : companies'[c] = IF c = t THEN s ELSE companies[c]
      BY <1>2, <2>1
    <3> QED BY <3>1, <3>2 DEF Held
  <2>9. moved' \subseteq Companies
    BY <1>2, <2>1
  <2>5. StoreOk'
    BY <1>1, <1>2, <1>3, <2>1, <2>2, <2>3, <2>9 DEF StoreOk
  <2>6. Len(audits) <= Len(audits')
    <3>1. Len(audits) \in Nat
      BY <1>2
    <3> QED BY <2>1, <3>1
  <2>7. \A c \in Companies :
          companies[c] = 0 \/ companies'[c] = companies[c] \/ c \in moved'
    BY <1>2, <2>1
  <2>8. /\ relations \subseteq relations' /\ moved \subseteq moved' /\ AuditRows \subseteq AuditRows'
        /\ ticks \subseteq ticks'
    BY <2>1 DEF AuditRows
  <2> QED BY <1>1, <2>4, <2>5, <2>6, <2>7, <2>8, CommitOk
<1>5. ASSUME NEW at \in Api!Times, Api!InsertTick(t, at) PROVE ReadInv'
  <2>1. /\ ticks' = ticks \cup {[symbol |-> t, at |-> at]}
        /\ companies' = companies /\ relations' = relations /\ audits' = audits /\ moved' = moved
    BY <1>5 DEF Api!InsertTick
  <2>2. ticks' \subseteq TickRows /\ ticks \subseteq ticks'
    BY <1>2, <2>1 DEF TickRows
  <2>3. StoreOk'
    BY <1>1, <1>2, <1>3, <2>1, <2>2 DEF StoreOk
  <2>4. Len(audits) <= Len(audits')
    <3>1. Len(audits) \in Nat
      BY <1>2
    <3> QED BY <2>1, <3>1
  <2>5. Held(companies) \subseteq Held(companies') /\ AuditRows \subseteq AuditRows'
    BY <2>1 DEF AuditRows
  <2> QED BY <1>1, <2>1, <2>2, <2>3, <2>4, <2>5, CommitOk
<1>6. ASSUME NEW outcome \in Api!Outcomes, Api!InsertAudit(t, outcome) PROVE ReadInv'
  <2>1. /\ audits' = Append(audits, [symbol |-> t, outcome |-> outcome])
        /\ companies' = companies /\ relations' = relations /\ ticks' = ticks /\ moved' = moved
    BY <1>6 DEF Api!InsertAudit
  <2>2. [symbol |-> t, outcome |-> outcome] \in [symbol : Companies, outcome : Api!Outcomes]
    OBVIOUS
  <2>3. \A S : \A a \in Seq(S), x \in S : Append(a, x) \in Seq(S) /\ Len(a) <= Len(Append(a, x))
    OBVIOUS
  <2>4. audits' \in Seq([symbol : Companies, outcome : Api!Outcomes]) /\ Len(audits) <= Len(audits')
    BY <1>2, <2>1, <2>2, <2>3, Zenon
  <2>5. StoreOk'
    BY <1>1, <1>2, <1>3, <2>1, <2>4 DEF StoreOk
  <2>6. Held(companies) \subseteq Held(companies') /\ ticks \subseteq ticks'
    BY <2>1
  <2>7. AuditRows \subseteq AuditRows'
    <3>1. \A S : \A a \in Seq(S), x \in S :
            \A i \in DOMAIN a : i \in DOMAIN Append(a, x) /\ Append(a, x)[i] = a[i]
      OBVIOUS
    <3>2. \A i \in DOMAIN audits : i \in DOMAIN audits' /\ audits'[i] = audits[i]
      BY <1>2, <2>1, <2>2, <3>1
    <3> QED BY <3>2 DEF AuditRows
  <2> QED BY <1>1, <2>1, <2>4, <2>5, <2>6, <2>7, CommitOk
<1> QED BY <1>4, <1>5, <1>6

-----------------------------------------------------------------------------
\* The invariant of the read endpoints.
LEMMA ReadStart == Api!Init => ReadInv
<1> SUFFICES ASSUME Api!Init PROVE ReadInv
  OBVIOUS
<1>1. PICK used \in BOOLEAN, other \in Api!Sectors :
        /\ companies = [t \in Companies |-> IF ~ used THEN 0 ELSE IF t = 1 THEN 1 ELSE other]
        /\ ticks = IF used THEN [symbol : Companies, at : {1}] ELSE {}
        /\ audits = IF used THEN [i \in 1 .. 5 |-> [symbol |-> 1, outcome |-> Api!Reports[i]]] ELSE <<>>
  BY Zenon DEF Api!Init
<1>2. /\ relations = Api!SameSector(companies) /\ alarms \in [AlarmIds -> Api!Statuses] /\ writes = 0
      /\ moved = {} /\ gets = [r \in Reads |-> Api!Idle]
  BY Zenon DEF Api!Init, Api!SeedAlarms
<1>3. audits \in Seq([symbol : Companies, outcome : Api!Outcomes])
  <2> DEFINE RowsOf == [symbol : Companies, outcome : Api!Outcomes]
             old == [i \in 1 .. 5 |-> [symbol |-> 1, outcome |-> Api!Reports[i]]]
  <2>1. \A i \in 1 .. 5 : Api!Reports[i] \in Api!Outcomes
    BY Zenon DEF Api!Outcomes
  <2>2. old \in [1 .. 5 -> RowsOf]
    BY <2>1, ApiParameters
  <2> HIDE DEF old, RowsOf
  <2>3. old \in Seq(RowsOf)
    <3>1. PICK n \in Nat : n = 5
      OBVIOUS
    <3>2. old \in [1 .. n -> RowsOf]
      BY <2>2, <3>1
    <3> QED BY <3>2, SeqDef
  <2>4. <<>> \in Seq(RowsOf)
    BY EmptySeq
  <2>5. audits = old \/ audits = <<>>
    BY <1>1, Zenon DEF old
  <2>6. audits \in Seq(RowsOf)
    BY <2>3, <2>4, <2>5
  <2> QED BY <2>6 DEF RowsOf
<1>4. ticks \subseteq TickRows
  BY <1>1 DEF TickRows, Api!Times
<1>5. companies \in [Companies -> {0} \cup Api!Sectors]
  BY <1>1 DEF Api!Sectors
<1>6. relations \subseteq Companies \X Companies
  BY <1>2 DEF Api!SameSector
<1>7. StoreOk
  BY <1>2, <1>3, <1>4, <1>5, <1>6, ApiParameters DEF StoreOk
<1>8. /\ ShapeOk(Api!Idle) /\ \A n : AnswersOk(Api!Idle, alarms, ticks, companies, n, relations, AuditRows, moved)
  <2> DEFINE g == Api!Idle
  <2>1. g = [pc |-> "idle", route |-> "me", asked |-> <<>>, items |-> <<>>, total |-> 0,
             unacked |-> 0, named |-> {}, todo |-> <<>>, lost |-> FALSE, status |-> 0,
             traced |-> FALSE]
    BY DEF Api!Idle
  <2>2. "me" \in Api!Routes
    BY DEF Api!Routes, Api!Handlers
  <2> HIDE DEF g
  <2>3. /\ g.pc = "idle" /\ g.route = "me" /\ g.items = <<>> /\ g.total = 0 /\ g.status = 0
        /\ ~ g.lost
    BY <2>1
  <2>4. IsFrame(g)
    BY <2>1, <2>2 DEF IsFrame
  <2>5. ShapeOk(g) /\ \A n : AnswersOk(g, alarms, ticks, companies, n, relations, AuditRows, moved)
    BY <2>3, <2>4 DEF ShapeOk, AskedOk, AnswersOk, Past, OneCall, Api!Lists
  <2> QED BY <2>5 DEF g
<1>9. \A r \in Reads : gets[r] = Api!Idle
  BY <1>2
<1>10. gets = [r \in Reads |-> gets[r]]
  BY <1>2
<1> QED BY <1>7, <1>8, <1>9, <1>10 DEF ReadInv

LEMMA ReadStep ==
  ASSUME ReadInv, [Api!Next]_(Api!vars)
  PROVE  ReadInv'
<1>1. CASE \E t \in Companies :
             \/ \E s \in Api!Sectors : Api!Seed(t, s)
             \/ \E at \in Api!Times : Api!InsertTick(t, at)
             \/ \E outcome \in Api!Outcomes : Api!InsertAudit(t, outcome)
  BY <1>1, WriterOk
<1>2. CASE \E r \in Reads : Api!Handles(r)
  <2>1. PICK r \in Reads : Api!Handles(r)
    BY <1>2
  <2> QED BY <2>1, AcceptedOk, TurnedAwayOk, QueryOk DEF Api!Handles
<1>3. CASE \E r \in Reads, route \in Api!Routes : Api!Arrive(r, route)
  BY <1>3, ArriveOk
<1>4. CASE UNCHANGED Api!vars
  BY <1>4 DEF Api!vars, Api!store, ReadInv, StoreOk, AuditRows
<1> QED BY <1>1, <1>2, <1>3, <1>4, Zenon DEF Api!Next

\* What the invariant says of answers.
LEMMA ReadHolds ==
  ASSUME ReadInv
  PROVE  Api!TypeOK /\ Api!ReadsAreHonest
<1>1. StoreOk
  BY DEF ReadInv
<1>2. \A r \in Reads : ShapeOk(gets[r]) /\ AnswersOk(gets[r], alarms, ticks, companies, Len(audits), relations, AuditRows, moved)
  BY DEF ReadInv
<1>3. \A s : Api!Range(s) = {s[i] : i \in DOMAIN s}
  BY Zenon DEF Api!Range
<1>4. Api!TypeOK
  <2>1. \A r \in Reads : /\ gets[r].pc \in {"idle", "gate", "read", "done"} /\ gets[r].route \in Api!Routes
                         /\ gets[r].status \in {0, 200, 400, 401, 404, 422, 500}
                         /\ gets[r].pc = "done" <=> gets[r].status # 0
    BY <1>2 DEF ShapeOk, IsFrame
  <2> QED BY <1>1, <2>1 DEF Api!TypeOK, StoreOk, TickRows
<1>5. Api!PageIsTheNewest
  <2>1. ASSUME NEW r \in Reads, Api!Done(r, "alarms")
        PROVE  LET page == Api!Range(gets[r].items) IN
               /\ Api!Cardinality(page) = Len(gets[r].items)
               /\ \A a \in page : \A b \in Api!Matched(gets[r].asked[1]) \ page : Api!Newer(a, b)
               /\ gets[r].total > Len(gets[r].items) => Len(gets[r].items) = Limit
               /\ gets[r].unacked >= gets[r].total
    <3> DEFINE f == gets[r]
    <3>1. f.route = "alarms" /\ f.status = 200
      BY <2>1 DEF Api!Done
    <3>2. PageOk(f.items, f.total, alarms, f.asked[1]) /\ f.unacked >= f.total
      BY <1>2, <3>1 DEF AnswersOk, Past
    <3>3. Api!Matched(f.asked[1]) = Match(alarms, f.asked[1])
      BY Zenon DEF Api!Matched, Match
    <3> HIDE DEF f
    <3>4. /\ Api!Cardinality(Api!Range(f.items)) = Len(f.items)
          /\ f.total > Len(f.items) => Len(f.items) = Limit
      BY <1>3, <3>2, ApiSame DEF PageOk
    <3>5. \A a \in Api!Range(f.items) : \A b \in Api!Matched(f.asked[1]) \ Api!Range(f.items) :
            Api!Newer(a, b)
      BY <1>3, <3>2, <3>3 DEF PageOk
    <3> QED BY <3>2, <3>4, <3>5 DEF f
  <2> QED BY <2>1, Zenon DEF Api!PageIsTheNewest
<1>10. \A items : Api!Range(items) = Entries(items)
  BY <1>3 DEF Entries
<1>6. Api!TotalCoversPage
  <2>1. ASSUME NEW r \in Reads, Api!Done(r, "securities"), ~ gets[r].lost
        PROVE  LET page == Api!Range(gets[r].items)
                   spared == IF gets[r].asked[1] = 0 THEN {} ELSE moved
               IN /\ Api!Cardinality(page) = Len(gets[r].items)
                  /\ gets[r].total >= Api!Cardinality(page \ spared)
    <3>1. /\ SecuritiesPage(gets[r].items, gets[r].asked, companies, moved)
          /\ Covers(gets[r].total, gets[r].items, gets[r].asked, moved)
      BY <1>2, <2>1 DEF Api!Done, AnswersOk, Past
    <3> QED BY <1>10, <3>1, ApiSame DEF SecuritiesPage, Covers, Spared
  <2> QED BY <2>1, Zenon DEF Api!TotalCoversPage
<1>11. Api!RowsAreStored
  <2>1. ASSUME NEW route, NEW asked
        PROVE  Api!Listable(route, asked) = MayList(route, asked, ticks, companies, relations, AuditRows)
    <3>1. Held(companies) = {t \in Companies : companies[t] # 0}
      BY DEF Held
    <3>2. Api!Touching(asked) = Touch(relations, asked)
      BY <1>10 DEF Api!Touching, Touch
    <3>3. {audits[i] : i \in Api!RowsOf(asked[1])} = {row \in AuditRows : row.symbol = asked[1]}
      BY DEF Api!RowsOf, AuditRows
    <3>4. Api!TicksOf(asked) = TicksAt(ticks, Entries(asked))
      BY TicksOfAt DEF Entries
    <3> QED BY <3>1, <3>2, <3>3, <3>4 DEF Api!Listable, MayList
  <2>2. ASSUME NEW r \in Reads, gets[r].status \in {200, 404}, gets[r].route \in Api!Lists
        PROVE  /\ Api!Range(gets[r].items) \subseteq Api!Listable(gets[r].route, gets[r].asked)
               /\ gets[r].route \in {"securities", "tape", "recent", "audit"}
                    => Len(gets[r].items) <= Limit
    <3>1. ListOk(gets[r].items, gets[r].route, gets[r].asked, ticks, companies, relations, AuditRows)
      BY <1>2, <2>2 DEF AnswersOk, Past
    <3> QED BY <1>10, <2>1, <3>1 DEF ListOk
  <2> QED BY <2>2 DEF Api!RowsAreStored
<1>12. Api!FailureIsEmpty
  <2>1. ASSUME NEW r \in Reads, gets[r].status \in {200, 404}, gets[r].lost
        PROVE  /\ gets[r].route \notin {"alarms", "securities", "snapshot"} =>
                    gets[r].items = <<>> /\ gets[r].total = 0
               /\ gets[r].route = "securities" => gets[r].items = <<>> \/ gets[r].total = 0
    <3>1. /\ gets[r].route \in OneCall => gets[r].items = <<>> /\ gets[r].total = 0
          /\ gets[r].route = "securities" => gets[r].items = <<>> \/ gets[r].total = 0
      BY <1>2, <2>1 DEF AnswersOk
    <3>2. gets[r].route \in Api!Routes /\ gets[r].route # "me"
      BY <1>2, <2>1 DEF ShapeOk, IsFrame
    <3>3. gets[r].route \in OneCall \cup {"alarms", "securities", "snapshot"}
      BY <3>2 DEF Api!Routes, Api!Handlers, OneCall
    <3> QED BY <3>1, <3>3
  <2> QED BY <2>1 DEF Api!FailureIsEmpty
<1>7. Api!TicksAnswerAll
  <2>1. ASSUME NEW r \in Reads, Api!Done(r, "volume"), ~ gets[r].lost
        PROVE  /\ Len(gets[r].items) = Len(gets[r].asked)
               /\ \A i \in DOMAIN gets[r].items :
                    /\ gets[r].items[i].symbol = gets[r].asked[i]
                    /\ gets[r].items[i].n <= Api!Cardinality(Api!TicksOf(<<gets[r].asked[i]>>))
    <3>1. VolumeOk(gets[r].items, gets[r].asked, ticks)
      BY <1>2, <2>1 DEF Api!Done, AnswersOk
    <3>2. \A t : Api!Cardinality(Api!TicksOf(<<t>>)) = Cardinality(TicksAt(ticks, {t}))
      BY ApiSame, TicksOfAt
    <3> QED BY <3>1, <3>2 DEF VolumeOk
  <2>2. ASSUME NEW r \in Reads, Api!Done(r, "last"),
               NEW i \in DOMAIN gets[r].items, NEW j \in DOMAIN gets[r].items
        PROVE  /\ gets[r].items[i] \in Api!TicksOf(gets[r].asked)
               /\ i # j => gets[r].items[i].symbol # gets[r].items[j].symbol
    <3>1. SnapshotOk(gets[r].items, {gets[r].asked[k] : k \in DOMAIN gets[r].asked}, ticks)
      BY <1>2, <2>2 DEF Api!Done, AnswersOk
    <3> QED BY <2>2, <3>1, TicksOfAt DEF SnapshotOk
  <2> QED BY <2>1, <2>2, Zenon DEF Api!TicksAnswerAll
<1>8. Api!MetricsAddUp
  <2>1. ASSUME NEW r \in Reads, Api!Done(r, "decisions"), ~ gets[r].lost
        PROVE  DecisionsOk(gets[r].items[1], Len(audits))
    BY <1>2, <2>1 DEF Api!Done, AnswersOk
  <2> QED BY <2>1 DEF Api!MetricsAddUp, DecisionsOk
<1>9. Api!OutageIsNoError
  BY <1>2 DEF Api!OutageIsNoError, ShapeOk
<1> QED BY <1>4, <1>5, <1>6, <1>7, <1>8, <1>9, <1>11, <1>12 DEF Api!ReadsAreHonest

-----------------------------------------------------------------------------
\* A step of the whole is a step of the read endpoints, or leaves them alone.

LEMMA ApiMoves == [ServicesNext]_servicesVars => [Api!Next]_(Api!vars)
  BY Zenon DEF ServicesNext, servicesVars, apiVars, Api!vars, Api!store

\* Alarm pages are the newest of all that match; a total of securities covers its page, but for
\* the rows that a seed moved to another sector than the one asked for; lists show rows of the
\* tables and of what was asked for; volumes and last ticks are of the ticks that there are;
\* decisions add up; a query that failed leaves its part of the answer empty and is not an error,
\* for any requests interleaved with any commits (router.py, InMemoryAlarmRepository,
\* MarketTickRepository, SecuritiesRepository, AuditRepository).
THEOREM ReadsStayHonest == ServicesSpec => []ReadsAreHonest
<1>1. ServicesInit => ReadInv
  BY ReadStart DEF ServicesInit
<1>2. ReadInv /\ [ServicesNext]_servicesVars => ReadInv'
  BY ReadStep, ApiMoves
<1>3. ReadInv => ReadsAreHonest
  BY ReadHolds DEF ReadsAreHonest
<1> QED BY <1>1, <1>2, <1>3, PTL DEF ServicesSpec
=============================================================================
