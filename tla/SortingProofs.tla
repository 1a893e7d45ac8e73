--------------------------- MODULE SortingProofs ---------------------------
(***************************************************************************)
(* Sorting by natural numbers works: lists of every length have an         *)
(* ascending order of their elements.                                      *)
(***************************************************************************)
EXTENDS Sorting, Sequences, WellFoundedInduction, TLAPS

\* A set of natural numbers that is not empty has a least element.
LEMMA LeastNumber ==
    ASSUME NEW T \in SUBSET Nat, T # {}
    PROVE  \E n \in T : \A m \in T : n <= m
<1> DEFINE R == OpToRel(<, Nat)
<1>1. \E n \in T : \A m \in T : ~(<<m, n>> \in R)
  <2>1. IsWellFoundedOn(R, Nat)
    BY NatLessThanWellFounded, Zenon
  <2> HIDE DEF R
  <2>2. QED
    BY <2>1, WFMin
<1>2. PICK n \in T : \A m \in T : ~(<<m, n>> \in R)
  BY <1>1, Zenon
<1>3. ASSUME NEW m \in T
      PROVE  ~(m < n)
  <2>1. <<m, n>> \in Nat \X Nat /\ <<m, n>> \notin R
    BY <1>2, Zenon
  <2>2. QED
    BY <2>1, Zenon DEF OpToRel
<1>4. QED
  BY <1>3

\* An ascending order of the elements 1 .. n.
IsOrder(n, key, p) ==
    /\ p \in [1 .. n -> 1 .. n]
    /\ \A i, j \in 1 .. n : p[i] = p[j] => i = j
    /\ \A j \in 1 .. n : \E i \in 1 .. n : p[i] = j
    /\ \A i, j \in 1 .. n : i < j => key[p[i]] <= key[p[j]]

\* One element more: the one with the least key goes first, and the last element
\* takes its place among the others, which are in order already.
LEMMA OneMore ==
    ASSUME NEW n \in Nat, NEW key \in [1 .. n + 1 -> Nat],
           NEW least \in 1 .. n + 1, \A i \in 1 .. n + 1 : key[least] <= key[i],
           NEW q, IsOrder(n, [i \in 1 .. n |-> key[IF i = least THEN n + 1 ELSE i]], q)
    PROVE  \E p : IsOrder(n + 1, key, p)
<1> DEFINE Back(i) == IF i = least THEN n + 1 ELSE i
           p == [i \in 1 .. n + 1 |-> IF i = 1 THEN least ELSE Back(q[i - 1])]
<1>1. \A i \in 1 .. n + 1 : i # 1 => i - 1 \in 1 .. n /\ q[i - 1] \in 1 .. n
  <2>1. q \in [1 .. n -> 1 .. n]
    BY DEF IsOrder
  <2>2. \A i \in 1 .. n + 1 : i # 1 => i - 1 \in 1 .. n
    OBVIOUS
  <2>3. QED
    BY <2>1, <2>2
<1>2. \A i \in 1 .. n : Back(i) \in 1 .. n + 1 /\ Back(i) # least
  OBVIOUS
<1>3. /\ p \in [1 .. n + 1 -> 1 .. n + 1]
      /\ p[1] = least
      /\ \A i \in 1 .. n + 1 : i # 1 => p[i] = Back(q[i - 1]) /\ p[i] # least
  BY <1>1, <1>2
<1>4. \A i, j \in 1 .. n : Back(i) = Back(j) => i = j
  OBVIOUS
<1> HIDE DEF p
<1>5. ASSUME NEW i \in 1 .. n + 1, NEW j \in 1 .. n + 1, p[i] = p[j]
      PROVE  i = j
  <2>1. CASE i = 1 \/ j = 1
    BY <1>3, <1>5, <2>1
  <2>2. CASE i # 1 /\ j # 1
    <3>1. q[i - 1] = q[j - 1]
      BY <1>1, <1>3, <1>4, <1>5, <2>2
    <3>2. i - 1 = j - 1
      BY <1>1, <2>2, <3>1 DEF IsOrder
    <3>3. QED
      BY <3>2
  <2>3. QED
    BY <2>1, <2>2
<1>6. ASSUME NEW j \in 1 .. n + 1
      PROVE  \E i \in 1 .. n + 1 : p[i] = j
  <2>1. CASE j = least
    BY <1>3, <2>1
  <2>2. CASE j # least
    <3>1. PICK k \in 1 .. n : Back(k) = j
      <4>1. CASE j = n + 1
        <5>1. least \in 1 .. n /\ Back(least) = j
          BY <2>2, <4>1
        <5>2. QED
          BY <5>1
      <4>2. CASE j # n + 1
        <5>1. j \in 1 .. n /\ Back(j) = j
          BY <2>2, <4>2
        <5>2. QED
          BY <5>1
      <4>3. QED
        BY <4>1, <4>2
    <3>2. PICK i \in 1 .. n : q[i] = k
      BY DEF IsOrder
    <3>3. i + 1 \in 1 .. n + 1 /\ i + 1 # 1 /\ (i + 1) - 1 = i
      OBVIOUS
    <3>4. p[i + 1] = j
      BY <1>3, <3>1, <3>2, <3>3
    <3>5. QED
      BY <3>3, <3>4
  <2>3. QED
    BY <2>1, <2>2
<1>7. ASSUME NEW i \in 1 .. n + 1, NEW j \in 1 .. n + 1, i < j
      PROVE  key[p[i]] <= key[p[j]]
  <2>1. j # 1 /\ p[j] \in 1 .. n + 1
    <3>1. j # 1
      BY <1>7
    <3>2. QED
      BY <1>3, <3>1
  <2>2. CASE i = 1
    BY <1>3, <2>1, <2>2
  <2>3. CASE i # 1
    <3>1. /\ i - 1 \in 1 .. n /\ j - 1 \in 1 .. n /\ i - 1 < j - 1
          /\ q[i - 1] \in 1 .. n /\ q[j - 1] \in 1 .. n
      BY <1>1, <1>7, <2>1, <2>3
    <3>2. key[Back(q[i - 1])] <= key[Back(q[j - 1])]
      BY <3>1 DEF IsOrder
    <3>3. QED
      BY <1>3, <2>1, <2>3, <3>2
  <2>4. QED
    BY <2>2, <2>3
<1>8. QED
  BY <1>3, <1>5, <1>6, <1>7 DEF IsOrder

\* Every list of keys has an ascending order, by induction on its length: a shortest
\* list without one would be one element longer than a list that has one.
LEMMA OrderExists ==
    ASSUME NEW n \in Nat, NEW key \in [1 .. n -> Nat]
    PROVE  \E p : IsOrder(n, key, p)
<1> DEFINE Orderless == {m \in Nat : \E k \in [1 .. m -> Nat] : \A p : ~IsOrder(m, k, p)}
<1>1. CASE Orderless = {}
  BY <1>1
<1>2. CASE Orderless # {}
  <2>1. PICK m \in Orderless : \A l \in Orderless : m <= l
    BY <1>2, LeastNumber
  <2>2. PICK k \in [1 .. m -> Nat] : \A p : ~IsOrder(m, k, p)
    OBVIOUS
  <2>3. CASE m = 0
    <3>1. IsOrder(0, k, [i \in 1 .. 0 |-> i])
      BY DEF IsOrder
    <3>2. QED
      BY <2>2, <2>3, <3>1
  <2>4. CASE m # 0
    <3>1. m - 1 \in Nat /\ (m - 1) + 1 = m /\ m - 1 \notin Orderless
      <4>1. m \in Nat
        OBVIOUS
      <4> HIDE DEF Orderless
      <4>2. QED
        BY <2>1, <2>4, <4>1
    <3>2. PICK least \in 1 .. m : \A i \in 1 .. m : k[least] <= k[i]
      <4> DEFINE Keys == {k[i] : i \in 1 .. m}
      <4>1. Keys \in SUBSET Nat /\ k[1] \in Keys
        BY <2>4
      <4>2. PICK c \in Keys : \A d \in Keys : c <= d
        BY <4>1, LeastNumber
      <4>3. QED
        BY <4>2
    <3> DEFINE rest == [i \in 1 .. m - 1 |-> k[IF i = least THEN m ELSE i]]
    <3>3. rest \in [1 .. m - 1 -> Nat]
      BY <3>1
    <3>4. PICK q : IsOrder(m - 1, rest, q)
      BY <3>1, <3>3
    <3>5. \E p : IsOrder((m - 1) + 1, k, p)
      <4> DEFINE l == m - 1
      <4>1. l \in Nat /\ l + 1 = m
        BY <3>1
      <4>2. IsOrder(l, [i \in 1 .. l |-> k[IF i = least THEN l + 1 ELSE i]], q)
        BY <3>4, <4>1
      <4> HIDE DEF l
      <4>3. \E p : IsOrder(l + 1, k, p)
        BY <3>2, <4>1, <4>2, OneMore
      <4>4. QED
        BY <4>3 DEF l
    <3>6. QED
      BY <2>2, <3>1, <3>5
  <2>5. QED
    BY <2>3, <2>4
<1>3. QED
  BY <1>1, <1>2

\* What sorting by natural numbers does: it puts the elements in an order in which
\* their keys ascend, and loses and repeats none.
THEOREM SortByFacts ==
    ASSUME NEW S, NEW s \in Seq(S), NEW key \in [DOMAIN s -> Nat]
    PROVE  \E p \in Bijection(DOMAIN s, DOMAIN s) :
              /\ SortBy(s, key) = [i \in DOMAIN s |-> s[p[i]]]
              /\ Ascending(key, p)
              /\ SortBy(s, key) \in Seq(S)
              /\ Range(SortBy(s, key)) = Range(s)
<1> DEFINE n == Len(s)
           order == CHOOSE p \in Bijection(DOMAIN s, DOMAIN s) : Ascending(key, p)
<1>1. n \in Nat /\ DOMAIN s = 1 .. n
  OBVIOUS
<1>2. PICK p : IsOrder(n, key, p)
  BY <1>1, OrderExists
<1>3. p \in Bijection(DOMAIN s, DOMAIN s) /\ Ascending(key, p)
  BY <1>1, <1>2 DEF IsOrder, Bijection, Injection, Surjection, IsInjective, Ascending
<1>4. order \in Bijection(DOMAIN s, DOMAIN s) /\ Ascending(key, order)
  BY <1>3
<1>5. SortBy(s, key) = [i \in DOMAIN s |-> s[order[i]]]
  BY DEF SortBy
<1> HIDE DEF order
<1>6. SortBy(s, key) \in Seq(S)
  BY <1>1, <1>4, <1>5 DEF Bijection, Injection
<1>7. Range(SortBy(s, key)) = Range(s)
  <2>1. /\ order \in [DOMAIN s -> DOMAIN s]
        /\ \A j \in DOMAIN s : \E i \in DOMAIN s : order[i] = j
    BY <1>4 DEF Bijection, Injection, Surjection
  <2>2. Range(SortBy(s, key)) = {s[order[i]] : i \in DOMAIN s}
    BY <1>5 DEF Range
  <2>3. \A j \in DOMAIN s : \E i \in DOMAIN s : s[j] = s[order[i]]
    BY <2>1
  <2>4. QED
    BY <2>1, <2>2, <2>3 DEF Range
<1>8. QED
  BY <1>4, <1>5, <1>6, <1>7

=============================================================================
