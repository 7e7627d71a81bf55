--------------------------- MODULE OrderedProofs ---------------------------
(***************************************************************************)
(* What InOrder returns for every finite set and every strict total order  *)
(* on it: each element once, in order.  Places are counted, so that no     *)
(* induction is needed: an element's place is the cardinality of the set   *)
(* before it, different elements have different places, and an injection   *)
(* of S into as many places reaches all of them.                           *)
(***************************************************************************)
EXTENDS Ordered, Integers, FiniteSetTheorems, FunctionTheorems, WellFoundedInduction, TLAPS

StrictlyOrders(R, S) ==
  /\ \A x \in S : <<x, x>> \notin R
  /\ \A x, y, z \in S : <<x, y>> \in R /\ <<y, z>> \in R => <<x, z>> \in R
  /\ \A x, y \in S : x = y \/ <<x, y>> \in R \/ <<y, x>> \in R

(***************************************************************************)
(* What comes earlier has fewer elements before it, and every element has  *)
(* fewer before it than there are.                                         *)
(***************************************************************************)
LEMMA PlaceOfElement ==
  ASSUME NEW S, IsFiniteSet(S), NEW R, StrictlyOrders(R, S), NEW x \in S
  PROVE  /\ Cardinality(Before(S, R, x)) \in Nat
         /\ Cardinality(Before(S, R, x)) < Cardinality(S)
         /\ \A y \in S : <<x, y>> \in R => Cardinality(Before(S, R, x)) < Cardinality(Before(S, R, y))
<1>1. ASSUME NEW A, A \in SUBSET S, NEW B, B \in SUBSET A, A # B
      PROVE  Cardinality(B) \in Nat /\ Cardinality(B) < Cardinality(A)
  <2>1. IsFiniteSet(A)
    BY <1>1, FS_Subset
  <2>2. IsFiniteSet(B) /\ Cardinality(B) <= Cardinality(A) /\ Cardinality(A) # Cardinality(B)
    BY <1>1, <2>1, FS_Subset
  <2> QED
    BY <2>1, <2>2, FS_CardinalityType
<1>2. Before(S, R, x) \in SUBSET S /\ x \notin Before(S, R, x)
  BY DEF Before, StrictlyOrders
<1>3. ASSUME NEW y \in S, <<x, y>> \in R
      PROVE  Cardinality(Before(S, R, x)) < Cardinality(Before(S, R, y))
  <2>1. Before(S, R, x) \in SUBSET Before(S, R, y) /\ Before(S, R, y) \in SUBSET S /\ x \in Before(S, R, y)
    BY <1>3 DEF Before, StrictlyOrders
  <2> QED
    BY <1>1, <1>2, <2>1
<1> QED
  BY <1>1, <1>2, <1>3

(***************************************************************************)
(* InOrder lists every element of S once, in order.                        *)
(***************************************************************************)
THEOREM InOrderIsSorted ==
  ASSUME NEW S, IsFiniteSet(S), NEW R, StrictlyOrders(R, S)
  PROVE  /\ Cardinality(S) \in Nat
         /\ InOrder(S, R) \in [1..Cardinality(S) -> S]
         /\ \A x \in S : \E k \in 1..Cardinality(S) : InOrder(S, R)[k] = x
         /\ \A i, j \in 1..Cardinality(S) : i < j => <<InOrder(S, R)[i], InOrder(S, R)[j]>> \in R
<1> DEFINE n == Cardinality(S)
           place == [x \in S |-> Cardinality(Before(S, R, x)) + 1]
           s == InOrder(S, R)
<1>1. n \in Nat
  BY FS_CardinalityType
<1>2. \A x \in S : place[x] \in 1..n /\ Cardinality(Before(S, R, x)) = place[x] - 1
  BY <1>1, PlaceOfElement
<1>3. \A x, y \in S : <<x, y>> \in R => place[x] < place[y]
  BY <1>2, PlaceOfElement
<1>4. place \in Injection(S, 1..n)
  <2>1. ASSUME NEW x \in S, NEW y \in S, place[x] = place[y]
        PROVE  x = y
    <3>1. place[x] \in Int /\ ~(<<x, y>> \in R) /\ ~(<<y, x>> \in R)
      <4> HIDE DEF place, n
      <4> QED
        BY <1>1, <1>2, <1>3, <2>1
    <3> QED
      BY <3>1 DEF StrictlyOrders
  <2> QED
    BY <1>2, <2>1 DEF Injection, IsInjective
<1>5. IsFiniteSet(1..n) /\ Cardinality(1..n) = n
  BY <1>1, FS_Interval
<1>6. place \in Surjection(S, 1..n)
  BY <1>4, <1>5, FS_Injection
<1>7. \A k \in 1..n : \E x \in S : place[x] = k
  BY <1>6 DEF Surjection
<1>8. \A x, y \in S : place[x] = place[y] => x = y
  BY <1>4 DEF Injection, IsInjective
<1> HIDE DEF place
<1>9. s = [k \in 1..n |-> CHOOSE x \in S : Cardinality(Before(S, R, x)) = k - 1]
  BY DEF InOrder
<1>10. ASSUME NEW k \in 1..n
       PROVE  s[k] \in S /\ place[s[k]] = k
  <2>1. s[k] = CHOOSE x \in S : Cardinality(Before(S, R, x)) = k - 1
    BY <1>9
  <2>2. \E x \in S : Cardinality(Before(S, R, x)) = k - 1
    BY <1>2, <1>7
  <2>3. s[k] \in S /\ Cardinality(Before(S, R, s[k])) = k - 1
    BY <2>1, <2>2
  <2>4. place[s[k]] \in 1..n /\ place[s[k]] - 1 = k - 1
    BY <1>2, <2>3
  <2> HIDE DEF s, n
  <2> QED
    BY <1>1, <2>3, <2>4
<1>11. s \in [1..n -> S]
  BY <1>9, <1>10
<1> HIDE DEF s
<1>12. \A x \in S : \E k \in 1..n : s[k] = x
  BY <1>2, <1>8, <1>10
<1>13. ASSUME NEW i \in 1..n, NEW j \in 1..n, i < j
       PROVE  <<s[i], s[j]>> \in R
  <2>1. s[i] # s[j] /\ ~(<<s[j], s[i]>> \in R)
    BY <1>1, <1>3, <1>10, <1>13
  <2> QED
    BY <1>10, <2>1 DEF StrictlyOrders
<1> QED
  BY <1>1, <1>11, <1>12, <1>13 DEF s

(***************************************************************************)
(* The order of numbers is one.                                            *)
(***************************************************************************)
LEMMA LessOrders ==
  ASSUME NEW S \in SUBSET Int
  PROVE  StrictlyOrders(Less(S), S)
<1>1. \A x, y \in S : <<x, y>> \in Less(S) <=> x < y
  BY DEF Less
<1>2. \A x \in S : x \in Int
  OBVIOUS
<1> QED
  BY <1>1, <1>2 DEF StrictlyOrders

(***************************************************************************)
(* Ascending lists a finite set of numbers in increasing order.            *)
(***************************************************************************)
THEOREM AscendingIsSorted ==
  ASSUME NEW S \in SUBSET Int, IsFiniteSet(S)
  PROVE  /\ Cardinality(S) \in Nat
         /\ Ascending(S) \in [1..Cardinality(S) -> S]
         /\ \A x \in S : \E k \in 1..Cardinality(S) : Ascending(S)[k] = x
         /\ \A i, j \in 1..Cardinality(S) : i < j => Ascending(S)[i] < Ascending(S)[j]
<1> DEFINE s == Ascending(S)
<1>1. StrictlyOrders(Less(S), S)
  BY LessOrders
<1>2. /\ Cardinality(S) \in Nat
      /\ s \in [1..Cardinality(S) -> S]
      /\ \A x \in S : \E k \in 1..Cardinality(S) : s[k] = x
      /\ \A i, j \in 1..Cardinality(S) : i < j => <<s[i], s[j]>> \in Less(S)
  BY <1>1, InOrderIsSorted DEF Ascending
<1>3. \A x, y : <<x, y>> \in Less(S) => x < y
  BY DEF Less
<1> HIDE DEF s
<1> QED
  BY <1>2, <1>3 DEF s

-----------------------------------------------------------------------------
(***************************************************************************)
(* A non-empty set of naturals has a least element.                        *)
(***************************************************************************)
LEMMA MinNat ==
  ASSUME NEW S \in SUBSET Nat, S # {}
  PROVE  \E m \in S : \A n \in S : m <= n
<1> DEFINE R == {ss \in Nat \X Nat : ss[1] < ss[2]}
<1>1. IsWellFoundedOn(R, Nat)
  BY NatLessThanWellFounded DEF OpToRel
<1> HIDE DEF R
<1>2. PICK m \in S : \A n \in S : ~(<<n, m>> \in R)
  BY <1>1, WFMin
<1>3. ASSUME NEW n \in S
      PROVE  m <= n
  <2>1. ~(n < m)
    <3> SUFFICES ASSUME n < m PROVE <<n, m>> \in R
      BY <1>2
    <3>1. <<n, m>> \in Nat \X Nat /\ <<n, m>>[1] < <<n, m>>[2]
      OBVIOUS
    <3> QED
      BY <3>1 DEF R
  <2> QED
    BY <2>1
<1> QED
  BY <1>3
=============================================================================
