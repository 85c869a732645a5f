------------------------- MODULE SubsequencesProofs --------------------------
(***************************************************************************)
(* Facts about filtered sequences, about the least and the greatest of two *)
(* numbers, and about the least element of a set of numbers, which is the  *)
(* induction the other proofs use.                                         *)
(***************************************************************************)
EXTENDS Subsequences, FiniteSetsExt, FiniteSetTheorems, WellFoundedInduction, TLAPS

----------------------------------------------------------------------------
(* Numbers.                                                                 *)

\* Max and Min, as saturating arithmetic uses them.
LEMMA MaxOfTwo ==
  ASSUME NEW a \in Int, NEW b \in Int
  PROVE  Max({a, b}) = IF a >= b THEN a ELSE b
  BY DEF Max

LEMMA MinOfTwo ==
  ASSUME NEW a \in Int, NEW b \in Int
  PROVE  Min({a, b}) = IF a <= b THEN a ELSE b
  BY DEF Min

\* A set of naturals that is not empty has a least element.
LEMMA LeastNatural ==
  ASSUME NEW S, S \subseteq Nat, S # {}
  PROVE  \E n \in S : \A m \in S : n <= m
<1> DEFINE R == OpToRel(<, Nat)
<1>1. IsWellFoundedOn(R, Nat)
  BY NatLessThanWellFounded
<1> HIDE DEF R
<1>2. PICK x \in S : \A y \in S : ~ (<<y, x>> \in R)
  BY <1>1, WFMin
<1>3. \A a, b \in Nat : a < b => <<a, b>> \in R
  BY DEF R, OpToRel
<1>4. \A y \in S : y \in Nat /\ x \in Nat /\ ~(y < x)
  BY <1>2, <1>3
<1> QED
  BY <1>4

\* A set that holds zero and the successor of each of its elements holds every
\* natural number.
LEMMA Induction ==
  ASSUME NEW S, 0 \in S, \A n \in Nat : n \in S => n + 1 \in S
  PROVE  Nat \subseteq S
<1> SUFFICES ASSUME Nat \ S # {} PROVE FALSE
  OBVIOUS
<1>1. PICK n \in Nat \ S : \A m \in Nat \ S : n <= m
  BY LeastNatural
<1>2. n - 1 \in Nat /\ n - 1 \in S
  BY <1>1
<1> QED
  BY <1>1, <1>2

LEMMA UpTo ==
  ASSUME NEW n \in Nat
  PROVE  IsFiniteSet(1 .. n) /\ Cardinality(1 .. n) = n
<1>1. IsFiniteSet(1 .. n) /\ Cardinality(1 .. n) = IF 1 > n THEN 0 ELSE n - 1 + 1
  BY FS_Interval
<1> QED
  BY <1>1

----------------------------------------------------------------------------
(* Positions.                                                               *)

\* A rank is a position of the filtered sequence, and two positions have
\* different ranks, in the same order.
LEMMA PlaceIs ==
  ASSUME NEW P, P \subseteq Nat, IsFiniteSet(P)
  PROVE  /\ Cardinality(P) \in Nat
         /\ \A i \in P : Place(P, i) \in 1 .. Cardinality(P)
         /\ \A i, j \in P : i < j => Place(P, i) < Place(P, j)
<1> DEFINE upTo(i) == {j \in P : j <= i}
<1>1. \A i : IsFiniteSet(upTo(i)) /\ Cardinality(upTo(i)) \in Nat
             /\ Cardinality(upTo(i)) <= Cardinality(P)
  <2> TAKE i
  <2>1. upTo(i) \in SUBSET P
    OBVIOUS
  <2> HIDE DEF upTo
  <2> QED
    BY <2>1, FS_Subset, FS_CardinalityType
<1>2. Cardinality(P) \in Nat
  BY FS_CardinalityType
<1>3. ASSUME NEW i \in P PROVE Cardinality(upTo(i)) # 0
  <2>1. i \in upTo(i)
    OBVIOUS
  <2> HIDE DEF upTo
  <2> QED
    BY <1>1, <2>1, FS_EmptySet
<1>4. ASSUME NEW i \in P, NEW j \in P, i < j
      PROVE  Cardinality(upTo(i)) < Cardinality(upTo(j))
  <2>a. \A m \in P : m \in Nat
    OBVIOUS
  <2>b. \A m \in P : m <= i => m <= j
    BY <1>4, <2>a
  <2>c. j <= j /\ ~(j <= i)
    BY <1>4, <2>a
  <2>1. upTo(i) \in SUBSET upTo(j) /\ j \in upTo(j) /\ j \notin upTo(i)
    BY <2>b, <2>c, Zenon
  <2> HIDE DEF upTo
  <2>2. /\ Cardinality(upTo(i)) <= Cardinality(upTo(j))
        /\ Cardinality(upTo(j)) = Cardinality(upTo(i)) => upTo(j) = upTo(i)
    BY <1>1, <2>1, FS_Subset
  <2>3. upTo(j) # upTo(i)
    BY <2>1
  <2> QED
    BY <1>1, <2>2, <2>3
<1>5. \A i : Place(P, i) = Cardinality(upTo(i))
  BY DEF Place
<1> HIDE DEF upTo
<1>6. \A i \in P : Place(P, i) \in 1 .. Cardinality(P)
  BY <1>1, <1>2, <1>3, <1>5
<1> QED
  BY <1>2, <1>4, <1>5, <1>6

\* Every rank is taken, and Nth finds the position that has it.
LEMMA NthIs ==
  ASSUME NEW P, P \subseteq Nat, IsFiniteSet(P), NEW k \in 1 .. Cardinality(P)
  PROVE  Nth(P, k) \in P /\ Place(P, Nth(P, k)) = k
<1> DEFINE n == Cardinality(P)
           rank == [i \in P |-> Place(P, i)]
<1>a. n \in Nat
  BY PlaceIs
<1>b. \A i \in P : Place(P, i) \in 1 .. n
  BY PlaceIs
<1>c. \A i, j \in P : i < j => Place(P, i) < Place(P, j)
  BY PlaceIs
<1> HIDE DEF n
<1>1. n \in Nat /\ IsFiniteSet(1 .. n) /\ Cardinality(1 .. n) = n
  BY <1>a, UpTo
<1>2. rank \in [P -> 1 .. n]
  BY <1>b
<1>3. \A i, j \in P : rank[i] = rank[j] => i = j
  <2> SUFFICES ASSUME NEW i \in P, NEW j \in P, rank[i] = rank[j], i # j
               PROVE  FALSE
    OBVIOUS
  <2>1. i < j \/ j < i
    OBVIOUS
  <2>2. Place(P, i) = Place(P, j) /\ Place(P, i) \in Int /\ Place(P, j) \in Int
    BY <1>a, <1>b
  <2> QED
    BY <1>c, <2>1, <2>2
<1> HIDE DEF rank
<1>4. rank \in Injection(P, 1 .. n)
  BY <1>2, <1>3 DEF Injection, IsInjective
<1>5. rank \in Surjection(P, 1 .. n)
  BY <1>1, <1>4, FS_Injection DEF n
<1>6. PICK i \in P : rank[i] = k
  BY <1>5 DEF Surjection, n
<1>7. Place(P, i) = k
  BY <1>6 DEF rank
<1> QED
  BY <1>7 DEF Nth

\* Nth counts up the positions: it is onto, and keeps the order.
LEMMA NthOfPlace ==
  ASSUME NEW P, P \subseteq Nat, IsFiniteSet(P), NEW i \in P
  PROVE  Nth(P, Place(P, i)) = i
<1>1. Place(P, i) \in 1 .. Cardinality(P)
  BY PlaceIs
<1>2. /\ Nth(P, Place(P, i)) \in P
      /\ Place(P, Nth(P, Place(P, i))) = Place(P, i)
  BY <1>1, NthIs
<1> DEFINE j == Nth(P, Place(P, i))
<1> HIDE DEF j
<1>3. j \in P /\ Place(P, j) = Place(P, i) /\ Place(P, i) \in Int
  BY <1>1, <1>2 DEF j
<1>4. i < j \/ j < i \/ i = j
  BY <1>3
<1>5. \A a, b \in P : a < b => Place(P, a) < Place(P, b)
  BY PlaceIs
<1>6. i = j
  BY <1>3, <1>4, <1>5
<1> QED
  BY <1>6 DEF j

LEMMA NthOrdered ==
  ASSUME NEW P, P \subseteq Nat, IsFiniteSet(P),
         NEW k \in 1 .. Cardinality(P), NEW m \in 1 .. Cardinality(P), k < m
  PROVE  Nth(P, k) < Nth(P, m)
<1> DEFINE i == Nth(P, k)
           j == Nth(P, m)
<1>1. i \in P /\ j \in P /\ Place(P, i) = k /\ Place(P, j) = m
  BY NthIs
<1> HIDE DEF i, j
<1>2. i < j \/ j < i \/ i = j
  BY <1>1
<1>a. \A a, b \in P : a < b => Place(P, a) < Place(P, b)
  BY PlaceIs
<1>b. k \in Int /\ m \in Int
  BY PlaceIs
<1>3. ~(j < i) /\ i # j
  BY <1>1, <1>a, <1>b
<1> QED
  BY <1>2, <1>3 DEF i, j

----------------------------------------------------------------------------
(* Filtered sequences.                                                      *)

LEMMA PositionsFinite ==
  ASSUME NEW seq, NEW S, seq \in Seq(S), NEW P, P \subseteq DOMAIN seq
  PROVE  P \subseteq Nat /\ IsFiniteSet(P) /\ Cardinality(P) \in Nat
         /\ Cardinality(P) <= Len(seq)
<1>1. DOMAIN seq = 1 .. Len(seq) /\ Len(seq) \in Nat
  OBVIOUS
<1>2. IsFiniteSet(1 .. Len(seq)) /\ Cardinality(1 .. Len(seq)) = Len(seq)
  BY <1>1, UpTo
<1> QED
  BY <1>1, <1>2, FS_Subset, FS_CardinalityType

\* What stands where when one sequence follows another.
LEMMA Joined ==
  ASSUME NEW S, NEW s \in Seq(S), NEW t \in Seq(S)
  PROVE  /\ s \o t \in Seq(S) /\ Len(s \o t) = Len(s) + Len(t)
         /\ DOMAIN (s \o t) = 1 .. (Len(s) + Len(t))
         /\ \A i \in 1 .. Len(s) : (s \o t)[i] = s[i]
         /\ \A i \in (Len(s) + 1) .. (Len(s) + Len(t)) : (s \o t)[i] = t[i - Len(s)]
<1>1. s \o t \in Seq(S) /\ Len(s \o t) = Len(s) + Len(t)
      /\ Len(s) \in Nat /\ Len(t) \in Nat
  OBVIOUS
<1>2. DOMAIN (s \o t) = 1 .. (Len(s) + Len(t))
  BY <1>1
<1>3. \A i \in 1 .. Len(s) : (s \o t)[i] = s[i]
  BY <1>1
<1>4. \A i \in (Len(s) + 1) .. (Len(s) + Len(t)) : (s \o t)[i] = t[i - Len(s)]
  BY <1>1
<1> QED
  BY <1>1, <1>2, <1>3, <1>4

\* A filtered sequence is a sequence of elements at the positions picked, in
\* their order, each position once.
LEMMA PickedIs ==
  ASSUME NEW S, NEW seq \in Seq(S), NEW P, P \subseteq DOMAIN seq
  PROVE  /\ Picked(seq, P) \in Seq(S)
         /\ Len(Picked(seq, P)) = Cardinality(P)
         /\ DOMAIN Picked(seq, P) = 1 .. Cardinality(P)
         /\ \A k \in 1 .. Cardinality(P) :
              Nth(P, k) \in P /\ Picked(seq, P)[k] = seq[Nth(P, k)]
         /\ \A k, m \in 1 .. Cardinality(P) : k < m => Nth(P, k) < Nth(P, m)
         /\ \A i \in P : \E k \in 1 .. Cardinality(P) : Nth(P, k) = i
<1>1. P \subseteq Nat /\ IsFiniteSet(P) /\ Cardinality(P) \in Nat
  BY PositionsFinite
<1>2. \A k \in 1 .. Cardinality(P) : Nth(P, k) \in P
  BY <1>1, NthIs
<1>3. \A k \in 1 .. Cardinality(P) : seq[Nth(P, k)] \in S
  BY <1>2
<1>4. Picked(seq, P) \in [1 .. Cardinality(P) -> S]
  BY <1>3 DEF Picked
<1>5. Picked(seq, P) \in Seq(S) /\ Len(Picked(seq, P)) = Cardinality(P)
  BY <1>1, <1>4
<1>6. \A k, m \in 1 .. Cardinality(P) : k < m => Nth(P, k) < Nth(P, m)
  BY <1>1, NthOrdered
<1>7. \A i \in P : Place(P, i) \in 1 .. Cardinality(P) /\ Nth(P, Place(P, i)) = i
  BY <1>1, NthOfPlace, PlaceIs
<1> QED
  BY <1>2, <1>4, <1>5, <1>6, <1>7 DEF Picked
=============================================================================
