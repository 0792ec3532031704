------------------------------ MODULE DataLemmas ------------------------------
(***************************************************************************)
(* What the proofs need to know about numbers and finite sets: a set of    *)
(* numbers has a smallest member, a set of finite sets one that no other   *)
(* member is a part of.  They serve as induction: what holds of a set if   *)
(* it holds of all smaller ones holds of all, for else there would be a    *)
(* smallest one of which it does not.                                      *)
(***************************************************************************)
EXTENDS Naturals, FiniteSets, FiniteSetTheorems, WellFoundedInduction, TLAPS

\* A set of numbers has a smallest member.
LEMMA SmallestNumber ==
  ASSUME NEW T, T \subseteq Nat, T # {}
  PROVE  \E x \in T : \A y \in T : x <= y
<1> DEFINE R == {ss \in Nat \X Nat : ss[1] < ss[2]}
<1>1. IsWellFoundedOn(R, Nat)
  BY NatLessThanWellFounded DEF OpToRel
<1>2. PICK x \in T : \A y \in T : ~(<<y, x>> \in R)
  <2> HIDE DEF R
  <2> QED BY <1>1, WFMin
<1>3. ASSUME NEW y \in T, ~(x <= y) PROVE FALSE
  <2>1. x \in Nat /\ y \in Nat /\ y < x
    BY <1>3
  <2>2. <<y, x>> \in R
    BY <2>1, Zenon
  <2> QED BY <1>2, <2>2
<1> QED BY <1>3

\* A smallest member of a set of finite sets: no other is a part of it.
LEMMA SmallestSet ==
  ASSUME NEW S, IsFiniteSet(S), NEW T, T \subseteq SUBSET S, T # {}
  PROVE  \E s \in T : \A y \in T : y \subseteq s => y = s
<1> DEFINE R == StrictSubsetOrdering(S)
<1>1. T \subseteq FiniteSubsetsOf(S)
  BY FS_Subset DEF FiniteSubsetsOf
<1>2. IsWellFoundedOn(R, FiniteSubsetsOf(S))
  BY FS_StrictSubsetOrderingWellFounded
<1>3. PICK s \in T : \A y \in T : ~(<<y, s>> \in R)
  <2> HIDE DEF R
  <2> QED BY <1>1, <1>2, WFMin
<1>4. ASSUME NEW y \in T, y \subseteq s, y # s PROVE FALSE
  <2>1. <<y, s>> \in R
    BY <1>4, Zenon DEF StrictSubsetOrdering
  <2> QED BY <1>3, <2>1
<1> QED BY <1>4

\* A finite set of numbers has a largest one.
LEMMA LargestNumber ==
  ASSUME NEW S, IsFiniteSet(S), S \subseteq Nat, S # {}
  PROVE  \E x \in S : \A y \in S : y <= x
<1> DEFINE Bounds == {b \in Nat : \A y \in S : y <= b}
<1>1. Bounds # {}
  <2> DEFINE Unbounded == {s \in SUBSET S : \A b \in Nat : \E y \in s : ~(y <= b)}
  <2>1. Unbounded = {}
    <3> SUFFICES ASSUME Unbounded # {} PROVE FALSE
      OBVIOUS
    <3>0. Unbounded \subseteq SUBSET S
      OBVIOUS
    <3>1. PICK s \in Unbounded : \A y \in Unbounded : y \subseteq s => y = s
      <4>1. \A Q : Q \subseteq SUBSET S /\ Q # {} => \E s \in Q : \A y \in Q : y \subseteq s => y = s
        BY ONLY IsFiniteSet(S), SmallestSet
      <4> HIDE DEF Unbounded
      <4> QED BY ONLY <3>0, Unbounded # {}, <4>1
    <3>2. PICK x \in s : TRUE
      BY <3>1
    <3>3. s \ {x} \notin Unbounded
      BY <3>1
    <3>4. PICK b \in Nat : \A y \in s \ {x} : y <= b
      BY <3>3, <3>1
    <3>5. x \in Nat
      BY <3>1, <3>2
    <3>6. \A y \in s : y \in Nat /\ y <= b + x
      BY <3>1, <3>4, <3>5
    <3>7. b + x \in Nat
      BY <3>5
    <3> QED BY <3>1, <3>6, <3>7
  <2> QED BY <2>1
<1>2. PICK b \in Bounds : \A y \in Bounds : b <= y
  BY <1>1, SmallestNumber, Bounds \subseteq Nat
<1>3. CASE b \in S
  BY <1>2, <1>3
<1>4. CASE b \notin S
  <2>1. \A y \in S : y \in Nat /\ y < b
    BY <1>2, <1>4
  <2>2. b - 1 \in Nat /\ \A y \in S : y <= b - 1
    <3>1. PICK y \in S : TRUE
      OBVIOUS
    <3> QED BY <2>1, <3>1, b \in Nat
  <2>3. b - 1 \in Bounds
    BY <2>2
  <2> QED BY <2>3, <1>2
<1> QED BY <1>3, <1>4

\* A property of 0 that goes from each number to the next, up to n, is one of all
\* of them.
LEMMA InductionUpTo ==
  ASSUME NEW n \in Nat, NEW T, 0 \in T, \A i \in 1..n : i - 1 \in T => i \in T
  PROVE  0..n \subseteq T
<1> DEFINE Rest == {i \in 0..n : i \notin T}
<1>1. ASSUME Rest # {} PROVE FALSE
  <2>1. PICK i \in Rest : \A j \in Rest : i <= j
    BY <1>1, SmallestNumber, Rest \subseteq Nat
  <2>2. i \in 1..n /\ i - 1 \in 0..n /\ i - 1 < i
    BY <2>1
  <2>3. i - 1 \notin Rest
    BY <2>1, <2>2
  <2> QED BY <2>1, <2>2, <2>3
<1> QED BY <1>1

\* What the steps 1 to n of f make of base, one after the other.
Iterates(g, n, A, base, f) ==
  g \in [0..n -> A] /\ g[0] = base /\ \A i \in 1..n : g[i] = f[<<g[i - 1], i>>]

\* There is such a sequence: the recursive function that says so is one.
LEMMA IterationExists ==
  ASSUME NEW n \in Nat, NEW A, NEW base \in A, NEW f \in [A \X (1..n) -> A]
  PROVE  \E g : Iterates(g, n, A, base, f)
<1> DEFINE T == {m \in 0..n : \E g \in [0..m -> A] :
                   g[0] = base /\ \A i \in 1..m : g[i] = f[<<g[i - 1], i>>]}
<1>1. 0 \in T
  <2> DEFINE g == [i \in 0..0 |-> base]
  <2>1. g \in [0..0 -> A] /\ g[0] = base /\ \A i \in 1..0 : g[i] = f[<<g[i - 1], i>>]
    OBVIOUS
  <2>2. 0 \in 0..n
    OBVIOUS
  <2> HIDE DEF g
  <2> QED BY <2>1, <2>2, Zenon
<1>2. ASSUME NEW m \in 1..n, m - 1 \in T PROVE m \in T
  <2>1. PICK h \in [0..(m - 1) -> A] :
          h[0] = base /\ \A i \in 1..(m - 1) : h[i] = f[<<h[i - 1], i>>]
    BY <1>2
  <2> DEFINE g == [i \in 0..m |-> IF i = m THEN f[<<h[m - 1], m>>] ELSE h[i]]
  <2>2. m \in Nat /\ m >= 1 /\ m \in 0..n /\ h[m - 1] \in A
    BY <2>1
  <2>3. <<h[m - 1], m>> \in A \X (1..n)
    BY <2>2
  <2>4. f[<<h[m - 1], m>>] \in A
    BY <2>3
  <2>5. g \in [0..m -> A]
    BY <2>1, <2>2, <2>4
  <2>6. g[0] = base /\ g[m] = f[<<h[m - 1], m>>] /\ g[m - 1] = h[m - 1]
    BY <2>1, <2>2
  <2>7. ASSUME NEW i \in 1..m, i # m PROVE g[i] = f[<<g[i - 1], i>>]
    <3>1. i \in 1..(m - 1) /\ i \in 0..m /\ i - 1 \in 0..m /\ i - 1 # m
      BY <2>2, <2>7
    <3>2. g[i] = h[i] /\ g[i - 1] = h[i - 1]
      BY <2>7, <3>1
    <3> HIDE DEF g
    <3> QED BY <2>1, <3>1, <3>2
  <2> HIDE DEF g
  <2>8. \A i \in 1..m : g[i] = f[<<g[i - 1], i>>]
    BY <2>6, <2>7
  <2> QED BY <2>2, <2>5, <2>6, <2>8
<1>3. 0..n \subseteq T
  <2> HIDE DEF T
  <2> QED BY <1>1, <1>2, InductionUpTo
<1>4. n \in T
  BY <1>3
<1> QED BY <1>4 DEF Iterates

LEMMA CardinalityOfFirst ==
  ASSUME NEW n \in Nat
  PROVE  IsFiniteSet(1..n) /\ Cardinality(1..n) = n
<1>1. 1 \in Int /\ n \in Int
  OBVIOUS
<1>2. IsFiniteSet(1..n) /\ Cardinality(1..n) = IF 1 > n THEN 0 ELSE n-1+1
  BY <1>1, FS_Interval, Zenon
<1> QED BY <1>2
=============================================================================
