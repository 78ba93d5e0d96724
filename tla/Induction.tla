------------------------------ MODULE Induction ------------------------------
(***************************************************************************)
(* Induction over finite sets and numbers, in a form that takes a set for  *)
(* an argument and no operator: a set of finite sets has one without a     *)
(* proper subset in it, a set of numbers has a least one.                  *)
(***************************************************************************)
EXTENDS Integers, FiniteSetTheorems, WellFoundedInduction, TLAPS

(* Among the sets B of subsets of a finite set there is a smallest one.    *)
LEMMA SmallestSet ==
    ASSUME NEW S, IsFiniteSet(S), NEW B \in SUBSET (SUBSET S), B # {}
    PROVE  \E T \in B : /\ IsFiniteSet(T)
                        /\ \A U \in SUBSET T : U # T => U \notin B
<1>1. FiniteSubsetsOf(S) = SUBSET S
  BY FS_FiniteSubsetsOfFinite
<1>2. IsWellFoundedOn(StrictSubsetOrdering(S), SUBSET S)
  BY <1>1, FS_StrictSubsetOrderingWellFounded
<1>3. PICK T \in B : \A U \in B : ~(<<U, T>> \in StrictSubsetOrdering(S))
  BY <1>2, WFMin
<1>4. IsFiniteSet(T)
  BY FS_Subset
<1> QED
  BY <1>3, <1>4 DEF StrictSubsetOrdering

(* Among the numbers of a set there is a smallest one.                     *)
LEMMA SmallestNumber ==
    ASSUME NEW B \in SUBSET Nat, B # {}
    PROVE  \E k \in B : \A l \in 0..(k - 1) : l \notin B
<1>1. PICK b \in B : TRUE
  OBVIOUS
<1> DEFINE D == 0..b
           C == { 0..k : k \in B \cap D }
<1>2. IsFiniteSet(D)
  BY <1>1, FS_Interval
<1>3. C \in SUBSET (SUBSET D) /\ C # {}
  <2>1. b \in Nat /\ 0..b \in C
    BY <1>1
  <2>2. ASSUME NEW k \in B \cap D PROVE 0..k \subseteq D
    OBVIOUS
  <2> QED
    BY <2>1, <2>2
<1>4. \E T \in C : /\ IsFiniteSet(T)
                   /\ \A U \in SUBSET T : U # T => U \notin C
  <2> HIDE DEF C, D
  <2> QED
    BY <1>2, <1>3, SmallestSet
<1>5. PICK k \in B \cap D : \A U \in SUBSET (0..k) : U # 0..k => U \notin C
  BY <1>4
<1>6. ASSUME NEW l \in 0..(k - 1), l \in B
      PROVE  FALSE
  <2>1. 0..l \in C /\ 0..l \in SUBSET (0..k) /\ k \in 0..k /\ k \notin 0..l
    BY <1>5, <1>6
  <2> QED
    BY <1>5, <2>1
<1> QED
  BY <1>5, <1>6

(* What holds of 0 and of the successors of what it holds of, holds of all.*)
LEMMA EveryNumber ==
    ASSUME NEW A, 0 \in A, \A n \in Nat : n \in A => n + 1 \in A
    PROVE  Nat \subseteq A
<1> DEFINE B == Nat \ A
<1> SUFFICES ASSUME B # {} PROVE FALSE
  OBVIOUS
<1>1. \E k \in B : \A l \in 0..(k - 1) : l \notin B
  <2>1. B \in SUBSET Nat
    OBVIOUS
  <2> HIDE DEF B
  <2> QED
    BY <2>1, SmallestNumber
<1>2. PICK k \in B : \A l \in 0..(k - 1) : l \notin B
  BY <1>1
<1>3. k - 1 \in Nat /\ k - 1 \in 0..(k - 1) /\ (k - 1) + 1 = k
  BY <1>2
<1>4. k - 1 \in A
  BY <1>2, <1>3
<1> QED
  BY <1>2, <1>3, <1>4

=============================================================================
