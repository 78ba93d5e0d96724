-------------------------- MODULE CoinChoiceProofs --------------------------
(***************************************************************************)
(* Sums over sets of utxos, and what the formula of GetTransactionInputs   *)
(* chooses.                                                                *)
(***************************************************************************)
EXTENDS CoinChoice, Induction

-----------------------------------------------------------------------------
(* The sum                                                                 *)

(* The element the fold takes away first.                                  *)
FirstOf(S) == CHOOSE x \in S : TRUE

IsSum(sum, v, S) ==
    sum = [T \in SUBSET S |->
              IF T = {} THEN 0 ELSE v[FirstOf(T)] + sum[T \ {FirstOf(T)}]]

LEMMA TotalIsSum ==
    ASSUME NEW v, NEW S
    PROVE  Total(v, S) = (CHOOSE sum : IsSum(sum, v, S))[S]
BY DEF Total, FoldFunctionOnSet, MapThenFoldSet, FirstOf, IsSum

(* sum computes the sums of the subsets of S with no more than k elements. *)
SumsUpTo(sum, v, S, k) ==
    /\ DOMAIN sum = SUBSET S
    /\ \A T \in SUBSET S : Cardinality(T) <= k =>
           sum[T] = IF T = {} THEN 0
                      ELSE v[FirstOf(T)] + sum[T \ {FirstOf(T)}]

LEMMA SumExists ==
    ASSUME NEW v, NEW S, IsFiniteSet(S)
    PROVE  \E sum : IsSum(sum, v, S)
<1> DEFINE B == { k \in Nat : ~\E sum : SumsUpTo(sum, v, S, k) }
<1>1. B = {}
  <2> SUFFICES ASSUME B # {} PROVE FALSE
    OBVIOUS
  <2>1. PICK k \in B : \A l \in 0..(k - 1) : l \notin B
    BY SmallestNumber
  <2>2. \A T \in SUBSET S : IsFiniteSet(T) /\ Cardinality(T) \in Nat
    BY FS_Subset, FS_CardinalityType
  <2>3. CASE k = 0
    <3> DEFINE zero == [T \in SUBSET S |-> 0]
    <3>1. SumsUpTo(zero, v, S, 0)
      BY <2>2, FS_EmptySet DEF SumsUpTo
    <3> QED
      BY <2>3, <3>1
  <2>4. CASE k # 0
    <3>1. k - 1 \in Nat /\ k - 1 \notin B
      BY <2>1, <2>4
    <3>2. PICK sum : SumsUpTo(sum, v, S, k - 1)
      BY <3>1
    <3> DEFINE next == [T \in SUBSET S |->
                           IF T = {} THEN 0
                             ELSE v[FirstOf(T)] + sum[T \ {FirstOf(T)}]]
    <3>3. ASSUME NEW T \in SUBSET S, Cardinality(T) <= k - 1
          PROVE  next[T] = sum[T]
      BY <3>2, <3>3 DEF SumsUpTo
    <3>4. ASSUME NEW T \in SUBSET S, Cardinality(T) <= k, T # {}
          PROVE  next[T] = v[FirstOf(T)] + next[T \ {FirstOf(T)}]
      <4>1. FirstOf(T) \in T
        BY <3>4 DEF FirstOf
      <4>2. Cardinality(T \ {FirstOf(T)}) <= k - 1
        BY <2>2, <3>4, <4>1, FS_RemoveElement
      <4>3. next[T \ {FirstOf(T)}] = sum[T \ {FirstOf(T)}]
        BY <3>3, <4>2
      <4> QED
        BY <3>4, <4>3
    <3>5. next[{}] = 0 /\ DOMAIN next = SUBSET S
      OBVIOUS
    <3> HIDE DEF next
    <3>6. SumsUpTo(next, v, S, k)
      BY <3>4, <3>5 DEF SumsUpTo
    <3> QED
      BY <3>6
  <2> QED
    BY <2>3, <2>4
<1>2. Cardinality(S) \in Nat
  BY FS_CardinalityType
<1>3. PICK sum : SumsUpTo(sum, v, S, Cardinality(S))
  BY <1>1, <1>2
<1>4. \A T \in SUBSET S : Cardinality(T) <= Cardinality(S)
  BY FS_Subset
<1> DEFINE f == [T \in SUBSET S |-> sum[T]]
<1>5. IsSum(f, v, S)
  BY <1>3, <1>4 DEF SumsUpTo, IsSum
<1> QED
  BY <1>5

(* Two sums agree on a set if the values do.                               *)
LEMMA SumsAgree ==
    ASSUME NEW v, NEW w, NEW S, NEW T, NEW f, NEW g,
           IsFiniteSet(S), IsSum(f, v, S), IsSum(g, w, T),
           NEW U \in SUBSET S, U \subseteq T, \A x \in U : v[x] = w[x]
    PROVE  f[U] = g[U]
<1> DEFINE B == { V \in SUBSET U : f[V] # g[V] }
<1> SUFFICES B = {}
  OBVIOUS
<1>1. IsFiniteSet(U) /\ B \in SUBSET (SUBSET U)
  BY FS_Subset
<1> SUFFICES ASSUME B # {} PROVE FALSE
  OBVIOUS
<1>2. \E V \in B : /\ IsFiniteSet(V)
                   /\ \A W \in SUBSET V : W # V => W \notin B
  <2> HIDE DEF B
  <2> QED
    BY <1>1, SmallestSet
<1>3. PICK V \in B : \A W \in SUBSET V : W # V => W \notin B
  BY <1>2
<1>4. V \in SUBSET S /\ V \in SUBSET T
  BY <1>3
<1>5. CASE V = {}
  BY <1>3, <1>4, <1>5 DEF IsSum
<1>6. CASE V # {}
  <2> DEFINE x == FirstOf(V)
             W == V \ {x}
  <2>1. x \in V
    BY <1>6 DEF FirstOf
  <2>2. W \in SUBSET V /\ W # V
    BY <2>1
  <2>3. f[W] = g[W]
    BY <1>3, <2>2
  <2>4. f[V] = v[x] + f[W] /\ g[V] = w[x] + g[W]
    BY <1>4, <1>6 DEF IsSum
  <2>5. v[x] = w[x]
    BY <1>3, <2>1
  <2> QED
    BY <1>3, <2>3, <2>4, <2>5
<1> QED
  BY <1>5, <1>6

LEMMA TotalSum ==
    ASSUME NEW v, NEW S, IsFiniteSet(S)
    PROVE  \E sum : IsSum(sum, v, S) /\ sum[S] = Total(v, S)
<1> DEFINE sum == CHOOSE f : IsSum(f, v, S)
<1>1. IsSum(sum, v, S)
  BY SumExists, Zenon
<1> QED
  BY <1>1, TotalIsSum, Zenon

(* The sum depends on nothing but the values of the elements.              *)
LEMMA TotalSame ==
    ASSUME NEW v, NEW w, NEW S, IsFiniteSet(S), \A x \in S : v[x] = w[x]
    PROVE  Total(v, S) = Total(w, S)
<1>1. PICK f : IsSum(f, v, S) /\ f[S] = Total(v, S)
  BY TotalSum
<1>2. PICK g : IsSum(g, w, S) /\ g[S] = Total(w, S)
  BY TotalSum
<1>3. S \in SUBSET S /\ S \subseteq S
  OBVIOUS
<1> QED
  BY <1>1, <1>2, <1>3, SumsAgree

LEMMA TotalEmpty ==
    ASSUME NEW v PROVE Total(v, {}) = 0
<1>1. PICK f : IsSum(f, v, {}) /\ f[{}] = Total(v, {})
  BY TotalSum, FS_EmptySet
<1> QED
  BY <1>1 DEF IsSum

LEMMA TotalFirst ==
    ASSUME NEW v, NEW S, IsFiniteSet(S), S # {}
    PROVE  /\ FirstOf(S) \in S
           /\ Total(v, S) = v[FirstOf(S)] + Total(v, S \ {FirstOf(S)})
<1> DEFINE x == FirstOf(S)
           R == S \ {x}
<1>1. x \in S
  BY DEF FirstOf
<1>2. IsFiniteSet(R) /\ R \in SUBSET S
  BY FS_Subset
<1>3. PICK f : IsSum(f, v, S) /\ f[S] = Total(v, S)
  BY TotalSum
<1>4. PICK g : IsSum(g, v, R) /\ g[R] = Total(v, R)
  BY <1>2, TotalSum
<1>5. f[S] = v[x] + f[R]
  BY <1>1, <1>3 DEF IsSum
<1>6. f[R] = g[R]
  <2> HIDE DEF x, R
  <2> QED
    BY <1>2, <1>3, <1>4, SumsAgree
<1> QED
  BY <1>1, <1>3, <1>4, <1>5, <1>6

LEMMA TotalInt ==
    ASSUME NEW S, IsFiniteSet(S), NEW v, \A x \in S : v[x] \in Int
    PROVE  /\ Total(v, S) \in Int
           /\ (\A x \in S : v[x] >= 0) => Total(v, S) >= 0
<1> DEFINE P(T) == /\ Total(v, T) \in Int
                   /\ (\A x \in S : v[x] >= 0) => Total(v, T) >= 0
           B == { T \in SUBSET S : ~P(T) }
<1> SUFFICES B = {}
  OBVIOUS
<1> SUFFICES ASSUME B # {} PROVE FALSE
  OBVIOUS
<1>1. \E T \in B : /\ IsFiniteSet(T)
                   /\ \A U \in SUBSET T : U # T => U \notin B
  <2>1. B \in SUBSET (SUBSET S)
    OBVIOUS
  <2> HIDE DEF B
  <2> QED
    BY <2>1, SmallestSet
<1>2. PICK T \in B : /\ IsFiniteSet(T)
                     /\ \A U \in SUBSET T : U # T => U \notin B
  BY <1>1
<1>3. T # {}
  <2>1. P({})
    BY TotalEmpty
  <2> HIDE DEF P
  <2> QED
    BY <1>2, <2>1
<1> DEFINE x == FirstOf(T)
<1>4. x \in T /\ Total(v, T) = v[x] + Total(v, T \ {x})
  BY <1>2, <1>3, TotalFirst
<1>5. P(T \ {x})
  BY <1>2, <1>4
<1> QED
  BY <1>2, <1>4, <1>5

(* Any element may be taken away first.                                    *)
LEMMA TotalRemove ==
    ASSUME NEW S, IsFiniteSet(S), NEW v, \A x \in S : v[x] \in Int, NEW c \in S
    PROVE  Total(v, S) = v[c] + Total(v, S \ {c})
<1> DEFINE P(T) == \A d \in T : Total(v, T) = v[d] + Total(v, T \ {d})
           B == { T \in SUBSET S : ~P(T) }
<1> SUFFICES B = {}
  OBVIOUS
<1> SUFFICES ASSUME B # {} PROVE FALSE
  OBVIOUS
<1>1. \E T \in B : /\ IsFiniteSet(T)
                   /\ \A U \in SUBSET T : U # T => U \notin B
  <2>1. B \in SUBSET (SUBSET S)
    OBVIOUS
  <2> HIDE DEF B
  <2> QED
    BY <2>1, SmallestSet
<1>2. PICK T \in B : /\ IsFiniteSet(T)
                     /\ \A U \in SUBSET T : U # T => U \notin B
  BY <1>1
<1>3. PICK d \in T : Total(v, T) # v[d] + Total(v, T \ {d})
  BY <1>2
<1> DEFINE x == FirstOf(T)
<1>4. x \in T /\ Total(v, T) = v[x] + Total(v, T \ {x})
  BY <1>2, <1>3, TotalFirst
<1>5. x # d
  BY <1>3, <1>4
<1>6. P(T \ {x}) /\ P(T \ {d})
  BY <1>2, <1>3, <1>4
<1>7. /\ Total(v, T \ {x}) = v[d] + Total(v, (T \ {x}) \ {d})
      /\ Total(v, T \ {d}) = v[x] + Total(v, (T \ {d}) \ {x})
  BY <1>3, <1>4, <1>5, <1>6
<1> DEFINE R == (T \ {x}) \ {d}
           r == Total(v, R)
<1>8. (T \ {d}) \ {x} = R
  OBVIOUS
<1>9. r \in Int
  <2>1. IsFiniteSet(R) /\ R \in SUBSET S
    BY <1>2, FS_RemoveElement
  <2> HIDE DEF R
  <2> QED
    BY <2>1, TotalInt
<1>10. v[x] \in Int /\ v[d] \in Int
  BY <1>2, <1>3, <1>4
<1>11. Total(v, T) = v[x] + (v[d] + r) /\ Total(v, T \ {d}) = v[x] + r
  BY <1>4, <1>7, <1>8
<1> HIDE DEF r, x
<1> QED
  BY <1>3, <1>9, <1>10, <1>11

LEMMA TotalAdd ==
    ASSUME NEW S, IsFiniteSet(S), NEW v, NEW c, c \notin S,
           \A x \in S \cup {c} : v[x] \in Int
    PROVE  Total(v, S \cup {c}) = v[c] + Total(v, S)
<1>1. IsFiniteSet(S \cup {c}) /\ (S \cup {c}) \ {c} = S
  BY FS_AddElement
<1> QED
  BY <1>1, TotalRemove

(* Of positive values no one is more than the total, and each is less when *)
(* there is another.                                                       *)
LEMMA TotalOne ==
    ASSUME NEW S, IsFiniteSet(S), NEW v, \A x \in S : v[x] \in Nat \ {0},
           NEW c \in S
    PROVE  /\ Total(v, {c}) = v[c] /\ Total(v, S) \in Int
           /\ v[c] <= Total(v, S)
           /\ \A d \in S : c # d => v[c] < Total(v, S)
<1>1. /\ \A x \in S : v[x] \in Int /\ v[x] > 0 /\ v[x] >= 0
      /\ \A x \in S \ {c} : v[x] \in Int /\ v[x] >= 0
      /\ \A x \in {c} : v[x] \in Int
  OBVIOUS
<1>2. IsFiniteSet(S \ {c}) /\ IsFiniteSet({c})
  BY FS_Subset
<1>3. Total(v, S) \in Int /\ Total(v, S) = v[c] + Total(v, S \ {c})
  BY <1>1, TotalInt, TotalRemove
<1>4. Total(v, {c}) = v[c]
  <2>1. Total(v, {c}) = v[c] + Total(v, {c} \ {c})
    BY <1>1, <1>2, TotalRemove
  <2>2. {c} \ {c} = {}
    OBVIOUS
  <2> QED
    BY <1>1, <2>1, <2>2, TotalEmpty
<1>5. Total(v, S \ {c}) \in Int /\ Total(v, S \ {c}) >= 0
  BY <1>1, <1>2, TotalInt
<1>6. ASSUME NEW d \in S, c # d
      PROVE  Total(v, S \ {c}) > 0
  <2> DEFINE R == (S \ {c}) \ {d}
  <2>1. Total(v, S \ {c}) = v[d] + Total(v, R)
    BY <1>1, <1>2, <1>6, TotalRemove
  <2>2. IsFiniteSet(R) /\ \A x \in R : v[x] \in Int /\ v[x] >= 0
    BY <1>1, <1>2, FS_Subset
  <2> HIDE DEF R
  <2>3. Total(v, R) \in Int /\ Total(v, R) >= 0
    BY <2>2, TotalInt
  <2> QED
    BY <1>1, <2>1, <2>3
<1> QED
  BY <1>1, <1>3, <1>4, <1>5, <1>6

(* A part of a set of utxos is not worth more than the set.                *)
LEMMA TotalPart ==
    ASSUME NEW S, IsFiniteSet(S), NEW v, \A x \in S : v[x] \in Nat,
           NEW T \in SUBSET S
    PROVE  Total(v, T) <= Total(v, S)
<1> DEFINE B == { U \in SUBSET S : T \subseteq U /\ Total(v, U) < Total(v, T) }
<1>1. \A U \in SUBSET S : IsFiniteSet(U) /\ Total(v, U) \in Int
  <2> TAKE U \in SUBSET S
  <2>1. IsFiniteSet(U)
    BY FS_Subset
  <2> QED
    BY <2>1, TotalInt
<1> SUFFICES B = {}
  BY <1>1
<1> SUFFICES ASSUME B # {} PROVE FALSE
  OBVIOUS
<1>2. \E U \in B : /\ IsFiniteSet(U)
                   /\ \A W \in SUBSET U : W # U => W \notin B
  <2>1. B \in SUBSET (SUBSET S)
    OBVIOUS
  <2> HIDE DEF B
  <2> QED
    BY <2>1, SmallestSet
<1>3. PICK U \in B : /\ IsFiniteSet(U)
                     /\ \A W \in SUBSET U : W # U => W \notin B
  BY <1>2
<1>4. PICK c \in U : c \notin T
  <2>1. Total(v, U) \in Int /\ Total(v, U) < Total(v, T)
    BY <1>1, <1>3
  <2>2. U # T /\ T \subseteq U
    BY <1>3, <2>1
  <2> QED
    BY <2>2
<1>5. Total(v, U) = v[c] + Total(v, U \ {c}) /\ v[c] \in Nat
  BY <1>3, TotalRemove
<1>6. Total(v, U \ {c}) >= Total(v, T)
  BY <1>1, <1>3, <1>4
<1> QED
  BY <1>1, <1>3, <1>5, <1>6

-----------------------------------------------------------------------------
(* The choice                                                              *)

(* The utxos S in an order: P[c] are those up to c, and none after c is    *)
(* worth more.                                                             *)
InOrder(S, v, P) ==
    /\ \A c \in S : P[c] \subseteq S /\ c \in P[c] /\ v[c] \in Nat
    /\ \A c, d \in S : c \in P[d] => P[c] \subseteq P[d] /\ v[c] >= v[d]
    /\ \A c, d \in S : c \in P[d] \/ d \in P[c]
    /\ \A c, d \in S : c \in P[d] /\ d \in P[c] => c = d

Fitting(S, v, P, amount) == { c \in S : Total(v, P[c]) <= amount }

Rest(S, v, P, amount) == amount - Total(v, Fitting(S, v, P, amount))

IsNearest(c, S, v, P, rest) ==
    c \in S /\ v[c] >= rest /\ \A d \in S : c \in P[d] /\ c # d => v[d] < rest

LEMMA LastInOrder ==
    ASSUME NEW S, IsFiniteSet(S), NEW v, NEW P, InOrder(S, v, P),
           NEW F \in SUBSET S, F # {}
    PROVE  \E m \in F : F \subseteq P[m]
<1> DEFINE B == { F \ P[c] : c \in F }
<1>1. IsFiniteSet(F)
  BY FS_Subset
<1>2. \E T \in B : /\ IsFiniteSet(T)
                   /\ \A U \in SUBSET T : U # T => U \notin B
  <2>1. B \in SUBSET (SUBSET F) /\ B # {}
    OBVIOUS
  <2> HIDE DEF B
  <2> QED
    BY <1>1, <2>1, SmallestSet
<1>3. PICK c \in F : \A U \in SUBSET (F \ P[c]) : U # F \ P[c] => U \notin B
  BY <1>2
<1>4. ASSUME NEW d \in F, d \notin P[c]
      PROVE  FALSE
  <2>1. c \in P[d] /\ P[c] \subseteq P[d] /\ d \in P[d]
    BY <1>4 DEF InOrder
  <2> QED
    BY <1>3, <1>4, <2>1
<1> QED
  BY <1>4

LEMMA FirstInOrder ==
    ASSUME NEW S, IsFiniteSet(S), NEW v, NEW P, InOrder(S, v, P),
           NEW F \in SUBSET S, F # {}
    PROVE  \E m \in F : F \cap P[m] = {m}
<1> DEFINE B == { P[c] : c \in F }
<1>1. \E T \in B : /\ IsFiniteSet(T)
                   /\ \A U \in SUBSET T : U # T => U \notin B
  <2>1. B \in SUBSET (SUBSET S) /\ B # {}
    BY DEF InOrder
  <2> HIDE DEF B
  <2> QED
    BY <2>1, SmallestSet
<1>2. PICK c \in F : \A U \in SUBSET P[c] : U # P[c] => U \notin B
  BY <1>1
<1>3. ASSUME NEW d \in F, d \in P[c], d # c
      PROVE  FALSE
  <2>1. P[d] \subseteq P[c] /\ c \in P[c] /\ c \notin P[d]
    BY <1>3 DEF InOrder
  <2> QED
    BY <1>2, <2>1
<1>4. c \in P[c]
  BY DEF InOrder
<1> QED
  BY <1>3, <1>4

(* What fits is a beginning of the list, and it does not cost too much.    *)
LEMMA FittingFits ==
    ASSUME NEW S, IsFiniteSet(S), NEW v, NEW P, InOrder(S, v, P),
           NEW amount \in Nat
    PROVE  LET F == Fitting(S, v, P, amount)
           IN  /\ F \subseteq S /\ Total(v, F) \in Nat
               /\ \A c \in F : P[c] \subseteq F
               /\ Rest(S, v, P, amount) \in Nat
<1> DEFINE F == Fitting(S, v, P, amount)
<1>1. F \in SUBSET S /\ F \subseteq S
  BY DEF Fitting
<1>2. \A T \in SUBSET S : IsFiniteSet(T) /\ Total(v, T) \in Nat
  <2> TAKE T \in SUBSET S
  <2>1. IsFiniteSet(T) /\ \A x \in T : v[x] \in Int /\ v[x] >= 0
    BY FS_Subset DEF InOrder
  <2>2. Total(v, T) \in Int /\ Total(v, T) >= 0
    BY <2>1, TotalInt
  <2> QED
    BY <2>1, <2>2
<1>3. ASSUME NEW c \in F, NEW d \in P[c]
      PROVE  d \in F
  <2>1. c \in S /\ d \in S /\ P[d] \in SUBSET P[c] /\ P[c] \in SUBSET S
    BY <1>1, <1>3 DEF InOrder
  <2>2. \A x \in P[c] : v[x] \in Nat
    BY <2>1 DEF InOrder
  <2>3. Total(v, P[d]) <= Total(v, P[c]) /\ Total(v, P[c]) <= amount
    BY <1>2, <2>1, <2>2, TotalPart DEF Fitting
  <2>4. Total(v, P[d]) \in Nat /\ Total(v, P[c]) \in Nat
    BY <1>2, <2>1
  <2> QED
    BY <2>1, <2>3, <2>4 DEF Fitting
<1>4. Total(v, F) <= amount
  <2>1. CASE F = {}
    BY <2>1, TotalEmpty
  <2>2. CASE F # {}
    <3>1. PICK m \in F : F \subseteq P[m]
      BY <1>1, <2>2, LastInOrder
    <3>2. F = P[m]
      BY <1>3, <3>1
    <3> QED
      BY <3>1, <3>2 DEF Fitting
  <2> QED
    BY <2>1, <2>2
<1>5. Total(v, F) \in Nat
  BY <1>1, <1>2
<1> QED
  BY <1>1, <1>3, <1>4, <1>5 DEF Rest

(* When something is left to pay, the first utxo that does not fit is      *)
(* worth more than that.                                                   *)
LEMMA FirstUnfit ==
    ASSUME NEW S, IsFiniteSet(S), NEW v, NEW P, InOrder(S, v, P),
           NEW amount \in Nat, Total(v, S) >= amount,
           Rest(S, v, P, amount) > 0
    PROVE  \E c \in S : /\ c \notin Fitting(S, v, P, amount)
                        /\ P[c] = Fitting(S, v, P, amount) \cup {c}
                        /\ v[c] > Rest(S, v, P, amount)
<1> DEFINE F == Fitting(S, v, P, amount)
           rest == Rest(S, v, P, amount)
<1>1. /\ F \subseteq S /\ Total(v, F) \in Nat /\ rest \in Nat
      /\ \A c \in F : P[c] \subseteq F
  BY FittingFits
<1>2. rest = amount - Total(v, F)
  BY DEF Rest
<1>3. Total(v, F) < amount
  BY <1>1, <1>2
<1>4. S \ F # {} /\ S \ F \in SUBSET S
  <2>1. F # S
    BY <1>1, <1>3
  <2> QED
    BY <1>1, <2>1
<1>5. PICK c \in S \ F : (S \ F) \cap P[c] = {c}
  <2> DEFINE G == S \ F
  <2>1. G # {} /\ G \in SUBSET S
    BY <1>4
  <2> HIDE DEF G
  <2>2. \E c \in G : G \cap P[c] = {c}
    BY <2>1, FirstInOrder
  <2> QED
    BY <2>2 DEF G
<1>6. P[c] = F \cup {c}
  <2>1. P[c] \subseteq F \cup {c} /\ c \in P[c]
    BY <1>5 DEF InOrder
  <2>2. ASSUME NEW d \in F PROVE d \in P[c]
    <3>1. c \notin P[d]
      BY <1>1, <1>5
    <3> QED
      BY <1>1, <3>1 DEF InOrder
  <2> QED
    BY <2>1, <2>2
<1>7. Total(v, F \cup {c}) = v[c] + Total(v, F) /\ v[c] \in Nat
  <2>1. IsFiniteSet(F)
    BY <1>1, FS_Subset
  <2>2. c \notin F /\ v[c] \in Nat /\ \A x \in F \cup {c} : v[x] \in Int
    BY <1>1, <1>5 DEF InOrder
  <2> HIDE DEF F
  <2> QED
    BY <2>1, <2>2, TotalAdd
<1>8. ~(Total(v, P[c]) <= amount)
  BY <1>5 DEF Fitting
<1>9. v[c] + Total(v, F) > amount
  BY <1>1, <1>6, <1>7, <1>8
<1>10. v[c] > rest
  <2> HIDE DEF rest, F
  <2> QED
    BY <1>1, <1>2, <1>7, <1>9
<1> QED
  BY <1>5, <1>6, <1>10

(* There is one utxo nearest to what is left; it is not among those that   *)
(* fit, and with it the amount is covered.                                 *)
LEMMA NearestCovers ==
    ASSUME NEW S, IsFiniteSet(S), NEW v, NEW P, InOrder(S, v, P),
           NEW amount \in Nat, Total(v, S) >= amount,
           Rest(S, v, P, amount) > 0
    PROVE  LET F == Fitting(S, v, P, amount)
               rest == Rest(S, v, P, amount)
           IN  /\ \E c \in S : IsNearest(c, S, v, P, rest)
               /\ \A c, d : IsNearest(c, S, v, P, rest)
                              /\ IsNearest(d, S, v, P, rest) => c = d
               /\ \A c : IsNearest(c, S, v, P, rest) =>
                      c \notin F /\ Total(v, F \cup {c}) >= amount
<1> DEFINE F == Fitting(S, v, P, amount)
           rest == Rest(S, v, P, amount)
<1>1. F \subseteq S /\ Total(v, F) \in Nat /\ rest \in Nat
  BY FittingFits
<1>2. rest = amount - Total(v, F)
  BY DEF Rest
<1>3. PICK u \in S : u \notin F /\ P[u] = F \cup {u} /\ v[u] > rest
  BY FirstUnfit
<1> HIDE DEF F, rest
<1>4. \E c \in S : IsNearest(c, S, v, P, rest)
  <2> DEFINE G == { c \in S : v[c] >= rest }
  <2>1. u \in G /\ G \in SUBSET S
    BY <1>1, <1>3 DEF InOrder
  <2>2. PICK m \in G : G \subseteq P[m]
    <3> HIDE DEF G
    <3>1. \E m \in G : G \subseteq P[m]
      BY <2>1, LastInOrder
    <3> QED
      BY <3>1
  <2>3. ASSUME NEW d \in S, m \in P[d], m # d
        PROVE  v[d] < rest
    <3>1. d \notin G
      BY <2>2, <2>3 DEF InOrder
    <3> QED
      BY <1>1, <3>1 DEF InOrder
  <2> QED
    BY <2>2, <2>3 DEF IsNearest
<1>5. ASSUME NEW c, NEW d, IsNearest(c, S, v, P, rest), IsNearest(d, S, v, P, rest)
      PROVE  c = d
  <2>1. c \in S /\ d \in S /\ v[c] \in Nat /\ v[d] \in Nat
    BY <1>5 DEF IsNearest, InOrder
  <2>2. c \in P[d] \/ d \in P[c]
    BY <2>1 DEF InOrder
  <2> QED
    BY <1>1, <1>5, <2>1, <2>2 DEF IsNearest
<1>6. ASSUME NEW c, IsNearest(c, S, v, P, rest)
      PROVE  c \notin F /\ Total(v, F \cup {c}) >= amount
  <2>1. c \in S /\ v[c] >= rest /\ v[c] \in Nat /\ v[u] \in Nat
    BY <1>3, <1>6 DEF IsNearest, InOrder
  <2>2. c \notin F
    <3> SUFFICES ASSUME c \in F PROVE FALSE
      OBVIOUS
    <3>1. c \in P[u] /\ c # u
      BY <1>3
    <3>2. v[u] < rest
      BY <1>6, <3>1 DEF IsNearest
    <3> QED
      BY <1>1, <1>3, <2>1, <3>2
  <2>3. IsFiniteSet(F) /\ \A x \in F \cup {c} : v[x] \in Int
    BY <1>1, <2>1, FS_Subset DEF InOrder
  <2>4. Total(v, F \cup {c}) = v[c] + Total(v, F)
    BY <2>2, <2>3, TotalAdd
  <2> QED
    BY <1>1, <1>2, <2>1, <2>2, <2>4
<1> QED
  BY <1>4, <1>5, <1>6 DEF F, rest

=============================================================================
