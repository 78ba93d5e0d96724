------------------------- MODULE CoinSelectionProofs -------------------------
(***************************************************************************)
(* What GetTransactionInputs promises for every list of utxos and every    *)
(* amount, as long as its float64 subtractions are exact.                  *)
(***************************************************************************)
EXTENDS CoinSelection, CoinChoiceProofs, TLAPS

(* The utxos taken by the first loop are the first ones of the list.       *)
Prefix(k) == k = Len(inputs) /\ \A j \in DOMAIN inputs : inputs[j] = j

CoinTypeOK ==
    /\ pc \in {"start", "take", "near", "done", "refused"}
    /\ unspents \in Lists
    /\ amount \in Amounts
    /\ i \in 0..Len(unspents)
    /\ a \in Int
    /\ sum \in Int
    /\ inputs \in Seq(DOMAIN unspents)

StartInv == pc = "start" => i = 0 /\ a = amount /\ sum = 0 /\ inputs = <<>>

(* What was taken and what is left to pay make up the amount.              *)
Taking ==
    /\ a >= 0
    /\ sum + a = amount
    /\ Prefix(i)
    /\ sum = Upto[unspents][i]
    /\ available >= amount

TakeInv == pc = "take" => Taking

(* Something is left to pay, and there is a utxo that covers it: one that  *)
(* the second loop has passed, or the next one.                            *)
Nearing ==
    /\ a > 0
    /\ sum + a = amount
    /\ Prefix(Len(inputs))
    /\ Len(inputs) <= i
    /\ Len(inputs) = i => Covers
    /\ \A j \in 1..i : j > Len(inputs) => unspents[j] >= a

NearInv == pc = "near" => Nearing

DoneInv ==
    pc = "done" =>
        /\ sum >= amount
        /\ \A j, k \in DOMAIN inputs : inputs[j] = inputs[k] => j = k
        /\ \A j \in Used : sum - unspents[j] < amount

CoinInv == CoinTypeOK /\ StartInv /\ TakeInv /\ NearInv /\ DoneInv

-----------------------------------------------------------------------------

LEMMA ListFacts ==
    ASSUME NEW l \in Lists
    PROVE  /\ l \in Seq(Nat)
           /\ Len(l) \in Nat
           /\ \A j \in 1..Len(l) : l[j] \in Nat /\ l[j] > 0
           /\ \A j, k \in 1..Len(l) : j < k => l[j] >= l[k]
           /\ Upto[l][0] = 0
           /\ \A j \in 0..Len(l) : Upto[l][j] \in Nat
           /\ \A j \in 1..Len(l) : Upto[l][j] = Upto[l][j - 1] + l[j]
BY ListAssumption, UptoAssumption

LEMMA NumberFacts ==
    ASSUME CoinTypeOK
    PROVE  /\ Len(unspents) \in Nat /\ Len(inputs) \in Nat
           /\ i \in Nat /\ i <= Len(unspents)
           /\ a \in Int /\ sum \in Int /\ amount \in Nat
<1>1. unspents \in Lists /\ amount \in Nat
  BY AmountAssumption DEF CoinTypeOK
<1>2. Len(unspents) \in Nat
  BY <1>1, ListFacts
<1>. QED
  BY <1>1, <1>2 DEF CoinTypeOK

LEMMA TypeFacts ==
    ASSUME CoinTypeOK
    PROVE  /\ unspents \in Seq(Nat)
           /\ \A j \in 1..Len(unspents) : unspents[j] \in Nat /\ unspents[j] > 0
           /\ \A j, k \in 1..Len(unspents) : j < k => unspents[j] >= unspents[k]
           /\ DOMAIN unspents = 1..Len(unspents)
           /\ inputs \in Seq(1..Len(unspents))
           /\ DOMAIN inputs = 1..Len(inputs)
<1>1. unspents \in Lists
  BY DEF CoinTypeOK
<1>2. unspents \in Seq(Nat) /\ DOMAIN unspents = 1..Len(unspents)
  BY <1>1, ListFacts
<1>3. inputs \in Seq(1..Len(unspents))
  BY <1>2 DEF CoinTypeOK
<1>4. DOMAIN inputs = 1..Len(inputs)
  BY <1>3
<1>. QED
  BY <1>1, <1>2, <1>3, <1>4, ListFacts

LEMMA StartStep ==
    ASSUME CoinInv, Start PROVE CoinInv'
<1>1. CoinTypeOK'
  BY DEF Start, CoinInv, CoinTypeOK
<1>2. /\ i = 0 /\ a = amount /\ sum = 0 /\ inputs = <<>>
      /\ UNCHANGED <<unspents, amount, i, a, inputs, sum>>
  BY DEF Start, CoinInv, StartInv
<1>3. amount \in Nat /\ unspents \in Lists /\ available \in Int
  <2>1. unspents \in Lists /\ Len(unspents) \in 0..Len(unspents)
    BY NumberFacts DEF CoinInv, CoinTypeOK
  <2>. QED
    BY <2>1, NumberFacts, ListFacts DEF CoinInv, available
<1>4. StartInv' /\ NearInv'
  BY DEF Start, StartInv, NearInv
<1>5. TakeInv'
  BY <1>2, <1>3, ListFacts DEF Start, TakeInv, Taking, Prefix, available
<1>6. DoneInv'
  BY <1>2, <1>3 DEF Start, DoneInv, Used
<1>. QED
  BY <1>1, <1>4, <1>5, <1>6 DEF CoinInv

(* Only here does it matter that the subtraction is exact.                 *)
LEMMA TakeStep ==
    ASSUME Errors = {0}, CoinInv, Take PROVE CoinInv'
<1> DEFINE L == Len(unspents)
           c == i + 1
<1>1. CoinTypeOK /\ Taking
  BY DEF Take, CoinInv, TakeInv
<1>2. /\ c \in 1..L /\ unspents[c] \in Nat /\ unspents[c] <= a
      /\ UNCHANGED <<pc, unspents, amount>> /\ pc = "take"
      /\ inputs' = Append(inputs, c) /\ sum' = sum + unspents[c] /\ i' = c
  BY <1>1, NumberFacts, TypeFacts DEF Take, Fits
<1>3. a' = a - unspents[c]
  <2>1. PICK e \in Errors : a' = a - unspents[c] + e
    BY DEF Take
  <2>. QED
    BY <1>1, <1>2, <2>1, NumberFacts, TypeFacts
<1>4. /\ inputs' \in Seq(1..L) /\ Len(inputs') = c
      /\ \A j \in 1..c : inputs'[j] = j
      /\ DOMAIN inputs' = 1..c
  <2>1. inputs \in Seq(1..L) /\ Len(inputs) = i /\ \A j \in 1..i : inputs[j] = j
    BY <1>1, NumberFacts, TypeFacts DEF Taking, Prefix
  <2>2. inputs' \in Seq(1..L) /\ Len(inputs') = c
    BY <1>1, <1>2, <2>1, NumberFacts
  <2>3. ASSUME NEW j \in 1..c PROVE inputs'[j] = j
    <3>1. j \in 1..i \/ j = c
      BY <1>1, NumberFacts
    <3>. QED
      BY <1>1, <1>2, <2>1, <3>1, NumberFacts
  <2>. QED
    BY <2>2, <2>3
<1>5. CoinTypeOK'
  <2>1. unspents' \in Lists /\ amount' \in Amounts /\ pc' = "take"
    BY <1>1, <1>2 DEF CoinTypeOK
  <2>2. i' \in 0..Len(unspents')
    BY <1>1, <1>2, NumberFacts
  <2>3. a' \in Int /\ sum' \in Int
    BY <1>1, <1>2, <1>3, NumberFacts
  <2>4. inputs' \in Seq(DOMAIN unspents')
    BY <1>1, <1>2, <1>4, NumberFacts, TypeFacts
  <2>. QED
    BY <2>1, <2>2, <2>3, <2>4 DEF CoinTypeOK
<1>6. Taking'
  <2>1. a' >= 0 /\ sum' + a' = amount'
    <3>1. amount' = amount /\ sum + a = amount
      BY <1>1, <1>2 DEF Taking
    <3>2. a \in Int /\ sum \in Int
      BY <1>1, NumberFacts
    <3>. QED
      BY <1>2, <1>3, <3>1, <3>2
  <2>2. Prefix(i)'
    BY <1>2, <1>4 DEF Prefix
  <2>3. sum' = Upto[unspents'][i']
    <3>1. unspents \in Lists /\ c - 1 = i
      BY <1>1, <1>2, NumberFacts, TypeFacts DEF CoinTypeOK
    <3>2. Upto[unspents][c] = Upto[unspents][i] + unspents[c]
      BY <1>2, <3>1, ListFacts
    <3>. QED
      BY <1>1, <1>2, <3>2 DEF Taking
  <2>4. available' >= amount'
    BY <1>1, <1>2 DEF Taking, available
  <2>. QED
    BY <2>1, <2>2, <2>3, <2>4 DEF Taking
<1>. QED
  BY <1>2, <1>5, <1>6 DEF CoinInv, StartInv, TakeInv, NearInv, DoneInv

LEMMA EndTakeStep ==
    ASSUME CoinInv, EndTake PROVE CoinInv'
<1> DEFINE L == Len(unspents)
<1>1. CoinTypeOK /\ Taking
  BY DEF EndTake, CoinInv, TakeInv
<1>2. UNCHANGED <<unspents, amount, i, a, inputs, sum>>
  BY DEF EndTake
<1>3. CoinTypeOK'
  BY <1>1 DEF EndTake, CoinTypeOK
<1>4. /\ Len(inputs) = i
      /\ \A j \in 1..i : inputs[j] = j
      /\ DOMAIN inputs = 1..i
  BY <1>1, NumberFacts, TypeFacts DEF Taking, Prefix
<1>5. ASSUME pc' = "near" PROVE Nearing'
  <2>1. a > 0
    BY <1>1, <1>5, NumberFacts, TypeFacts DEF EndTake, Taking
  <2>2. i # L
    <3>1. SUFFICES ASSUME i = L PROVE FALSE
      OBVIOUS
    <3>2. sum >= amount
      BY <1>1, <3>1 DEF Taking, available
    <3>. QED
      BY <1>1, <2>1, <3>2, NumberFacts, TypeFacts DEF Taking
  <2>3. i + 1 \in 1..L
    BY <1>1, <2>2, NumberFacts, TypeFacts
  <2>4. Covers
    BY <1>1, <2>3, NumberFacts, TypeFacts DEF EndTake, Fits, Covers
  <2>5. Nearing
    BY <1>1, <1>4, <2>1, <2>4, NumberFacts, TypeFacts DEF Taking, Nearing, Prefix
  <2>. QED
    BY <1>2, <2>5 DEF Nearing, Prefix, Covers
<1>6. ASSUME pc' = "done" PROVE DoneInv'
  <2>1. sum = amount
    BY <1>1, <1>6, NumberFacts, TypeFacts DEF EndTake, Taking
  <2>2. \A j \in Used : sum - unspents[j] < amount
    <3> SUFFICES ASSUME NEW j \in Used PROVE sum - unspents[j] < amount
      OBVIOUS
    <3>1. j \in 1..L
      BY <1>1, <1>4, NumberFacts, TypeFacts DEF Used
    <3>. QED
      BY <1>1, <2>1, <3>1, NumberFacts, TypeFacts
  <2>3. sum >= amount
    BY <1>1, <2>1, NumberFacts, TypeFacts
  <2>. QED
    BY <1>2, <1>4, <2>2, <2>3 DEF DoneInv, Used
<1>. QED
  BY <1>3, <1>5, <1>6
     DEF EndTake, CoinInv, StartInv, TakeInv, NearInv, DoneInv

LEMMA SkipStep ==
    ASSUME CoinInv, Skip PROVE CoinInv'
<1> DEFINE L == Len(unspents)
<1>1. CoinTypeOK /\ Nearing
  BY DEF Skip, CoinInv, NearInv
<1>2. /\ i + 1 \in 1..L /\ unspents[i + 1] >= a /\ i' = i + 1
      /\ UNCHANGED <<pc, unspents, amount, a, inputs, sum>> /\ pc = "near"
  BY <1>1, NumberFacts, TypeFacts DEF Skip, Covers
<1>3. CoinTypeOK'
  BY <1>1, <1>2 DEF CoinTypeOK
<1>4. Nearing'
  <2>1. Len(inputs) <= i' /\ Len(inputs) # i'
    BY <1>1, <1>2, NumberFacts, TypeFacts DEF Nearing
  <2>2. \A j \in 1..i' : j > Len(inputs) => unspents[j] >= a
    <3> SUFFICES ASSUME NEW j \in 1..i', j > Len(inputs)
                 PROVE  unspents[j] >= a
      OBVIOUS
    <3>1. j \in 1..i \/ j = i + 1
      BY <1>1, <1>2, NumberFacts, TypeFacts
    <3>. QED
      BY <1>1, <1>2, <3>1 DEF Nearing
  <2>. QED
    BY <1>1, <1>2, <2>1, <2>2 DEF Nearing, Prefix
<1>. QED
  BY <1>2, <1>3, <1>4 DEF CoinInv, StartInv, TakeInv, NearInv, DoneInv

(* The utxo before the one at which the loop stopped has been passed by    *)
(* the second loop: it was not taken, and it covers the rest.              *)
LEMMA TakeNearestStep ==
    ASSUME CoinInv, TakeNearest PROVE CoinInv'
<1> DEFINE L == Len(unspents)
           m == Len(inputs)
<1>1. CoinTypeOK /\ Nearing
  BY DEF TakeNearest, CoinInv, NearInv
<1>2. m \in Nat /\ m < i /\ i \in 1..L /\ unspents[i] >= a
  <2>1. m \in Nat /\ m < i /\ i \in 1..L
    BY <1>1, NumberFacts DEF TakeNearest, Nearing
  <2>. QED
    BY <1>1, <2>1 DEF Nearing
<1>3. /\ inputs' = Append(inputs, i) /\ sum' = sum + unspents[i]
      /\ UNCHANGED <<unspents, amount, i, a>> /\ pc' = "done"
  BY DEF TakeNearest
<1>4. /\ inputs' \in Seq(1..L) /\ Len(inputs') = m + 1
      /\ \A j \in 1..m : inputs'[j] = j
      /\ inputs'[m + 1] = i
      /\ DOMAIN inputs' = 1..(m + 1)
  <2>1. inputs \in Seq(1..L) /\ \A j \in 1..m : inputs[j] = j
    BY <1>1, NumberFacts, TypeFacts DEF Nearing, Prefix
  <2>. QED
    BY <1>2, <1>3, <2>1
<1>5. CoinTypeOK'
  <2>1. sum' \in Int
    BY <1>1, <1>2, <1>3, NumberFacts, TypeFacts
  <2>2. inputs' \in Seq(DOMAIN unspents')
    BY <1>1, <1>3, <1>4, NumberFacts, TypeFacts
  <2>. QED
    BY <1>1, <1>3, <2>1, <2>2 DEF CoinTypeOK
<1>6. sum' >= amount
  <2>1. unspents[i] \in Nat
    BY <1>1, <1>2, NumberFacts, TypeFacts
  <2>. QED
    BY <1>1, <1>2, <1>3, <2>1, NumberFacts DEF Nearing
<1>7. \A j, k \in DOMAIN inputs' : inputs'[j] = inputs'[k] => j = k
  <2> SUFFICES ASSUME NEW j \in 1..(m + 1), NEW k \in 1..(m + 1),
                      inputs'[j] = inputs'[k]
               PROVE  j = k
    BY <1>4
  <2>1. (j \in 1..m \/ j = m + 1) /\ (k \in 1..m \/ k = m + 1)
    BY <1>2
  <2>. QED
    BY <1>2, <1>4, <2>1
<1>8. \A j \in Used' : sum' - unspents[j] < amount
  <2> SUFFICES ASSUME NEW k \in 1..(m + 1)
               PROVE  sum' - unspents[inputs'[k]] < amount
    BY <1>4 DEF Used
  <2>1. inputs'[k] \in 1..i
    <3>1. k \in 1..m \/ k = m + 1
      BY <1>2
    <3>. QED
      BY <1>2, <1>4, <3>1
  <2>2. inputs'[k] \in 1..L
    BY <1>2, <2>1
  <2>3. unspents[inputs'[k]] \in Nat /\ unspents[inputs'[k]] >= unspents[i]
    <3>1. inputs'[k] = i \/ inputs'[k] < i
      BY <1>2, <2>1
    <3>. QED
      BY <1>1, <1>2, <2>2, <3>1, NumberFacts, TypeFacts
  <2>4. unspents[i] \in Nat
    BY <1>1, <1>2, NumberFacts, TypeFacts
  <2>. QED
    BY <1>1, <1>2, <1>3, <2>2, <2>3, <2>4, NumberFacts DEF Nearing
<1>9. DoneInv'
  BY <1>3, <1>6, <1>7, <1>8 DEF DoneInv
<1>. QED
  BY <1>3, <1>5, <1>9 DEF CoinInv, StartInv, TakeInv, NearInv

LEMMA CoinStep ==
    ASSUME Errors = {0}, CoinInv, [Next]_vars
    PROVE  CoinInv'
<1>1. CASE UNCHANGED vars
  BY <1>1 DEF vars, CoinInv, CoinTypeOK, StartInv, TakeInv, Taking, NearInv,
              Nearing, DoneInv, Prefix, Covers, Used, available
<1>. QED
  BY <1>1, StartStep, TakeStep, EndTakeStep, SkipStep, TakeNearestStep DEF Next

LEMMA CoinAlways == ASSUME Errors = {0} PROVE Spec => []CoinInv
<1>1. Init => CoinInv
  <2> SUFFICES ASSUME Init PROVE CoinInv
    OBVIOUS
  <2>1. Len(unspents) \in Nat /\ amount \in Nat
    BY ListFacts, AmountAssumption DEF Init
  <2>. QED
    BY <2>1 DEF Init, CoinInv, CoinTypeOK, StartInv, TakeInv, NearInv, DoneInv
<1>2. CoinInv /\ [Next]_vars => CoinInv'
  BY CoinStep
<1>. QED
  BY <1>1, <1>2, PTL DEF Spec

(* The inputs that are returned cover the amount, so that the transaction  *)
(* pays its fee and unspents[i-1] never reaches before the list.           *)
THEOREM InputsCover == ASSUME Errors = {0} PROVE Spec => []CoversAmount
<1>1. CoinInv => CoversAmount
  BY DEF CoinInv, DoneInv, CoversAmount
<1>. QED
  BY <1>1, CoinAlways, PTL

(* No utxo is among the inputs twice.                                      *)
THEOREM InputsDistinct == ASSUME Errors = {0} PROVE Spec => []NoCoinTwice
<1>1. CoinInv => NoCoinTwice
  BY DEF CoinInv, DoneInv, NoCoinTwice
<1>. QED
  BY <1>1, CoinAlways, PTL

(* No utxo is spent for nothing.                                           *)
THEOREM InputsNeeded == ASSUME Errors = {0} PROVE Spec => []EveryInputNeeded
<1>1. CoinInv => EveryInputNeeded
  BY DEF CoinInv, DoneInv, EveryInputNeeded
<1>. QED
  BY <1>1, CoinAlways, PTL

-----------------------------------------------------------------------------
(* TakesChosen                                                             *)

(* The utxos up to each one, in the order of the list.                     *)
UpToEach(l) == [j \in 1..Len(l) |-> 1..j]

LEMMA ListOrder ==
    ASSUME NEW l \in Lists
    PROVE  /\ InOrder(1..Len(l), l, UpToEach(l)) /\ IsFiniteSet(1..Len(l))
           /\ DOMAIN l = 1..Len(l)
<1>1. /\ Len(l) \in Nat /\ DOMAIN l = 1..Len(l)
      /\ \A j \in 1..Len(l) : l[j] \in Nat
      /\ \A j, k \in 1..Len(l) : j < k => l[j] >= l[k]
  BY ListFacts
<1>2. IsFiniteSet(1..Len(l))
  BY <1>1, FS_Interval
<1>3. \A j \in 1..Len(l) : UpToEach(l)[j] = 1..j
  BY DEF UpToEach
<1>4. \A j, k \in 1..Len(l) : j \in 1..k <=> j <= k
  BY <1>1
<1>5. \A j, k \in 1..Len(l) : j <= k => 1..j \subseteq 1..k /\ l[j] >= l[k]
  <2> TAKE j, k \in 1..Len(l)
  <2>1. j = k => l[j] >= l[k]
    BY <1>1
  <2> QED
    BY <1>1, <2>1
<1>6. \A j \in 1..Len(l) : 1..j \subseteq 1..Len(l) /\ j \in 1..j
  BY <1>1
<1> QED
  BY <1>1, <1>2, <1>3, <1>4, <1>5, <1>6 DEF InOrder

(* Upto is the sum of the first utxos.                                     *)
LEMMA UptoTotal ==
    ASSUME NEW l \in Lists
    PROVE  \A j \in 0..Len(l) : Total(l, 1..j) = Upto[l][j]
<1> DEFINE B == { j \in 0..Len(l) : Total(l, 1..j) # Upto[l][j] }
<1>1. Len(l) \in Nat /\ B \in SUBSET Nat
  BY ListFacts
<1> SUFFICES ASSUME B # {} PROVE FALSE
  OBVIOUS
<1>2. PICK k \in B : \A j \in 0..(k - 1) : j \notin B
  <2> HIDE DEF B
  <2>1. \E k \in B : \A j \in 0..(k - 1) : j \notin B
    BY <1>1, SmallestNumber
  <2> QED
    BY <2>1
<1>3. k # 0
  <2>1. 1..0 = {}
    OBVIOUS
  <2>2. Total(l, 1..0) = Upto[l][0]
    BY <2>1, TotalEmpty, ListFacts
  <2> QED
    BY <2>2
<1>4. /\ k \in 1..Len(l) /\ k - 1 \in 0..Len(l) /\ k - 1 \in 0..(k - 1)
      /\ 1..k = (1..(k - 1)) \cup {k} /\ k \notin 1..(k - 1)
  BY <1>1, <1>3
<1>5. Total(l, 1..(k - 1)) = Upto[l][k - 1]
  BY <1>2, <1>4
<1> DEFINE R == 1..(k - 1)
<1>6. IsFiniteSet(R) /\ k \notin R /\ \A x \in R \cup {k} : l[x] \in Int
  <2>1. 1 \in Int /\ k - 1 \in Int
    BY <1>1, <1>4
  <2>2. IsFiniteSet(R)
    BY <2>1, FS_Interval
  <2>3. \A x \in 1..Len(l) : l[x] \in Int
    BY ListFacts
  <2> QED
    BY <1>1, <1>4, <2>2, <2>3
<1>7. Total(l, R \cup {k}) = l[k] + Total(l, R)
  <2> HIDE DEF R
  <2> QED
    BY <1>6, TotalAdd
<1>8. Total(l, 1..k) = l[k] + Upto[l][k - 1]
  BY <1>4, <1>5, <1>7
<1>9. Upto[l][k] = Upto[l][k - 1] + l[k] /\ Upto[l][k - 1] \in Nat /\ l[k] \in Nat
  BY <1>4, ListFacts
<1> QED
  BY <1>8, <1>9

LEMMA UptoGrows ==
    ASSUME NEW l \in Lists, NEW j \in 0..Len(l), NEW k \in 0..Len(l), j <= k
    PROVE  Upto[l][j] <= Upto[l][k]
<1> DEFINE J == 1..j
           K == 1..k
<1>1. Len(l) \in Nat /\ \A x \in 1..Len(l) : l[x] \in Nat
  BY ListFacts
<1>2. IsFiniteSet(K) /\ J \in SUBSET K /\ \A x \in K : l[x] \in Nat
  <2>1. 1 \in Int /\ k \in Int
    BY <1>1
  <2>2. IsFiniteSet(K)
    BY <2>1, FS_Interval
  <2> QED
    BY <1>1, <2>2
<1>3. Total(l, J) = Upto[l][j] /\ Total(l, K) = Upto[l][k]
  BY UptoTotal
<1> HIDE DEF J, K
<1>4. Total(l, J) <= Total(l, K)
  BY <1>2, TotalPart
<1> QED
  BY <1>3, <1>4

(* The formula on a list.                                                  *)
ChosenOf(l, value) == Chosen(l, LAMBDA j, k : j < k, value)

(* The utxos that fit in the amount are the first k.                       *)
FitFirst(k) ==
    \A c \in 1..Len(unspents) : Upto[unspents][c] <= amount <=> c <= k

(* The formula, where the first k utxos fit.                               *)
LEMMA ChosenFirst ==
    ASSUME CoinTypeOK, available >= amount, NEW k \in 0..Len(unspents),
           FitFirst(k)
    PROVE  LET rest == amount - Upto[unspents][k]
               chosen == ChosenOf(unspents, amount)
           IN  /\ rest = 0 => chosen = 1..k
               /\ \A c \in 1..Len(unspents) :
                      /\ rest > 0 /\ unspents[c] >= rest
                      /\ \A d \in 1..Len(unspents) : c < d => unspents[d] < rest
                      => chosen = (1..k) \cup {c}
<1> DEFINE l == unspents
           S == 1..Len(l)
           P == UpToEach(l)
           F == Fitting(S, l, P, amount)
           rest == Rest(S, l, P, amount)
           D == DOMAIN l
           Fit == { c \in D : Total(l, { d \in D : d = c \/ d < c }) <= amount }
           Left == amount - Total(l, Fit)
           Near(c) == /\ l[c] >= Left
                      /\ \A d \in D : c < d => l[d] < Left
           nearest == CHOOSE c \in D : Near(c)
           chosen == ChosenOf(l, amount)
<1>1. l \in Lists /\ amount \in Nat /\ Len(l) \in Nat
  BY NumberFacts DEF CoinTypeOK
<1>2. InOrder(S, l, P) /\ IsFiniteSet(S) /\ D = S
  BY <1>1, ListOrder
<1>3. \A c \in S : P[c] = 1..c /\ { d \in S : d = c \/ d < c } = 1..c
  BY <1>1 DEF UpToEach
<1>4. Fit = F /\ Left = rest
  BY <1>2, <1>3 DEF Fitting, Rest
<1>5. F = 1..k
  <2>1. \A c \in S : Total(l, P[c]) = Upto[l][c]
    BY <1>1, <1>3, UptoTotal
  <2>2. F = { c \in S : c <= k }
    BY <2>1 DEF FitFirst, Fitting
  <2>3. { c \in S : c <= k } = 1..k
    BY <1>1
  <2> QED
    BY <2>2, <2>3
<1>6. rest = amount - Upto[l][k]
  BY <1>1, <1>5, UptoTotal DEF Rest
<1>7. chosen = Fit \cup IF Left = 0 THEN {} ELSE {nearest}
  BY Zenon DEF ChosenOf, Chosen
<1>8. \A c \in D : Near(c) <=> IsNearest(c, S, l, P, rest)
  <2>1. \A c, d \in S : c < d <=> c \in P[d] /\ c # d
    BY <1>1, <1>3
  <2> QED
    BY <1>2, <1>4, <2>1 DEF IsNearest
<1>9. Total(l, S) >= amount
  BY <1>1, UptoTotal DEF available
<1> HIDE DEF F, rest, D, Fit, Left, Near, nearest, chosen
<1>10. rest = 0 => chosen = 1..k
  BY <1>4, <1>5, <1>7
<1>11. ASSUME NEW c \in S, rest > 0, l[c] >= rest,
              \A d \in S : c < d => l[d] < rest
       PROVE  chosen = (1..k) \cup {c}
  <2>1. Near(c)
    BY <1>2, <1>4, <1>11 DEF Near
  <2>2. \A d \in D : Near(d) => d = c
    <3> HIDE DEF P, S, l
    <3>1. \A d, e : IsNearest(d, S, l, P, rest) /\ IsNearest(e, S, l, P, rest)
                       => d = e
      BY <1>1, <1>2, <1>9, <1>11, NearestCovers DEF rest
    <3> QED
      BY <1>2, <1>8, <1>11, <2>1, <3>1
  <2>3. nearest = c
    BY <1>2, <1>11, <2>1, <2>2 DEF nearest
  <2>4. Left # 0
    BY <1>4, <1>11
  <2> QED
    BY <1>4, <1>5, <1>7, <2>3, <2>4
<1> QED
  BY <1>6, <1>10, <1>11 DEF chosen

ChosenInv ==
    /\ pc = "near" =>
           /\ available >= amount /\ FitFirst(Len(inputs))
           /\ a = amount - Upto[unspents][Len(inputs)]
    /\ pc = "done" => Used = ChosenOf(unspents, amount)

LEMMA ChosenStart ==
    ASSUME CoinInv, Start PROVE ChosenInv'
<1>1. CoinTypeOK /\ inputs = <<>> /\ UNCHANGED <<unspents, amount, inputs>>
      /\ pc' # "near"
  BY DEF Start, CoinInv, StartInv
<1>2. unspents \in Lists /\ Len(unspents) \in Nat /\ amount \in Nat
  BY <1>1, NumberFacts DEF CoinTypeOK
<1>3. ASSUME amount = 0
      PROVE  Used = ChosenOf(unspents, amount)
  <2>1. ASSUME NEW c \in 1..Len(unspents)
        PROVE  Upto[unspents][c] > 0
    <3>1. /\ Upto[unspents][c] = Upto[unspents][c - 1] + unspents[c]
          /\ unspents[c] \in Nat /\ unspents[c] > 0 /\ c - 1 \in 0..Len(unspents)
      BY <1>2, <2>1, ListFacts
    <3>2. Upto[unspents][c - 1] \in Nat
      BY <1>2, <3>1, ListFacts
    <3> QED
      BY <3>1, <3>2
  <2>2. FitFirst(0)
    <3>1. \A c \in 1..Len(unspents) : Upto[unspents][c] \in Nat /\ ~(c <= 0)
      BY <1>2, ListFacts
    <3> QED
      BY <1>3, <2>1, <3>1 DEF FitFirst
  <2>3. available >= amount
    <3>1. Len(unspents) \in 0..Len(unspents)
      BY <1>2
    <3>2. Upto[unspents][Len(unspents)] \in Nat
      BY <1>2, <3>1, ListFacts
    <3> QED
      BY <1>3, <3>2 DEF available
  <2>4. amount - Upto[unspents][0] = 0 /\ 0 \in 0..Len(unspents)
    BY <1>2, <1>3, ListFacts
  <2>5. ChosenOf(unspents, amount) = 1..0
    BY <1>1, <2>2, <2>3, <2>4, ChosenFirst
  <2>6. Used = 1..0
    BY <1>1 DEF Used
  <2> QED
    BY <2>5, <2>6
<1>4. pc' = "done" => amount = 0
  BY DEF Start
<1> QED
  BY <1>1, <1>3, <1>4 DEF ChosenInv, Used

(* The first loop stops where the amount is reached.                       *)
LEMMA ChosenEndTake ==
    ASSUME CoinInv, EndTake PROVE ChosenInv'
<1>1. CoinTypeOK /\ Taking /\ ~Fits
      /\ UNCHANGED <<unspents, amount, i, a, inputs, sum>>
  BY DEF EndTake, CoinInv, TakeInv
<1>2. /\ unspents \in Lists /\ Len(unspents) \in Nat /\ amount \in Nat
      /\ i \in 0..Len(unspents) /\ a \in Nat /\ sum \in Int
      /\ sum + a = amount /\ sum = Upto[unspents][i] /\ available >= amount
      /\ Len(inputs) = i
  BY <1>1, NumberFacts DEF CoinTypeOK, Taking, Prefix
<1>3. FitFirst(i)
  <2> SUFFICES ASSUME NEW c \in 1..Len(unspents)
               PROVE  Upto[unspents][c] <= amount <=> c <= i
    BY DEF FitFirst
  <2>1. /\ Upto[unspents][c] \in Nat
        /\ c \in 0..Len(unspents)
    BY <1>2, ListFacts
  <2>2. CASE c <= i
    <3>1. Upto[unspents][c] <= sum
      BY <1>2, <2>1, <2>2, UptoGrows
    <3> QED
      BY <1>2, <2>1, <2>2, <3>1
  <2>3. CASE c > i
    <3>1. i + 1 \in 1..Len(unspents) /\ i + 1 \in 0..Len(unspents) /\ i + 1 <= c
          /\ (i + 1) - 1 = i
      BY <1>2, <2>3
    <3>2. unspents[i + 1] > a /\ unspents[i + 1] \in Nat
      BY <1>1, <1>2, <3>1, ListFacts DEF Fits
    <3>3. Upto[unspents][i + 1] = sum + unspents[i + 1]
      BY <1>2, <3>1, ListFacts
    <3>4. Upto[unspents][i + 1] <= Upto[unspents][c]
      BY <1>2, <2>1, <3>1, UptoGrows
    <3> QED
      BY <1>2, <2>1, <2>3, <3>2, <3>3, <3>4
  <2> QED
    BY <1>2, <2>2, <2>3
<1>4. Used = 1..i
  <2>1. DOMAIN inputs = 1..i /\ \A j \in 1..i : inputs[j] = j
    BY <1>1, <1>2, TypeFacts DEF Taking, Prefix
  <2> QED
    BY <2>1 DEF Used
<1>5. a = amount - Upto[unspents][i]
  BY <1>2
<1>6. a = 0 => Used = ChosenOf(unspents, amount)
  BY <1>1, <1>2, <1>3, <1>4, <1>5, ChosenFirst
<1>7. pc' = "done" => a = 0
  BY DEF EndTake
<1> QED
  BY <1>1, <1>2, <1>3, <1>5, <1>6, <1>7
     DEF ChosenInv, FitFirst, available, Used

(* The second loop stops after the last utxo that covers the rest.         *)
LEMMA ChosenNearest ==
    ASSUME CoinInv, ChosenInv, TakeNearest PROVE ChosenInv'
<1> DEFINE m == Len(inputs)
           L == Len(unspents)
<1>1. CoinTypeOK /\ Nearing /\ ~Covers
  BY DEF TakeNearest, CoinInv, NearInv
<1>2. /\ unspents \in Lists /\ L \in Nat /\ amount \in Nat /\ a \in Int /\ a > 0
      /\ m \in Nat /\ m < i /\ i \in 1..L /\ unspents[i] >= a
      /\ \A j \in 1..m : inputs[j] = j
  <2>1. m \in Nat /\ m < i /\ i \in 1..L
    BY <1>1, NumberFacts DEF Nearing
  <2> QED
    BY <1>1, <2>1, NumberFacts, TypeFacts DEF Nearing, CoinTypeOK, Prefix
<1>3. /\ available >= amount /\ FitFirst(m)
      /\ a = amount - Upto[unspents][m]
  BY DEF ChosenInv, TakeNearest
<1>4. ASSUME NEW d \in 1..L, i < d
      PROVE  unspents[d] < a
  <2>1. i + 1 \in 1..L /\ (i + 1 = d \/ i + 1 < d) /\ i < L
    BY <1>2, <1>4
  <2>2. unspents[i + 1] >= unspents[d] /\ unspents[i + 1] \in Nat
        /\ unspents[d] \in Nat
    BY <1>2, <2>1, ListFacts
  <2>3. ~(unspents[i + 1] >= a)
    BY <1>1, <2>1 DEF Covers
  <2> QED
    BY <1>2, <2>2, <2>3
<1>5. ChosenOf(unspents, amount) = (1..m) \cup {i}
  <2>1. m \in 0..L
    BY <1>2
  <2> QED
    BY <1>1, <1>2, <1>3, <1>4, <2>1, ChosenFirst
<1>6. /\ inputs' = Append(inputs, i) /\ UNCHANGED <<unspents, amount>>
      /\ pc' = "done"
  BY DEF TakeNearest
<1>7. Used' = (1..m) \cup {i}
  <2>1. inputs \in Seq(1..L)
    BY <1>1, TypeFacts
  <2>2. /\ DOMAIN inputs' = 1..(m + 1) /\ inputs'[m + 1] = i
        /\ \A j \in 1..m : inputs'[j] = j
    BY <1>2, <1>6, <2>1
  <2>3. 1..(m + 1) = (1..m) \cup {m + 1}
    BY <1>2
  <2> QED
    BY <2>2, <2>3 DEF Used
<1> QED
  BY <1>5, <1>6, <1>7 DEF ChosenInv

LEMMA ChosenStep ==
    ASSUME CoinInv, ChosenInv, [Next]_vars
    PROVE  ChosenInv'
<1>1. CASE Take
  BY <1>1 DEF Take, ChosenInv
<1>2. CASE Skip \/ UNCHANGED vars
  BY <1>2 DEF Skip, vars, ChosenInv, FitFirst, available, Used
<1> QED
  BY <1>1, <1>2, ChosenStart, ChosenEndTake, ChosenNearest DEF Next

(* The two loops take the utxos of the formula that GetTransactionInputs   *)
(* stands for: the longest prefix of the sorted utxos that fits in the     *)
(* amount, and the last utxo that covers the rest.  The payments of the    *)
(* other modules use the formula.                                          *)
THEOREM InputsChosen == ASSUME Errors = {0} PROVE Spec => []TakesChosen
<1>1. Init => ChosenInv
  BY DEF Init, ChosenInv
<1>2. ChosenInv => TakesChosen
  BY Zenon DEF ChosenInv, TakesChosen, ChosenOf
<1> QED
  BY <1>1, <1>2, ChosenStep, CoinAlways, PTL DEF Spec

-----------------------------------------------------------------------------
(* With roundings                                                          *)

Multiples == { Unit * k : k \in Int }

(* Values and amounts are multiples of the unit, and all the roundings of  *)
(* a selection, none of more than m, come to less than one unit.           *)
RoundingsSmall(m) ==
    /\ \A l \in Lists : \A j \in DOMAIN l : l[j] \in Multiples
    /\ Amounts \subseteq Multiples
    /\ Errors \subseteq -m..m
    /\ \A l \in Lists : Len(l) * m < Unit

LEMMA MultiplesAdd ==
    ASSUME NEW x \in Multiples, NEW y \in Multiples
    PROVE  x + y \in Multiples /\ x \in Int
<1>1. PICK k \in Int : x = Unit * k
  BY DEF Multiples
<1>2. PICK l \in Int : y = Unit * l
  BY DEF Multiples
<1>3. Unit \in Int /\ k + l \in Int
  BY RoundingAssumption
<1>4. Unit * (k + l) = Unit * k + Unit * l /\ Unit * k \in Int
  BY <1>3
<1> QED
  BY <1>1, <1>2, <1>3, <1>4 DEF Multiples

LEMMA MultiplesApart ==
    ASSUME NEW x \in Multiples, NEW y \in Multiples, x > y - Unit
    PROVE  x >= y
<1>1. PICK k \in Int : x = Unit * k
  BY DEF Multiples
<1>2. PICK l \in Int : y = Unit * l
  BY DEF Multiples
<1>3. Unit \in Int /\ Unit > 0
  BY RoundingAssumption
<1>4. CASE k >= l
  <2>1. \A d \in Nat : Unit * (l + d) >= Unit * l
    BY <1>3
  <2>2. k - l \in Nat /\ l + (k - l) = k
    BY <1>4
  <2> QED
    BY <1>1, <1>2, <2>1, <2>2
<1>5. CASE k < l
  <2>1. \A d \in Nat : Unit * (k + 1 + d) >= Unit * k + Unit
    BY <1>3
  <2>2. l - k - 1 \in Nat /\ k + 1 + (l - k - 1) = l
    BY <1>5
  <2>3. Unit * l >= Unit * k + Unit
    BY <2>1, <2>2
  <2>4. Unit * k \in Int /\ Unit * l \in Int
    BY <1>3
  <2> QED
    BY <1>1, <1>2, <1>3, <2>3, <2>4
<1> QED
  BY <1>4, <1>5

(* What is left to pay is off by a rounding for each utxo taken.           *)
RoundTaking(m) ==
    /\ amount > 0 /\ available >= amount
    /\ sum = Upto[unspents][i] /\ sum \in Multiples
    /\ -(i * m) <= sum + a - amount /\ sum + a - amount <= i * m

(* The sum is enough, or else the utxo that was passed last will make it   *)
(* so, or the next one.                                                    *)
RoundNearing ==
    /\ sum \in Multiples /\ sum + a > amount - Unit
    /\ Covers \/ i > 0
    /\ sum >= amount \/ Covers \/ (i > 0 /\ unspents[i] >= a)

RoundInv(m) ==
    /\ CoinTypeOK
    /\ pc = "start" => i = 0 /\ a = amount /\ sum = 0
    /\ pc = "take" => RoundTaking(m)
    /\ pc = "near" => RoundNearing
    /\ pc = "done" => sum >= amount

LEMMA ValueMultiple ==
    ASSUME CoinTypeOK, NEW m \in Nat, RoundingsSmall(m)
    PROVE  /\ \A j \in 1..Len(unspents) : unspents[j] \in Multiples
           /\ amount \in Multiples
           /\ Len(unspents) * m < Unit
           /\ Unit \in Nat /\ Unit > 0
BY TypeFacts, RoundingAssumption DEF CoinTypeOK, RoundingsSmall

(* A part of the roundings is less than a unit.                            *)
LEMMA RoundingLeft ==
    ASSUME CoinTypeOK, NEW m \in Nat, RoundingsSmall(m)
    PROVE  i * m \in Nat /\ i * m < Unit /\ (i + 1) * m = i * m + m
<1>1. i \in Nat /\ Len(unspents) - i \in Nat
  BY NumberFacts
<1>2. \A x, d \in Nat : (x + d) * m >= x * m /\ x * m \in Nat
  OBVIOUS
<1>3. (i + (Len(unspents) - i)) * m >= i * m
  BY <1>1, <1>2
<1>4. i + (Len(unspents) - i) = Len(unspents)
  BY <1>1, NumberFacts
<1>5. Len(unspents) * m \in Nat /\ i * m \in Nat
  BY <1>1, <1>2, NumberFacts
<1>6. (i + 1) * m = i * m + m
  BY <1>1
<1> QED
  BY <1>3, <1>4, <1>5, <1>6, ValueMultiple

LEMMA RoundStart ==
    ASSUME NEW m \in Nat, RoundingsSmall(m), RoundInv(m), Start
    PROVE  RoundInv(m)'
<1>1. /\ CoinTypeOK /\ i = 0 /\ a = amount /\ sum = 0
      /\ UNCHANGED <<unspents, amount, i, a, inputs, sum>>
      /\ pc' \in {"done", "refused", "take"}
  BY DEF Start, RoundInv
<1>2. amount \in Nat /\ unspents \in Lists /\ available \in Int
  <2>1. unspents \in Lists /\ Len(unspents) \in 0..Len(unspents)
    BY <1>1, NumberFacts DEF CoinTypeOK
  <2> QED
    BY <1>1, <2>1, NumberFacts, ListFacts DEF available
<1>3. CoinTypeOK'
  BY <1>1 DEF CoinTypeOK
<1>4. ASSUME pc' = "take" PROVE RoundTaking(m)'
  <2>1. amount > 0 /\ available >= amount
    BY <1>2, <1>4 DEF Start
  <2>2. 0 \in Multiples
    <3>1. Unit * 0 = 0
      BY RoundingAssumption
    <3> QED
      BY <3>1 DEF Multiples
  <2>3. 0 * m = 0
    OBVIOUS
  <2> QED
    BY <1>1, <1>2, <2>1, <2>2, <2>3, ListFacts DEF RoundTaking, available
<1>5. pc' = "done" => amount = 0
  BY <1>1, <1>2 DEF Start
<1> QED
  BY <1>1, <1>2, <1>3, <1>4, <1>5 DEF RoundInv

LEMMA RoundTake ==
    ASSUME NEW m \in Nat, RoundingsSmall(m), RoundInv(m), Take
    PROVE  RoundInv(m)'
<1> DEFINE c == i + 1
<1>1. CoinTypeOK /\ RoundTaking(m)
  BY DEF Take, RoundInv
<1>2. PICK e \in Errors :
          /\ a' = a - unspents[c] + e
          /\ sum' = sum + unspents[c] /\ i' = c
          /\ inputs' = Append(inputs, c)
          /\ UNCHANGED <<pc, unspents, amount>> /\ pc = "take"
  BY DEF Take
<1>3. c \in 1..Len(unspents) /\ unspents[c] \in Nat /\ c - 1 = i
  <2>1. i < Len(unspents)
    BY DEF Take, Fits
  <2>2. c \in 1..Len(unspents) /\ c - 1 = i
    BY <1>1, <2>1, NumberFacts
  <2> QED
    BY <1>1, <2>2, TypeFacts
<1>4. e \in Int /\ -m <= e /\ e <= m
  <2>1. e \in -m..m
    BY DEF RoundingsSmall
  <2> QED
    BY <2>1
<1>5. CoinTypeOK'
  <2>1. inputs' \in Seq(DOMAIN unspents')
    BY <1>1, <1>2, <1>3, TypeFacts
  <2>2. i' \in 0..Len(unspents')
    BY <1>1, <1>2, <1>3, NumberFacts
  <2>3. a' \in Int
    BY <1>1, <1>2, <1>3, <1>4, NumberFacts
  <2>4. sum' \in Int
    BY <1>1, <1>2, <1>3, NumberFacts
  <2> QED
    BY <1>1, <1>2, <2>1, <2>2, <2>3, <2>4 DEF CoinTypeOK
<1>6. sum' = Upto[unspents'][i']
  <2>1. unspents \in Lists
    BY <1>1 DEF CoinTypeOK
  <2>2. Upto[unspents][c] = Upto[unspents][i] + unspents[c]
    BY <1>3, <2>1, ListFacts
  <2> QED
    BY <1>1, <1>2, <2>2 DEF RoundTaking
<1>7. sum' \in Multiples
  BY <1>1, <1>2, <1>3, ValueMultiple, MultiplesAdd DEF RoundTaking
<1>8. -(i' * m) <= sum' + a' - amount' /\ sum' + a' - amount' <= i' * m
  <2>1. i' * m = i * m + m /\ i * m \in Nat
    BY <1>1, <1>2, RoundingLeft
  <2>2. -(i * m) <= sum + a - amount /\ sum + a - amount <= i * m
    BY <1>1 DEF RoundTaking
  <2>3. sum' + a' - amount' = sum + a - amount + e
    <3>1. sum \in Int /\ a \in Int /\ amount \in Int
      BY <1>1, NumberFacts
    <3>2. \A u \in Nat :
              sum + u + (a - u + e) - amount = sum + a - amount + e
      BY <1>4, <3>1
    <3>3. amount' = amount
      BY <1>2
    <3> QED
      BY <1>2, <1>3, <3>2, <3>3, Zenon
  <2>4. sum + a - amount \in Int
    BY <1>1, NumberFacts
  <2> QED
    BY <1>4, <2>1, <2>2, <2>3, <2>4
<1>9. amount' > 0 /\ available' >= amount'
  BY <1>1, <1>2 DEF RoundTaking, available
<1> QED
  BY <1>2, <1>5, <1>6, <1>7, <1>8, <1>9 DEF RoundInv, RoundTaking

LEMMA RoundEndTake ==
    ASSUME NEW m \in Nat, RoundingsSmall(m), RoundInv(m), EndTake
    PROVE  RoundInv(m)'
<1>1. CoinTypeOK /\ RoundTaking(m)
  BY DEF EndTake, RoundInv
<1>2. UNCHANGED <<unspents, amount, i, a, inputs, sum>> /\ ~Fits
  BY DEF EndTake
<1>3. CoinTypeOK'
  BY <1>1, <1>2 DEF EndTake, CoinTypeOK
<1>4. sum + a > amount - Unit
  <2>1. i * m \in Nat /\ i * m < Unit /\ Unit \in Nat
    BY <1>1, RoundingLeft, ValueMultiple
  <2>2. -(i * m) <= sum + a - amount
    BY <1>1 DEF RoundTaking
  <2>3. sum \in Int /\ a \in Int /\ amount \in Int
    BY <1>1, NumberFacts
  <2> QED
    BY <2>1, <2>2, <2>3
<1>5. ASSUME pc' = "done" PROVE sum >= amount
  <2>1. a = 0
    BY <1>5 DEF EndTake
  <2>2. sum > amount - Unit
    BY <1>1, <1>4, <2>1, NumberFacts
  <2> QED
    BY <1>1, <2>2, ValueMultiple, MultiplesApart DEF RoundTaking
<1>6. Covers \/ (i > 0 /\ sum >= amount)
  <2>1. CASE i < Len(unspents)
    <3>1. i + 1 \in 1..Len(unspents)
      BY <1>1, <2>1, NumberFacts
    <3> QED
      BY <1>1, <1>2, <2>1, <3>1, NumberFacts, TypeFacts DEF Fits, Covers
  <2>2. CASE i = Len(unspents)
    <3>1. sum >= amount
      BY <1>1, <2>2 DEF RoundTaking, available
    <3>2. i = 0 => sum = 0
      BY <1>1, ListFacts DEF RoundTaking, CoinTypeOK
    <3> QED
      BY <1>1, <3>1, <3>2, NumberFacts DEF RoundTaking
  <2> QED
    BY <1>1, <2>1, <2>2, NumberFacts
<1>7. RoundNearing'
  BY <1>1, <1>2, <1>4, <1>6 DEF RoundNearing, RoundTaking, Covers
<1> QED
  BY <1>2, <1>3, <1>5, <1>7 DEF EndTake, RoundInv

LEMMA RoundNear ==
    ASSUME NEW m \in Nat, RoundingsSmall(m), RoundInv(m), Skip \/ TakeNearest
    PROVE  RoundInv(m)'
<1>1. CoinTypeOK /\ RoundNearing
  BY DEF Skip, TakeNearest, RoundInv
<1>2. CASE Skip
  <2>1. /\ i + 1 \in 1..Len(unspents) /\ unspents[i + 1] >= a /\ i' = i + 1
        /\ UNCHANGED <<pc, unspents, amount, a, inputs, sum>> /\ pc = "near"
    BY <1>1, <1>2, NumberFacts, TypeFacts DEF Skip, Covers
  <2>2. CoinTypeOK'
    BY <1>1, <2>1 DEF CoinTypeOK
  <2>3. i' > 0 /\ unspents'[i'] >= a'
    BY <1>1, <2>1, NumberFacts
  <2>4. RoundNearing'
    BY <1>1, <2>1, <2>3 DEF RoundNearing
  <2> QED
    BY <2>1, <2>2, <2>4 DEF RoundInv
<1>3. CASE TakeNearest
  <2>1. /\ ~Covers /\ inputs' = Append(inputs, i) /\ sum' = sum + unspents[i]
        /\ pc' = "done" /\ UNCHANGED <<unspents, amount, i, a>>
    BY <1>3 DEF TakeNearest
  <2>2. i \in 1..Len(unspents) /\ unspents[i] \in Nat
    BY <1>1, <2>1, NumberFacts, TypeFacts DEF RoundNearing
  <2>3. CoinTypeOK'
    <3>1. inputs' \in Seq(DOMAIN unspents')
      BY <1>1, <2>1, <2>2, TypeFacts
    <3>2. sum' \in Int
      BY <1>1, <2>1, <2>2, NumberFacts
    <3> QED
      BY <1>1, <2>1, <3>1, <3>2 DEF CoinTypeOK
  <2>4. sum' >= amount
    <3>1. sum' \in Multiples
      BY <1>1, <2>1, <2>2, ValueMultiple, MultiplesAdd DEF RoundNearing
    <3>2. CASE sum >= amount
      BY <1>1, <2>1, <2>2, <3>2, NumberFacts
    <3>3. CASE unspents[i] >= a
      <4>1. sum' > amount - Unit
        BY <1>1, <2>1, <2>2, <3>3, NumberFacts, ValueMultiple DEF RoundNearing
      <4> QED
        BY <1>1, <3>1, <4>1, ValueMultiple, MultiplesApart
    <3> QED
      BY <1>1, <2>1, <3>2, <3>3 DEF RoundNearing
  <2> QED
    BY <2>1, <2>3, <2>4 DEF RoundInv
<1> QED
  BY <1>2, <1>3

(* The float64 subtractions may be off: the inputs cover the amount all    *)
(* the same, for every list and amount, as long as all the roundings       *)
(* together are less than the least value.                                 *)
THEOREM RoundingsCover ==
    ASSUME NEW m \in Nat, RoundingsSmall(m)
    PROVE  Spec => []CoversAmount
<1>1. Init => RoundInv(m)
  <2> SUFFICES ASSUME Init PROVE RoundInv(m)
    OBVIOUS
  <2>1. CoinTypeOK
    BY AmountAssumption, ListFacts DEF Init, CoinTypeOK
  <2> QED
    BY <2>1 DEF Init, RoundInv
<1>2. RoundInv(m) /\ [Next]_vars => RoundInv(m)'
  <2> SUFFICES ASSUME RoundInv(m), [Next]_vars PROVE RoundInv(m)'
    OBVIOUS
  <2>1. CASE UNCHANGED vars
    BY <2>1
       DEF vars, RoundInv, CoinTypeOK, RoundTaking, RoundNearing, Covers,
           available
  <2> QED
    BY <2>1, RoundStart, RoundTake, RoundEndTake, RoundNear DEF Next
<1>3. RoundInv(m) => CoversAmount
  BY DEF RoundInv, CoversAmount
<1> QED
  BY <1>1, <1>2, <1>3, PTL DEF Spec

=============================================================================
