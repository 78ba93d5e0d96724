--------------------------- MODULE CoinSelection ---------------------------
(***************************************************************************)
(* GetTransactionInputs (src/service/rtonMethods.go:673-705): which of the *)
(* utxos of the relayer's address pay an amount of gas.  The utxos are     *)
(* sorted in decreasing order; the loop takes them while they fit into     *)
(* what is left to pay, and then the smallest one that covers the rest.    *)
(*                                                                         *)
(* The sum of the utxos is exact (Fixed8), but what is left to pay is a    *)
(* float64, and a subtraction may leave it a little off.  Values and       *)
(* amounts are multiples of Unit, and Errors are the roundings, in         *)
(* fractions of Unit, that one subtraction may add.                        *)
(*                                                                         *)
(*   start     before the balance is compared with the amount              *)
(*   take      in the first loop                                           *)
(*   near      in the second loop, "use the nearest amount"                *)
(*   done      returned the inputs and their sum                           *)
(*   refused   returned "not enough balance in address"                    *)
(***************************************************************************)
EXTENDS CoinChoice, Sequences

CONSTANTS
    Lists,           \* the lists of utxo values, in decreasing order
    Upto,            \* Upto[l][j] is the sum of the first j values of l
    Amounts,         \* the amounts to pay
    Unit,            \* the least value
    Errors           \* the roundings of one subtraction

ASSUME ListAssumption ==
    /\ Lists \subseteq Seq(Nat \ {0})
    /\ \A l \in Lists : \A j, k \in DOMAIN l : j < k => l[j] >= l[k]

ASSUME UptoAssumption ==
    \A l \in Lists :
        /\ Upto[l] \in [0..Len(l) -> Nat]
        /\ Upto[l][0] = 0
        /\ \A j \in DOMAIN l : Upto[l][j] = Upto[l][j - 1] + l[j]

ASSUME AmountAssumption == Amounts \subseteq Nat

ASSUME RoundingAssumption ==
    /\ Unit \in Nat \ {0}
    /\ Errors \subseteq -Unit..Unit
    /\ 0 \in Errors

VARIABLES
    pc,
    unspents,        \* the values of the utxos
    amount,          \* what is to be paid
    i,               \* the number of utxos passed
    a,               \* what is left to pay
    inputs,          \* the positions of the utxos taken
    sum              \* the value of the inputs

vars == <<pc, unspents, amount, i, a, inputs, sum>>

available == Upto[unspents][Len(unspents)]

Init ==
    /\ pc = "start"
    /\ unspents \in Lists
    /\ amount \in Amounts
    /\ i = 0
    /\ a = amount
    /\ inputs = <<>>
    /\ sum = 0

Start ==
    /\ pc = "start"
    /\ pc' = IF amount = 0 THEN "done"
               ELSE IF available < amount THEN "refused" ELSE "take"
    /\ UNCHANGED <<unspents, amount, i, a, inputs, sum>>

(* The conditions of the two loops, on the next utxo.                      *)
Fits == i < Len(unspents) /\ unspents[i + 1] <= a

(* A mutant: a utxo of just the value that is left is not enough.          *)
Exceeds == i < Len(unspents) /\ unspents[i + 1] > a

Covers == i < Len(unspents) /\ unspents[i + 1] >= a

Take ==
    /\ pc = "take" /\ Fits
    /\ \E e \in Errors : a' = a - unspents[i + 1] + e
    /\ inputs' = Append(inputs, i + 1)
    /\ sum' = sum + unspents[i + 1]
    /\ i' = i + 1
    /\ UNCHANGED <<pc, unspents, amount>>

(* A mutant: nobody looks whether all is paid.                             *)
EndTakeUnpaid ==
    /\ pc = "take" /\ ~Fits
    /\ pc' = "near"
    /\ UNCHANGED <<unspents, amount, i, a, inputs, sum>>

EndTake ==
    /\ pc = "take" /\ ~Fits
    /\ pc' = IF a = 0 THEN "done" ELSE "near"
    /\ UNCHANGED <<unspents, amount, i, a, inputs, sum>>

Skip ==
    /\ pc = "near" /\ Covers
    /\ i' = i + 1
    /\ UNCHANGED <<pc, unspents, amount, a, inputs, sum>>

(* A mutant: the utxo at which the loop stopped.                           *)
TakeNext ==
    /\ pc = "near" /\ ~Covers
    /\ inputs' = Append(inputs, IF i < Len(unspents) THEN i + 1 ELSE i)
    /\ sum' = sum + unspents[IF i < Len(unspents) THEN i + 1 ELSE i]
    /\ pc' = "done"
    /\ UNCHANGED <<unspents, amount, i, a>>

(* The utxo before the one at which the loop stopped.                      *)
TakeNearest ==
    /\ pc = "near" /\ ~Covers
    /\ inputs' = Append(inputs, i)
    /\ sum' = sum + unspents[i]
    /\ pc' = "done"
    /\ UNCHANGED <<unspents, amount, i, a>>

Next == Start \/ Take \/ EndTake \/ Skip \/ TakeNearest

Spec == Init /\ [][Next]_vars

-----------------------------------------------------------------------------

(* No rounding has been left over so far.                                  *)
Exact == a % Unit = 0

Used == { inputs[j] : j \in DOMAIN inputs }

(* The sum that is returned covers the amount, whatever the roundings: the *)
(* transaction pays its fee, and the change is not negative.               *)
CoversAmount == pc = "done" => sum >= amount

(* No utxo is an input twice, unless a rounding was left over: Neo refuses *)
(* a transaction that spends a utxo twice.                                 *)
NoCoinTwice ==
    pc = "done" /\ Exact =>
        \A j, k \in DOMAIN inputs : inputs[j] = inputs[k] => j = k

(* The amount is not covered without any one of the inputs: no utxo is     *)
(* locked for nothing.                                                     *)
EveryInputNeeded ==
    pc = "done" /\ Exact => \A j \in Used : sum - unspents[j] < amount

(* Without a rounding the loops take the utxos of the formula.             *)
TakesChosen ==
    pc = "done" /\ Exact =>
        Used = Chosen(unspents, LAMBDA j, k : j < k, amount)

=============================================================================
