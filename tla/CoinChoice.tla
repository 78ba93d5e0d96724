----------------------------- MODULE CoinChoice -----------------------------
(***************************************************************************)
(* What the two loops of GetTransactionInputs (src/service/rtonMethods.go: *)
(* 681-704) compute when nothing is rounded: of the utxos in decreasing    *)
(* order, all those of the longest prefix that fits into the amount, and   *)
(* the last one that covers the rest.                                      *)
(***************************************************************************)
EXTENDS Integers, Functions

Total(value, S) == FoldFunctionOnSet(LAMBDA x, y : x + y, 0, value, S)

(* value maps each utxo to what it is worth; Before is the order.          *)
Chosen(value, Before(_, _), amount) ==
    LET S == DOMAIN value
        Prefix(c) == { d \in S : d = c \/ Before(d, c) }
        fitting == { c \in S : Total(value, Prefix(c)) <= amount }
        rest == amount - Total(value, fitting)
        IsNearest(c) ==
            /\ value[c] >= rest
            /\ \A d \in S : Before(c, d) => value[d] < rest
    IN  fitting \cup IF rest = 0 THEN {} ELSE { CHOOSE c \in S : IsNearest(c) }

=============================================================================
