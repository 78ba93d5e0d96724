--------------------------- MODULE MCCoinSelection ---------------------------
(***************************************************************************)
(* Instances of CoinSelection for TLC: all short lists of small values.    *)
(***************************************************************************)
EXTENDS CoinSelection

CONSTANTS
    MaxLength,       \* bound: utxos of the address
    MaxValue         \* bound: value of a utxo, in units

Decreasing(l) == \A j \in 1..(Len(l) - 1) : l[j] >= l[j + 1]

MCLists ==
    { l \in UNION { [1..n -> { v * Unit : v \in 1..MaxValue }] :
                      n \in 0..MaxLength } : Decreasing(l) }

MCUpto ==
    [l \in MCLists |-> [n \in 0..Len(l) |-> Total(l, 1..n)]]

MCAmounts == { v * Unit : v \in 0..(MaxLength * MaxValue) }

MCErrors == {-1, 0, 1}

=============================================================================
