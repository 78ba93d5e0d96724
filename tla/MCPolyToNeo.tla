----------------------------- MODULE MCPolyToNeo -----------------------------
(***************************************************************************)
(* Instances of PolyToNeo for TLC: small Poly chains and purses.           *)
(***************************************************************************)
EXTENDS PolyToNeo

CONSTANTS k1, k2, k3, ccm, proxy, other

MCKeys == {k1, k2}

MCThreeKeys == {k1, k2, k3}

MCContracts == {ccm, proxy, other}

MakeProof(k) ==
    [contract |-> ccm, array |-> TRUE, name |-> "makeProof",
     toChain |-> NeoChainID, key |-> k, toContract |-> proxy,
     method |-> "unlock"]

(* What the filter and the constraints do not let through.                 *)
Foreign(k) ==
    << [MakeProof(k) EXCEPT !.array = FALSE],
       [MakeProof(k) EXCEPT !.contract = other],
       [MakeProof(k) EXCEPT !.name = "btcTxToRelay"],
       [MakeProof(k) EXCEPT !.toChain = NeoChainID + 1],
       [MakeProof(k) EXCEPT !.toContract = other],
       [MakeProof(k) EXCEPT !.method = "lock"] >>

Quiet == [events |-> <<>>, config |-> FALSE]

With(events) == [events |-> events, config |-> FALSE]

KeyBlock(events) == [events |-> events, config |-> TRUE]

(* Two transfers in one block.                                             *)
OneEpoch ==
    [h \in 0..2 |->
        IF h = 1 THEN With(<<<<MakeProof(k1)>>, <<MakeProof(k2)>>>>) ELSE Quiet]

(* Three transfers, in two blocks.                                         *)
Rush ==
    [h \in 0..3 |->
        CASE h = 1 -> With(<<<<MakeProof(k1)>>, <<MakeProof(k2)>>>>)
          [] h = 2 -> With(<<<<MakeProof(k3)>>>>)
          [] OTHER -> Quiet]

(* A transfer in the block that changes the peers and one in the next.     *)
TwoEpochs ==
    [h \in 0..4 |->
        CASE h = 1 -> With(<<Foreign(k2), <<MakeProof(k1)>>>>)
          [] h = 2 -> KeyBlock(<<<<MakeProof(k2)>>>>)
          [] h = 3 -> With(<<<<MakeProof(k3)>>>>)
          [] OTHER -> Quiet]

(* Two transfers, and then the block that changes the peers.               *)
BusyHandover ==
    [h \in 0..3 |->
        CASE h = 1 -> With(<<<<MakeProof(k1)>>, <<MakeProof(k2)>>>>)
          [] h = 2 -> KeyBlock(<<>>)
          [] OTHER -> Quiet]

(* Two transfers in the block that changes the peers, others to reject.    *)
Handover ==
    [h \in 0..2 |->
        IF h = 1 THEN KeyBlock(<<Foreign(k2), <<MakeProof(k1), MakeProof(k2)>>>>)
                 ELSE Quiet]

Gas(index, value) == [tx |-> 0, index |-> index, value |-> value]

(* One utxo for all; two that pay for five transactions with their change; *)
(* two, with either of which a transaction can be paid; one that pays      *)
(* alone and two that do together; more than transactions, each of which   *)
(* pays, one of them with nothing left.                                    *)
OneCoin == {Gas(0, 11)}

Savings == {Gas(0, 11), Gas(1, 4)}

TwoCoins == {Gas(0, 7), Gas(1, 3)}

Purse == {Gas(0, 8), Gas(1, 1), Gas(2, 2)}

EightCoins == { Gas(i, 9) : i \in 0..5 } \cup {Gas(6, 4), Gas(7, 3)}

=============================================================================
