--------------------------- MODULE MCProofDecoding ---------------------------
(***************************************************************************)
(* Instances of ProofDecoding for TLC: every transfer of blocks of up to   *)
(* MaxTransfers transfers, and of one whose value needs the longest form   *)
(* of a length, against the root of its block or of the next.              *)
(***************************************************************************)
EXTENDS PolyTree

CONSTANT MaxTransfers     \* bound: transfers of a block

OurContract == <<1, 2, 3>>

OtherContract == <<2>>

MCUnlock == <<3, 0>>

(* The transfers differ in the contract, the method and the lengths.       *)
Transfer(j) ==
    << <<j % Base, 1>>, j, <<>>, <<0>>, [k \in 1..j |-> k % Base], 7,
       IF j % 3 = 0 THEN OtherContract ELSE OurContract,
       IF j % 4 = 0 THEN <<1>> ELSE MCUnlock,
       IF j % 5 = 0 THEN [k \in 1..20 |-> 1] ELSE <<j % Base>> >>

Block(m) == [j \in 1..m |-> Transfer(j)]

LongBlock == << [Transfer(1) EXCEPT ![9] = [k \in 1..260 |-> 2]] >>

MCBlocks == { Block(m) : m \in 1..MaxTransfers } \cup {LongBlock}

MCAnswers ==
    UNION { { Answer(Block(m), j, RootOf(Block(r))) : j \in 1..m, r \in {m, m + 1} }
              : m \in 1..MaxTransfers }
      \cup { Answer(LongBlock, 1, RootOf(LongBlock)) }

MCContracts == {NoContract, OurContract}

=============================================================================
