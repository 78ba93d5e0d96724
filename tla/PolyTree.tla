------------------------------ MODULE PolyTree ------------------------------
(***************************************************************************)
(* How Poly serialises the values of its state and commits to them, as the *)
(* code that reads them relies on.  None of this is code of the relayer:   *)
(* src/service/toMerkleValue.go:5-19 names the fields, and helper.go:13-44 *)
(* walks from a leaf to the root.  The last node of a level that has no    *)
(* sibling is a node of the level above.                                   *)
(***************************************************************************)
EXTENDS ProofDecoding

CONSTANT Blocks      \* the blocks of Poly, each a sequence of transfers

(* The sequence itself, which TLC then evaluates once.                     *)
Tuple(s) == s \o << >>

Digits(x, width) ==
    LET rest[j \in 1..width] == IF j = 1 THEN x ELSE rest[j - 1] \div Base
    IN  [j \in 1..width |-> rest[j] % Base]

Fits(x, width) == LittleEndian(Digits(x, width)) = x

VarUInt(x) ==
    IF x < Base - 3 THEN <<x>>
      ELSE IF Fits(x, 2) THEN <<Base - 3>> \o Digits(x, 2)
      ELSE IF Fits(x, 4) THEN <<Base - 2>> \o Digits(x, 4)
      ELSE <<Base - 1>> \o Digits(x, 8)

VarBytes(b) == VarUInt(Len(b)) \o b

Serialised(meant) ==
    FlattenSeq([j \in DOMAIN Layout |->
        IF Layout[j] = "uint64" THEN Digits(meant[j], 8) ELSE VarBytes(meant[j])])

-----------------------------------------------------------------------------

Parent(level, j) ==
    IF 2 * j > Len(level) THEN level[2 * j - 1]
      ELSE HashChildren(level[2 * j - 1], level[2 * j])

Above(level) ==
    Tuple([j \in 1..((Len(level) + 1) \div 2) |-> Parent(level, j)])

Sibling(level, j) ==
    IF j % 2 = 0 THEN <<[left |-> TRUE, hash |-> level[j - 1]]>>
      ELSE IF j < Len(level) THEN <<[left |-> FALSE, hash |-> level[j + 1]]>>
      ELSE <<>>

(* A level of the tree, the place in it above the leaf, and the siblings   *)
(* on the way there.                                                       *)
Up(at) ==
    [level |-> Above(at.level),
     place |-> (at.place + 1) \div 2,
     path |-> at.path \o Sibling(at.level, at.place)]

(* From leaf j to the root.  There are levels enough for every tree; above *)
(* the root there is the root again.                                       *)
Climb(leaves, j) ==
    LET at[d \in 0..Len(leaves)] ==
            IF d > 0 THEN Up(at[d - 1])
              ELSE [level |-> Tuple([k \in DOMAIN leaves |-> HashLeaf(leaves[k])]),
                    place |-> j, path |-> <<>>]
    IN  at[Len(leaves)]

Leaves(block) == Tuple([k \in DOMAIN block |-> Serialised(block[k])])

RootOf(block) == Climb(Leaves(block), 1).level[1]

(* The answer for transfer j of a block, with the root in a header.        *)
Answer(block, j, root) ==
    [bytes |-> VarBytes(Serialised(block[j])),
     nodes |-> Climb(Leaves(block), j).path,
     root |-> root, tree |-> RootOf(block), meant |-> block[j]]

-----------------------------------------------------------------------------

(* A number has eight bytes, and so has the length of a string.            *)
IsTransfer(meant) ==
    /\ DOMAIN meant = DOMAIN Layout
    /\ \A j \in DOMAIN Layout :
           IF Layout[j] = "uint64" THEN meant[j] \in Nat /\ Fits(meant[j], 8)
             ELSE meant[j] \in Seq(Byte) /\ Fits(Len(meant[j]), 8)
    /\ Fits(Len(Serialised(meant)), 8)

ASSUME BlockAssumption ==
    \A block \in Blocks :
        /\ Len(block) \in Nat /\ DOMAIN block = 1..Len(block)
        /\ \A j \in DOMAIN block : IsTransfer(block[j])

(* Poly answers with the value and the path of one of its transfers; only  *)
(* the root in the header may be of another block.                         *)
ASSUME PolyAssumption ==
    \A ans \in Answers :
        \E block \in Blocks : \E j \in DOMAIN block :
            ans = Answer(block, j, ans.root)

=============================================================================
