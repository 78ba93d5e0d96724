--------------------------- MODULE ProofDecoding ---------------------------
(***************************************************************************)
(* What syncProofToNeo makes of Poly's proof that a transfer is in its     *)
(* state (src/service/rtonMethods.go:239-258, 333-363): MerkleProve checks *)
(* the audit path against the root in the header (helper.go:13-44), and    *)
(* DeserializeMerkleValue takes the proved value apart (toMerkleValue.go:  *)
(* 43-106).  Both are done twice when the relayer serves one contract.     *)
(*                                                                         *)
(*   value     in MerkleProve, before ReadVarBytes                         *)
(*   loop      in its loop over the nodes of the path                      *)
(*   fields    in DeserializeMerkleValue, at the next field                *)
(*   parsed    behind it                                                   *)
(*   relayed   the transaction to Neo is built                             *)
(*   skipped   returned without an error, the contract is another one      *)
(*   noBytes, noNode, mismatch, invalid    returned with an error          *)
(*                                                                         *)
(* The path is the value with its length, in `bytes', and then nodes of a  *)
(* flag byte and a hash each.  A hash is a term: two are equal when they   *)
(* are hashes of the same thing.                                           *)
(***************************************************************************)
EXTENDS ByteReader

CONSTANTS
    HashSize,        \* the bytes of a hash, 32 in the code
    Answers,         \* what Poly may answer for a transfer
    NoContract,      \* an empty config.RtonContract
    Contracts,       \* what config.RtonContract may be
    Unlock           \* the method 756e6c6f636b

(* `meant' are the fields Poly serialised and `tree' the root of its tree; *)
(* no step reads them.                                                     *)
ASSUME AnswerAssumption ==
    /\ HashSize \in Nat \ {0}
    /\ \A ans \in Answers :
           /\ DOMAIN ans = {"bytes", "nodes", "root", "meant", "tree"}
           /\ ans.bytes \in Seq(Byte)
           /\ Len(ans.nodes) \in Nat
           /\ ReadVarBytes(ans.bytes, 0).ok
           /\ ReadVarBytes(ans.bytes, 0).next = Len(ans.bytes)

VARIABLES
    pc,
    answer,          \* Poly's answer, with the root of the header
    RtonContract,    \* config.RtonContract
    checked,         \* the contract has been compared
    hash,            \* MerkleProve: the hash so far
    i,               \* MerkleProve: the nodes passed
    value,           \* the proved value
    offset,          \* the bytes of it passed
    fields           \* the fields read from it

vars == <<pc, answer, RtonContract, checked, hash, i, value, offset, fields>>

Init ==
    /\ pc = "value"
    /\ answer \in Answers
    /\ RtonContract \in Contracts
    /\ checked = (RtonContract = NoContract)
    /\ hash = <<>> /\ i = 0
    /\ value = <<>> /\ offset = 0 /\ fields = <<>>

Keep == UNCHANGED <<answer, RtonContract>>

-----------------------------------------------------------------------------
(* MerkleProve                                                             *)

HashLeaf(v) == <<"leaf", v>>

HashChildren(v, h) == <<"node", v, h>>

ReadValue ==
    LET read == ReadVarBytes(answer.bytes, 0)
    IN  /\ pc = "value"
        /\ IF read.ok THEN /\ pc' = "loop"
                           /\ value' = read.value
                           /\ hash' = HashLeaf(read.value)
                           /\ offset' = read.next
                      ELSE pc' = "noBytes" /\ UNCHANGED <<value, hash, offset>>
        /\ i' = 0
        /\ UNCHANGED <<checked, fields>> /\ Keep

PathLength == Len(answer.bytes) + (HashSize + 1) * Len(answer.nodes)

(* A mutant: the value counts as nodes.                                    *)
SizeOfAll == PathLength \div HashSize

(* The number of nodes, though a node is one byte longer than a hash.      *)
size == (PathLength - offset) \div HashSize

(* A mutant: the sides are exchanged.                                      *)
CombineSwapped(node) ==
    IF node.left THEN HashChildren(hash, node.hash)
                 ELSE HashChildren(node.hash, hash)

Combine(node) ==
    IF node.left THEN HashChildren(node.hash, hash)
                 ELSE HashChildren(hash, node.hash)

ReadNode ==
    /\ pc = "loop" /\ i < size
    /\ IF i < Len(answer.nodes) THEN /\ hash' = Combine(answer.nodes[i + 1])
                                     /\ i' = i + 1
                                     /\ pc' = "loop"
                                ELSE pc' = "noNode" /\ UNCHANGED <<hash, i>>
    /\ UNCHANGED <<checked, value, offset, fields>> /\ Keep

(* A mutant: the hash is not compared.                                     *)
CompareNever ==
    /\ pc = "loop" /\ i >= size
    /\ pc' = "fields" /\ offset' = 0 /\ fields' = <<>>
    /\ UNCHANGED <<checked, hash, i, value>> /\ Keep

Compare ==
    /\ pc = "loop" /\ i >= size
    /\ pc' = IF hash = answer.root THEN "fields" ELSE "mismatch"
    /\ offset' = 0
    /\ fields' = <<>>
    /\ UNCHANGED <<checked, hash, i, value>> /\ Keep

-----------------------------------------------------------------------------
(* DeserializeMerkleValue and DeserializeCrossChainTxParameter             *)

(* TxHash, FromChainID; TxHash, CrossChainID, FromContract; ToChainID,     *)
(* ToContract, Method, Args.                                               *)
Layout == << "bytes", "uint64", "bytes", "bytes", "bytes", "uint64", "bytes",
             "bytes", "bytes" >>

ToContract == 7

Method == 8

(* A mutant: a chain id is read like the length of a string.               *)
ReadFieldVar(kind) ==
    IF kind = "uint64" THEN ReadVarUInt(value, offset)
                       ELSE ReadVarBytes(value, offset)

ReadField(kind) ==
    IF kind = "uint64" THEN ReadNumber(value, offset, 8)
                       ELSE ReadVarBytes(value, offset)

Deserialize ==
    LET read == ReadField(Layout[Len(fields) + 1])
        last == Len(fields) + 1 = Len(Layout)
    IN  /\ pc = "fields"
        /\ IF read.ok THEN /\ fields' = Append(fields, read.value)
                           /\ offset' = read.next
                           /\ pc' = IF last THEN "parsed" ELSE "fields"
                      ELSE pc' = "noBytes" /\ UNCHANGED <<fields, offset>>
        /\ UNCHANGED <<checked, hash, i, value>> /\ Keep

-----------------------------------------------------------------------------

(* The first time, for config.RtonContract.                                *)
CheckContract ==
    /\ pc = "parsed" /\ ~checked
    /\ pc' = IF fields[ToContract] = RtonContract THEN "value" ELSE "skipped"
    /\ checked' = TRUE
    /\ UNCHANGED <<hash, i, value, offset, fields>> /\ Keep

CheckMethod ==
    /\ pc = "parsed" /\ checked
    /\ pc' = IF fields[Method] = Unlock THEN "relayed" ELSE "invalid"
    /\ UNCHANGED <<checked, hash, i, value, offset, fields>> /\ Keep

Next ==
    ReadValue \/ ReadNode \/ Compare \/ Deserialize \/ CheckContract \/ CheckMethod

Spec == Init /\ [][Next]_vars

-----------------------------------------------------------------------------

(* Poly's root is the one in the header.                                   *)
Genuine == answer.root = answer.tree

(* The length of the path tells the number of its nodes as long as there   *)
(* are fewer nodes than a hash has bytes: every node is hashed before the  *)
(* roots are compared, and nothing is read behind the last one.            *)
EveryNodeHashed ==
    /\ pc = "loop" /\ i >= size => i = Len(answer.nodes)
    /\ pc = "noNode" => Len(answer.nodes) >= HashSize

(* A transfer is refused for its proof only when Poly's tree has another   *)
(* root, or is so deep that the path has as many nodes as a hash has bytes *)
(* (2^31 transfers in a block): its transfer would be lost.                *)
RefusedForCause ==
    pc \in {"noBytes", "noNode", "mismatch"} =>
        ~Genuine \/ Len(answer.nodes) >= HashSize

(* What is relayed is in Poly's state, for the contract that is served,    *)
(* and of the method unlock; no other reason passes a transfer over.       *)
RightVerdict ==
    LET served == RtonContract \in {NoContract, answer.meant[ToContract]}
        unlocks == answer.meant[Method] = Unlock
    IN  /\ pc = "relayed" => Genuine /\ served /\ unlocks
        /\ pc = "skipped" => Genuine /\ ~served
        /\ pc = "invalid" => Genuine /\ served /\ ~unlocks

(* The fields are those that Poly serialised, in its order, whichever way  *)
(* their lengths are written.                                              *)
FieldsFaithful ==
    /\ \A j \in DOMAIN fields : fields[j] = answer.meant[j]
    /\ pc = "parsed" => offset = Len(value)

=============================================================================
