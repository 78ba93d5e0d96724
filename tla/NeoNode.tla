------------------------------- MODULE NeoNode -------------------------------
(***************************************************************************)
(* The two chains in the direction Poly -> Neo, as the code in src/service *)
(* uses them.  None of this is code of the relayer: the Poly chain grows   *)
(* and answers queries about its past; the Neo node keeps a pool of        *)
(* transactions, lists the utxos of the relayer's address that no block    *)
(* has spent, and executes the cross-chain manager contract.               *)
(***************************************************************************)
EXTENDS MakeProofs, Failures, FiniteSets

CONSTANTS
    NoKey,           \* the key field of a transaction that carries no proof
    Coins,           \* the gas utxos of the relayer's address at the start
    Fee,             \* what a transaction pays: gas, system and network fee
    GenesisHeight,   \* height of the Poly chain when the relayer starts
    MaxTxs           \* bound: transactions the relayer sends to Neo

AllFaults ==
    { "count", "events", "block", "synced", "proof", "rpc", "db", "send",
      "resend", "keepers", "late", "evict", "otherExec", "crash" }

(* A utxo: the transaction and the index of the output, and what it is     *)
(* worth.  Transaction 0 stands for all that came before.                  *)
Coin == [tx : 0..MaxTxs, index : Nat, value : Nat \ {0}]

ASSUME NodeAssumption ==
    /\ Faults \subseteq AllFaults
    /\ MaxTxs \in Nat
    /\ NoKey \notin Keys
    /\ GenesisHeight \in Heights
    /\ Fee \in Nat \ {0}
    /\ Coins \subseteq [tx : {0}, index : Nat, value : Nat \ {0}]
    /\ IsFiniteSet(Coins)

VARIABLES
    polyHeight,      \* height of the last block of the Poly chain
    unspent,         \* the utxos of the address, as GetUnspents lists them
    neoTx,           \* the relayer's Neo transactions; the index is the hash
    neoDone,         \* the keys the Neo contract has executed
    synced           \* Poly height of the keepers the Neo contract knows

nodeVars == <<polyHeight, unspent, neoTx, neoDone, synced>>

Hashes == 1..MaxTxs

Status == {"pending", "ok", "fault", "gone"}

(* signed is the height of the Poly header whose signatures Neo checks.    *)
NeoTx ==
    [kind : {"proof"}, key : Keys, signed : 0..(MaxHeight + 2),
     inputs : SUBSET Coin, change : Nat, status : Status]
      \cup
    [kind : {"keepers"}, key : {NoKey}, signed : Heights,
     inputs : SUBSET Coin, change : Nat, status : Status]

NodeTypeOK ==
    /\ polyHeight \in Heights
    /\ unspent \subseteq Coin
    /\ neoTx \in Seq(NeoTx) /\ Len(neoTx) <= MaxTxs
    /\ neoDone \subseteq Keys
    /\ synced \in Heights
    /\ FailuresTypeOK
    /\ dropped \subseteq Keys

NodeInit ==
    /\ polyHeight = GenesisHeight
    /\ unspent = Coins
    /\ neoTx = <<>>
    /\ neoDone = {}
    /\ synced = 0
    /\ FailuresInit

-----------------------------------------------------------------------------

(* A block with a new configuration is the key header of the epoch whose   *)
(* peers sign from the second block after it on.  Block 0 is the first.    *)
KeyBlocks == { h \in Heights : h = 0 \/ Poly[h].config }

EpochOf(h) ==
    CHOOSE b \in KeyBlocks :
        /\ b = 0 \/ b + 2 <= h
        /\ \A c \in KeyBlocks : c + 2 <= h => c <= b

Verifies(h) == EpochOf(h) = synced

Executable(tx) ==
    IF tx.kind = "proof" THEN tx.key \notin neoDone /\ Verifies(tx.signed)
                         ELSE tx.signed > synced /\ Verifies(tx.signed)

IsPending(x) == x \in DOMAIN neoTx /\ neoTx[x].status = "pending"

(* The pool refuses what spends a utxo that a block or the pool has spent: *)
(* "Block or transaction validation failed".                               *)
Acceptable(inputs) ==
    /\ inputs \subseteq unspent
    /\ \A x \in DOMAIN neoTx : IsPending(x) => neoTx[x].inputs \cap inputs = {}

Submit(kind, key, signed, inputs, change) ==
    /\ Len(neoTx) < MaxTxs
    /\ neoTx' = Append(neoTx, [kind |-> kind, key |-> key, signed |-> signed,
                               inputs |-> inputs, change |-> change,
                               status |-> "pending"])
    /\ UNCHANGED <<polyHeight, unspent, neoDone, synced>>

-----------------------------------------------------------------------------

PolyGrow ==
    /\ polyHeight < MaxHeight
    /\ polyHeight' = polyHeight + 1
    /\ UNCHANGED <<unspent, neoTx, neoDone, synced, faultVars>>

ChangeOf(x) ==
    IF neoTx[x].change = 0 THEN {}
      ELSE {[tx |-> x, index |-> 0, value |-> neoTx[x].change]}

(* A transaction gets into a block, in any order.  It spends its inputs    *)
(* whether its script succeeds or faults.                                  *)
NeoExecutes(x) ==
    /\ IsPending(x)
    /\ NoFault
    /\ neoTx' = [neoTx EXCEPT ![x].status =
                     IF Executable(neoTx[x]) THEN "ok" ELSE "fault"]
    /\ unspent' = (unspent \ neoTx[x].inputs) \cup ChangeOf(x)
    /\ neoDone' = IF neoTx[x].kind = "proof" /\ Executable(neoTx[x])
                    THEN neoDone \cup {neoTx[x].key} ELSE neoDone
    /\ synced' = IF neoTx[x].kind = "keepers" /\ Executable(neoTx[x])
                   THEN neoTx[x].signed ELSE synced
    /\ UNCHANGED polyHeight

(* The pool drops the transaction.                                         *)
NeoEvicts(x) ==
    /\ IsPending(x)
    /\ IF neoTx[x].kind = "proof" THEN Loss("evict", neoTx[x].key)
                                  ELSE Fault("evict")
    /\ neoTx' = [neoTx EXCEPT ![x].status = "gone"]
    /\ UNCHANGED <<polyHeight, unspent, neoDone, synced>>

(* Another relayer relays the same transfer first.                         *)
OtherExecutes(key) ==
    /\ key \in KeysUpTo(polyHeight - 1) \ neoDone
    /\ Fault("otherExec")
    /\ neoDone' = neoDone \cup {key}
    /\ UNCHANGED <<polyHeight, unspent, neoTx, synced>>

=============================================================================
