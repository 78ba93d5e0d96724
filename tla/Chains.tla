------------------------------- MODULE Chains -------------------------------
(***************************************************************************)
(* The two chains in the direction Neo -> Poly, as the code in src/service *)
(* uses them, and what may go wrong in a call to them.  None of this is    *)
(* code of the relayer: the Neo chain grows and answers queries about its  *)
(* past, the Poly chain orders and executes the transactions the relayer   *)
(* sends to its header-sync and cross-chain-manager contracts.             *)
(***************************************************************************)
EXTENDS LockEvents, Failures, Integers, FiniteSets

CONSTANTS
    NoKey,           \* the key field of a transaction that carries a header
    GenesisPeer,     \* height of the Neo header Poly was initialised with
    GenesisHeight,   \* height of the Neo chain when the relayer starts
    MaxTxs           \* bound: transactions the relayer sends to Poly

AllFaults ==
    { "lastBlock", "count", "block", "empty", "appLog", "peer", "stateRoot",
      "proof", "import", "utxo", "exec", "stored", "header", "late",
      "reorder", "event", "evict", "db", "crash", "otherImport" }

ASSUME FaultAssumption ==
    /\ Faults \subseteq AllFaults
    /\ MaxTxs \in Nat

ASSUME GenesisAssumption ==
    /\ GenesisPeer \in Heights
    /\ GenesisHeight \in Heights
    /\ NoKey \notin Keys

VARIABLES
    neoHeight,       \* height of the last block of the Neo chain
    polyTx,          \* the relayer's Poly transactions; the index is the hash
    polyDone,        \* the keys the Poly chain has imported
    peer,            \* height of the key header in Poly's CONSENSUS_PEER
    headers          \* heights of the Neo headers Poly has stored

neoVars == <<neoHeight>>

polyVars == <<polyTx, polyDone, peer, headers>>

chainVars == <<neoVars, polyVars, faultVars>>

Hashes == 1..MaxTxs

(* A proof may be asked for the block after the last one: the relayer      *)
(* moves a transfer up to peer + 1.                                        *)
ProofHeights == 0..(MaxHeight + 1)

Status == {"pending", "ok", "failed", "gone"}

PolyTx ==
    [kind : {"import"}, height : ProofHeights, key : Keys, status : Status]
      \cup
    [kind : {"header"}, height : Heights, key : {NoKey}, status : Status]

ChainsTypeOK ==
    /\ neoHeight \in Heights
    /\ polyTx \in Seq(PolyTx) /\ Len(polyTx) <= MaxTxs
    /\ polyDone \subseteq Keys
    /\ peer \in Heights
    /\ headers \subseteq Heights
    /\ FailuresTypeOK
    /\ dropped \subseteq Keys

ChainsInit ==
    /\ neoHeight = GenesisHeight
    /\ polyTx = <<>>
    /\ polyDone = {}
    /\ peer = GenesisPeer
    /\ headers = {GenesisPeer}
    /\ FailuresInit

-----------------------------------------------------------------------------

(* The validators that sign block h, its header and its state root.        *)
Signer(h) == Neo[h - 1].next

(* Poly accepts what the validators of its latest key header signed.       *)
Verifies(h) == h > 0 /\ Signer(h) = Neo[peer].next

(* ImportOuterTransfer is tried against the current state when it is sent, *)
(* and again, with what has changed since, when it is executed.            *)
Importable(key, h) == key \notin polyDone /\ Verifies(h)

(* A header at or below the peer is stored without being verified.         *)
HeaderAcceptable(h) == h <= peer \/ Verifies(h)

(* A transaction of the relayer enters Poly's pool under a new hash.       *)
Submit(kind, h, key) ==
    /\ Len(polyTx) < MaxTxs
    /\ polyTx' = Append(polyTx, [kind |-> kind, height |-> h, key |-> key,
                                 status |-> "pending"])
    /\ UNCHANGED <<polyDone, peer, headers>>

-----------------------------------------------------------------------------

NeoGrow ==
    /\ neoHeight < MaxHeight
    /\ neoHeight' = neoHeight + 1
    /\ UNCHANGED <<polyVars, faultVars>>

IsPending(x) == x \in DOMAIN polyTx /\ polyTx[x].status = "pending"

(* Transactions are executed in the order they were sent, unless the pool  *)
(* orders them otherwise.                                                  *)
IsNext(x) ==
    /\ IsPending(x)
    /\ \/ (\A y \in 1..(x - 1) : ~IsPending(y)) /\ NoFault
       \/ (\E y \in 1..(x - 1) : IsPending(y)) /\ Fault("reorder")

Resolve(x, status) == polyTx' = [polyTx EXCEPT ![x].status = status]

PolyImports(x) ==
    /\ IsNext(x) /\ polyTx[x].kind = "import"
    /\ Importable(polyTx[x].key, polyTx[x].height)
    /\ Resolve(x, "ok")
    /\ polyDone' = polyDone \cup {polyTx[x].key}
    /\ UNCHANGED <<neoHeight, peer, headers>>

(* Only a header that changes the consensus becomes the new peer.          *)
PolyStoresHeader(x) ==
    LET h == polyTx[x].height IN
    /\ IsNext(x) /\ polyTx[x].kind = "header"
    /\ HeaderAcceptable(h)
    /\ Resolve(x, "ok")
    /\ headers' = headers \cup {h}
    /\ peer' = IF h > peer /\ Neo[h].next # Neo[peer].next THEN h ELSE peer
    /\ UNCHANGED <<neoHeight, polyDone>>

PolyRejects(x) ==
    /\ IsNext(x)
    /\ IF polyTx[x].kind = "import"
         THEN ~Importable(polyTx[x].key, polyTx[x].height)
         ELSE ~HeaderAcceptable(polyTx[x].height)
    /\ Resolve(x, "failed")
    /\ UNCHANGED <<neoHeight, polyDone, peer, headers>>

(* An execution that fails for a reason of its own (out of gas, a crash).  *)
PolyFails(x) ==
    /\ IsPending(x) /\ Fault("exec")
    /\ Resolve(x, "failed")
    /\ UNCHANGED <<neoHeight, polyDone, peer, headers>>

(* The pool drops the transaction: it never has an event.                  *)
PolyEvicts(x) ==
    /\ IsPending(x) /\ Fault("evict")
    /\ Resolve(x, "gone")
    /\ UNCHANGED <<neoHeight, polyDone, peer, headers>>

(* Another relayer imports the same transfer first.                        *)
OtherImports(key) ==
    /\ key \in KeysUpTo(neoHeight) \ polyDone
    /\ Fault("otherImport")
    /\ polyDone' = polyDone \cup {key}
    /\ UNCHANGED <<neoHeight, polyTx, peer, headers>>

PolyStep(x) == PolyImports(x) \/ PolyStoresHeader(x) \/ PolyRejects(x)

PolyFault(x) == PolyFails(x) \/ PolyEvicts(x)

=============================================================================
