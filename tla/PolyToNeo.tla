------------------------------ MODULE PolyToNeo ------------------------------
(***************************************************************************)
(* The direction Poly -> Neo of the relayer: the two goroutines of         *)
(* src/service/rtonService.go, which share the buckets NeoRetry and Utxo   *)
(* and the utxos of one address, between the two chains.  The process may  *)
(* crash at any step.                                                      *)
(***************************************************************************)
EXTENDS PolyScanner, NeoRetrier

vars == <<nodeVars, faultVars, neoStoreVars, payVars, scanVars, retrierVars>>

TypeOK ==
    /\ NodeTypeOK /\ NeoStoreTypeOK /\ PaymentsTypeOK
    /\ ScannerTypeOK /\ RetrierTypeOK

Init ==
    NodeInit /\ NeoStoreInit /\ PaymentsInit /\ ScannerInit /\ RetrierInit

Scanner == ScannerStep /\ UNCHANGED retrierVars

Retrier == RetrierStep /\ UNCHANGED scanVars

Relayer == <<neoStoreVars, payVars, scanVars, retrierVars>>

Neo == (\E x \in DOMAIN neoTx : NeoExecutes(x)) /\ UNCHANGED Relayer

NeoTrouble ==
    /\ \/ \E x \in DOMAIN neoTx : NeoEvicts(x)
       \/ \E k \in Keys : OtherExecutes(k)
    /\ UNCHANGED Relayer

PolyBlock == PolyGrow /\ UNCHANGED Relayer

Crash ==
    /\ Fault("crash")
    /\ ScannerReset /\ RetrierReset
    /\ step' = [g \in Payer |-> "none"]
    /\ left' = [g \in Payer |-> {}]
    /\ avail' = [g \in Payer |-> {}]
    /\ UNCHANGED <<nodeVars, neoStoreVars>>

Next == Scanner \/ Retrier \/ Neo \/ NeoTrouble \/ PolyBlock \/ Crash

Spec == Init /\ [][Next]_vars

(* Both goroutines loop for ever, Neo makes blocks and so does Poly.       *)
FairSpec ==
    /\ Spec
    /\ WF_vars(Scanner) /\ WF_vars(Retrier)
    /\ WF_vars(Neo) /\ WF_vars(PolyBlock)

-----------------------------------------------------------------------------

InFlight(k) == \E x \in DOMAIN neoTx : IsPending(x) /\ neoTx[x].key = k

IsRetried(k) == \E r \in neoRetry : r.key = k

(* Neo has executed the transfer, or a failure made the relayer drop it.   *)
Closed == neoDone \cup dropped

(* A transfer that is not closed is in the pool, or the database remembers *)
(* it.                                                                     *)
Kept(k) == k \in Closed \/ InFlight(k) \/ IsRetried(k)

(* A block's transfers are behind the cursor once it is past the block.    *)
(* None of them is lost but by a failure the code does not handle.         *)
NothingForgotten ==
    \A h \in PolyStartHeight..(neoSyncHeight - 1) :
        \A k \in KeysOf[h] : Kept(k)

(* Neo knows the keepers of the blocks behind the cursor, so that it can   *)
(* verify what the later blocks emit.                                      *)
KeepersSynced ==
    \A h \in PolyStartHeight..(neoSyncHeight - 1) :
        Poly[h].config => synced >= h

(* A proof on its way to a Neo block is signed by the keepers Neo knows:   *)
(* no change of keepers has overtaken it, and none is missing.             *)
ProofsVerify ==
    \A x \in DOMAIN neoTx :
        IsPending(x) /\ neoTx[x].kind = "proof" => Verifies(neoTx[x].signed)

(* Poly commits to the transfer in the header whose signatures Neo checks, *)
(* and that header exists: Neo finds the transfer in the state it proves.  *)
ProofsCover ==
    \A x \in DOMAIN neoTx :
        neoTx[x].kind = "proof" =>
            /\ neoTx[x].signed <= polyHeight
            /\ neoTx[x].key \in KeysUpTo(neoTx[x].signed - 1)

(* A utxo is marked as spent only when a transaction spends it: the money  *)
(* of the address is not locked away.                                      *)
MarksJustified ==
    \A c \in DOMAIN utxo : utxo[c] => \E x \in DOMAIN neoTx : c \in neoTx[x].inputs

(* A transfer is paid for once: the scanner and the retrier never both     *)
(* send it, and neither sends it twice.                                    *)
SentOnce ==
    \A x, y \in DOMAIN neoTx :
        neoTx[x].kind = "proof" /\ neoTx[x].key = neoTx[y].key => x = y

SentFor(k) == { x \in DOMAIN neoTx : neoTx[x].key = k }

(* A failure makes the relayer pay twice more for a transfer at most: once *)
(* because its block is scanned again, once because a record that was sent *)
(* is still in the bucket.                                                 *)
SentPerFailure ==
    \A k \in Keys : Cardinality(SentFor(k)) <= 1 + 2 * (MaxFaults - faults)

-----------------------------------------------------------------------------

Ledger ==
    INSTANCE TransferLedger
        WITH Ids <- Keys,
             emitted <- KeysUpTo(polyHeight),
             owed <- { k \in Keys : InFlight(k) \/ IsRetried(k) } \ Closed,
             settled <- neoDone,
             abandoned <- dropped

(* The database and the pool keep the promise of the abstract ledger.      *)
LedgerKept == Ledger!Spec

(* The utxos that are marked as spent by a transaction the pool dropped:   *)
(* the node lists them, and GetBalance leaves them out.                    *)
Frozen ==
    { c \in unspent :
        /\ IsListed(c) /\ utxo[c]
        /\ \A x \in DOMAIN neoTx : c \in neoTx[x].inputs => ~IsPending(x) }

(* The address cannot pay for a transaction because of them.               *)
Broke == Frozen # {} /\ Worth(unspent \ Frozen) < Fee

(* Every transfer in a block that has a successor is executed, unless a    *)
(* failure made the relayer drop it or the address cannot pay any more.    *)
AllRelayed ==
    \A k \in Keys :
        (\E h \in PolyStartHeight..(polyHeight - 1) : k \in KeysOf[h])
            ~> k \in Closed \/ Broke

(* No record is retried for ever.                                          *)
RetryDrains == <>[](neoRetry = {}) \/ <>[]Broke

=============================================================================
