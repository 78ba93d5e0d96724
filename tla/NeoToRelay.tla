----------------------------- MODULE NeoToRelay -----------------------------
(***************************************************************************)
(* The direction Neo -> Poly of the relayer: the two goroutines of         *)
(* src/service/ntorService.go, which share the buckets Check and Retry,    *)
(* between the two chains.  The process may crash at any step; what it had *)
(* in memory is lost, what is in the database and on the chains is not.    *)
(***************************************************************************)
EXTENDS NeoScanner, CheckAndRetry

vars == <<chainVars, storeVars, scanVars, retrierVars>>

TypeOK == ChainsTypeOK /\ StoreTypeOK /\ ScannerTypeOK /\ RetrierTypeOK

Init == ChainsInit /\ StoreInit /\ ScannerInit /\ RetrierInit

Scanner == ScannerStep /\ UNCHANGED retrierVars

Retrier == RetrierStep /\ UNCHANGED scanVars

Relayer == <<storeVars, scanVars, retrierVars>>

Poly == (\E x \in DOMAIN polyTx : PolyStep(x)) /\ UNCHANGED Relayer

PolyTrouble ==
    /\ \/ \E x \in DOMAIN polyTx : PolyFault(x)
       \/ \E k \in Keys : OtherImports(k)
    /\ UNCHANGED Relayer

NeoBlock == NeoGrow /\ UNCHANGED Relayer

(* The process is killed, or the scanner panics.                           *)
Crash ==
    /\ Fault("crash") \/ (Panicking /\ NoFault)
    /\ ScannerReset /\ RetrierReset
    /\ UNCHANGED <<neoVars, polyVars, storeVars>>

Next == Scanner \/ Retrier \/ Poly \/ PolyTrouble \/ NeoBlock \/ Crash

Spec == Init /\ [][Next]_vars

(* Both goroutines loop for ever, and both chains go on.                   *)
FairSpec ==
    /\ Spec
    /\ WF_vars(Scanner) /\ WF_vars(Retrier)
    /\ WF_vars(Poly) /\ WF_vars(NeoBlock)

-----------------------------------------------------------------------------

IsChecked(k) == \E c \in check : c.rec.key = k

IsRetried(k) == \E r \in retry : r.key = k

Tracked(k) == IsChecked(k) \/ IsRetried(k)

(* Poly has imported the transfer, or a failure made the relayer drop it.  *)
Closed == polyDone \cup dropped

(* A transfer that is not closed is remembered by the database.            *)
Kept(k) == k \in Closed \/ Tracked(k)

(* A block's transfers are behind the cursor once it is past the block.    *)
(* None of them is lost but by a failure the code does not handle.         *)
NothingForgotten ==
    \A h \in NeoStartHeight..(relaySyncHeight - 1) :
        \A k \in KeysOf[h] : Kept(k)

(* relaySyncHeight is the height of the block being processed: "means the  *)
(* next height to be synced" (ntorService.go:14).                          *)
CursorInStep == InBlock => i = relaySyncHeight

ChangesConsensus(h) == h > 0 /\ Neo[h].next # Neo[h - 1].next

(* Poly knows the key headers of the blocks behind the cursor, so that it  *)
(* can verify what the later blocks emit.                                  *)
KeyHeadersSynced ==
    \A h \in NeoStartHeight..(relaySyncHeight - 1) :
        ChangesConsensus(h) => peer >= h

(* The proof about to be sent is signed by the validators Poly knows: no   *)
(* block's header has overtaken its transfers, and none is missing.        *)
ImportsVerify == spc = "prove" => Verifies(passed)

(* A transaction sent to Poly proves its transfer against a state root     *)
(* that contains it.                                                       *)
ProofCoversTransfer ==
    \A x \in DOMAIN polyTx :
        polyTx[x].kind = "import" => polyTx[x].key \in KeysUpTo(polyTx[x].height)

(* An entry of bucket Check names the transaction that was sent for its    *)
(* record: when that fails, the record retried is the one that failed.     *)
CheckMatchesTx ==
    \A c \in check :
        /\ c.hash \in DOMAIN polyTx
        /\ polyTx[c.hash].kind = "import"
        /\ polyTx[c.hash].height = c.rec.height
        /\ polyTx[c.hash].key = c.rec.key

-----------------------------------------------------------------------------

Ledger ==
    INSTANCE TransferLedger
        WITH Ids <- Keys,
             emitted <- KeysUpTo(neoHeight),
             owed <- { k \in Keys : Tracked(k) } \ Closed,
             settled <- polyDone,
             abandoned <- dropped

(* The database keeps the promise of the abstract ledger.                  *)
LedgerKept == Ledger!Spec

(* Every transfer in a block that has a successor is imported, unless a    *)
(* failure made the relayer drop it: neoToRelay scans the blocks below the *)
(* last one.                                                               *)
AllRelayed ==
    \A k \in Keys :
        (\E h \in NeoStartHeight..(neoHeight - 1) : k \in KeysOf[h])
            ~> k \in Closed

(* The entries whose transaction Poly dropped: checkDoneTx never learns    *)
(* what became of it.                                                      *)
Stuck == { c \in check : polyTx[c.hash].status = "gone" }

(* They fill the MAX_NUM entries that GetAllCheck returns.                 *)
CrowdedOut == Cardinality(Stuck) >= MaxNum

(* What the database remembers is imported in the end, unless a failure    *)
(* made the relayer drop it, Poly dropped its transaction, or others hide  *)
(* its entry.                                                              *)
DebtsPaid ==
    \A k \in Keys :
        Tracked(k) ~> \/ k \in Closed
                      \/ \E c \in Stuck : c.rec.key = k
                      \/ CrowdedOut

(* No record is retried for ever, and no transaction is asked about for    *)
(* ever but those that have no event.                                      *)
BucketsDrain == <>[](retry = {} /\ check = Stuck) \/ <>CrowdedOut

=============================================================================
