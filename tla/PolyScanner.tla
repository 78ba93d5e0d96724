----------------------------- MODULE PolyScanner -----------------------------
(***************************************************************************)
(* The goroutine RelayToNeo (src/service/rtonService.go:12-97): it scans   *)
(* the Poly chain block by block, sends a proof of every transfer to Neo   *)
(* (syncProofToNeo) and then, when the block changes Poly's peers, the     *)
(* block's header with the new keepers (changeBookKeeper).                 *)
(*                                                                         *)
(*   count     about to ask for the height of the Poly chain               *)
(*   block     at the head of the loop over the blocks m..n-1              *)
(*   work      in the block, the positions in todo are still to be visited *)
(*   pay       in syncProofToNeo, in MakeInvocationTransaction and after   *)
(*   putRetry  in syncProofToNeo, before PutNeoRetry                       *)
(*   settle    in waitForNeoBlock before changeBookKeeper                  *)
(*   change    in changeBookKeeper, before MakeInvocationTransaction       *)
(*   wait      in waitForNeoBlock after SendRawTransaction                 *)
(*                                                                         *)
(* The loop variable i and the cursor are increased together and nowhere   *)
(* else: neoSyncHeight stands for both.                                    *)
(***************************************************************************)
EXTENDS Payments

CONSTANTS
    PolyStartHeight,     \* config.PolyStartHeight
    ChangeBookkeeper     \* config.ChangeBookkeeper

(* Neo knows the keepers of the block the operator starts at.              *)
ASSUME StartAssumption ==
    /\ PolyStartHeight \in 1..GenesisHeight
    /\ \A b \in KeyBlocks : b # 0 => b >= PolyStartHeight
    /\ ChangeBookkeeper \in BOOLEAN

VARIABLES
    spc,                 \* where the goroutine is
    neoSyncHeight,       \* the next block to be relayed, and the current one
    n,                   \* relayToNeo: the end of the scan
    todo,                \* relayToNeo: the positions not yet visited
    key,                 \* syncProofToNeo: the key of the transfer
    signed,              \* syncProofToNeo: the height of the header to be signed
    waited               \* waitForNeoBlock: the transactions sent before it

scanVars == <<spc, neoSyncHeight, n, todo, key, signed, waited>>

ScannerTypeOK ==
    /\ spc \in {"count", "block", "work", "pay", "putRetry", "settle",
                "change", "wait"}
    /\ neoSyncHeight \in Heights
    /\ n \in Heights
    /\ spc \notin {"count", "block"} => neoSyncHeight < n
    /\ todo \subseteq WorkOf[neoSyncHeight]
    /\ key \in Keys \cup {NoKey}
    /\ spc \in {"pay", "putRetry"} => key \in Keys
    /\ signed \in 0..(MaxHeight + 2)
    /\ waited \in 0..MaxTxs

(* A new process: the cursor restarts from the configuration.              *)
ScannerInit ==
    /\ spc = "count"
    /\ neoSyncHeight = PolyStartHeight
    /\ n = 0
    /\ todo = {}
    /\ key = NoKey /\ signed = 0
    /\ waited = 0

ScannerReset ==
    /\ spc' = "count"
    /\ neoSyncHeight' = PolyStartHeight
    /\ n' = 0
    /\ todo' = {}
    /\ key' = NoKey /\ signed' = 0
    /\ waited' = 0

-----------------------------------------------------------------------------

(* On an error the height is 0: there is nothing to scan.                  *)
GetBlockHeight ==
    /\ spc = "count"
    /\ \/ NoFault /\ n' = polyHeight
       \/ Fault("count") /\ n' = 0
    /\ spc' = "block"
    /\ UNCHANGED <<nodeVars, neoStoreVars, payVars, neoSyncHeight, todo, key,
                   signed, waited>>

(* relayToNeo returns: at the end of the scan, or with an error.           *)
LeaveScan ==
    /\ spc' = "count"
    /\ n' = 0
    /\ todo' = {}
    /\ UNCHANGED <<nodeVars, neoStoreVars, payVars, neoSyncHeight, key, signed,
                   waited>>

EndScan == spc = "block" /\ neoSyncHeight >= n /\ NoFault /\ LeaveScan

(* A mutant: the scan includes its end.                                    *)
GetEventsAtEnd ==
    /\ spc = "block" /\ neoSyncHeight <= n
    /\ NoFault
    /\ todo' = WorkOf[neoSyncHeight]
    /\ spc' = "work"
    /\ UNCHANGED <<nodeVars, neoStoreVars, payVars, neoSyncHeight, n, key,
                   signed, waited>>

GetEvents ==
    /\ spc = "block" /\ neoSyncHeight < n
    /\ NoFault
    /\ todo' = WorkOf[neoSyncHeight]
    /\ spc' = "work"
    /\ UNCHANGED <<nodeVars, neoStoreVars, payVars, neoSyncHeight, n, key,
                   signed, waited>>

(* A mutant: the block is passed over.                                     *)
GetEventsSkips ==
    /\ spc = "block" /\ neoSyncHeight < n
    /\ Fault("events")
    /\ neoSyncHeight' = neoSyncHeight + 1
    /\ UNCHANGED <<nodeVars, neoStoreVars, payVars, spc, n, todo, key, signed,
                   waited>>

GetEventsFails ==
    spc = "block" /\ neoSyncHeight < n /\ Fault("events") /\ LeaveScan

-----------------------------------------------------------------------------
(* syncProofToNeo                                                          *)

AtWork(p) == spc = "work" /\ IsFirst(p, todo)

TakeTransfer(p) ==
    /\ AtWork(p) /\ p \in TransfersOf[neoSyncHeight]
    /\ \E last \in {0, LastSynced} :
           /\ SyncedRead(last)
           /\ signed' = SignedHeader(neoSyncHeight, last)
    /\ signed' <= polyHeight
    /\ todo' = todo \ {p}
    /\ key' = KeyAt(neoSyncHeight, p)
    /\ spc' = "pay"
    /\ UNCHANGED <<nodeVars, neoStoreVars, payVars, neoSyncHeight, n, waited>>

Pass(p) ==
    /\ todo' = todo \ {p}
    /\ UNCHANGED <<nodeVars, neoStoreVars, payVars, spc, neoSyncHeight, n, key,
                   signed, waited>>

(* The transfer is for another contract or calls another method.           *)
SkipForeign(p) ==
    /\ AtWork(p) /\ p \notin TransfersOf[neoSyncHeight]
    /\ NoFault
    /\ Pass(p)

(* The proof or a header cannot be had; the reliable header may not exist  *)
(* yet.  The error is logged.                                              *)
GetProofFails(p) ==
    /\ AtWork(p)
    /\ \/ /\ p \in TransfersOf[neoSyncHeight]
          /\ Loss("proof", KeyAt(neoSyncHeight, p))
       \/ p \notin TransfersOf[neoSyncHeight] /\ Fault("proof")
       \/ NoFault /\ SignedHeader(neoSyncHeight, LastSynced) > polyHeight
    /\ Pass(p)

Pay ==
    /\ spc = "pay"
    /\ MakeTx("scanner")
    /\ UNCHANGED <<nodeVars, scanVars>>

Return ==
    /\ spc' = "work"
    /\ key' = NoKey /\ signed' = 0
    /\ UNCHANGED <<neoSyncHeight, n, todo, waited>>

(* Any other error of MakeInvocationTransaction than a missing balance.    *)
PayFails ==
    /\ spc = "pay"
    /\ MakeTxFails("scanner", key)
    /\ Return
    /\ UNCHANGED <<nodeVars, neoStoreVars>>

(* A mutant: what cannot be sent now is logged like any other error.       *)
PutAsideNever ==
    /\ spc = "pay"
    /\ \/ NotEnough("scanner")
       \/ TxRefused("scanner")
       \/ SendFails("scanner") /\ Fault("send")
    /\ Return
    /\ UNCHANGED <<nodeVars, neoStoreVars>>

(* Not enough balance, or the transaction is not accepted.                 *)
PutAside ==
    /\ spc = "pay"
    /\ \/ NotEnough("scanner")
       \/ TxRefused("scanner")
       \/ SendFails("scanner") /\ Fault("send")
    /\ spc' = "putRetry"
    /\ UNCHANGED <<nodeVars, neoStoreVars, neoSyncHeight, n, todo, key, signed,
                   waited>>

StoreNeoRetry ==
    /\ spc = "putRetry"
    /\ \/ NoFault /\ PutNeoRetry([height |-> neoSyncHeight, key |-> key])
       \/ Loss("db", key) /\ UNCHANGED neoRetry
    /\ Return
    /\ UNCHANGED <<nodeVars, payVars, utxo>>

Send ==
    /\ spc = "pay"
    /\ SendTx("scanner", key, signed)
    /\ UNCHANGED <<neoStoreVars, scanVars>>

Mark ==
    /\ spc = "pay"
    /\ \/ MarkOne("scanner") /\ UNCHANGED scanVars
       \/ MarkLast("scanner") /\ Return
    /\ UNCHANGED <<nodeVars, neoRetry>>

MarkEnds ==
    /\ spc = "pay"
    /\ MarkFails("scanner")
    /\ Return
    /\ UNCHANGED <<nodeVars, neoStoreVars>>

-----------------------------------------------------------------------------
(* The end of a block, with changeBookKeeper                               *)

Advance ==
    /\ neoSyncHeight' = neoSyncHeight + 1
    /\ spc' = "block"
    /\ waited' = 0
    /\ UNCHANGED <<n, todo, key, signed>>

BlockDone == spc = "work" /\ todo = {}

ChangesKeepers == ChangeBookkeeper /\ Poly[neoSyncHeight].config

FinishBlock ==
    /\ BlockDone
    /\ ~ChangesKeepers
    /\ NoFault
    /\ Advance
    /\ UNCHANGED <<nodeVars, neoStoreVars, payVars>>

GetBlockFails ==
    BlockDone /\ ChangeBookkeeper /\ Fault("block") /\ LeaveScan

(* A mutant: nobody waits for the transfers of the epoch.                  *)
ChangeAtOnce ==
    /\ BlockDone
    /\ ChangesKeepers
    /\ NoFault
    /\ waited' = 0
    /\ spc' = "change"
    /\ UNCHANGED <<nodeVars, neoStoreVars, payVars, neoSyncHeight, n, todo, key,
                   signed>>

FinishKeyBlock ==
    /\ BlockDone
    /\ ChangesKeepers
    /\ NoFault
    /\ waited' = Len(neoTx)
    /\ spc' = "settle"
    /\ UNCHANGED <<nodeVars, neoStoreVars, payVars, neoSyncHeight, n, todo, key,
                   signed>>

(* A new Neo block has what the pool had when the wait began, unless the   *)
(* block came too early or an error of the query ended the wait.           *)
BlockGenerated ==
    \/ (\A x \in 1..waited : ~IsPending(x)) /\ NoFault
    \/ (\E x \in 1..waited : IsPending(x)) /\ Fault("late")

Settled ==
    /\ spc = "settle"
    /\ BlockGenerated
    /\ spc' = "change"
    /\ UNCHANGED <<nodeVars, neoStoreVars, payVars, neoSyncHeight, n, todo, key,
                   signed, waited>>

(* The SDK's own choice of inputs, which knows nothing of bucket Utxo.     *)
Affordable == Worth(unspent) >= Fee

SendKeepers ==
    /\ spc = "change"
    /\ NoFault
    /\ Affordable
    /\ \E inputs \in {InputsOf(unspent)} :
           /\ Acceptable(inputs)
           /\ Submit("keepers", NoKey, neoSyncHeight, inputs,
                     Worth(inputs) - Fee)
    /\ waited' = Len(neoTx')
    /\ spc' = "wait"
    /\ UNCHANGED <<neoStoreVars, payVars, neoSyncHeight, n, todo, key, signed>>

(* An error of changeBookKeeper is logged, and the block counts as done.   *)
KeepersRefused ==
    /\ spc = "change"
    /\ \/ ~(Affordable /\ Acceptable(InputsOf(unspent))) /\ NoFault
       \/ Fault("keepers")
    /\ Advance
    /\ UNCHANGED <<nodeVars, neoStoreVars, payVars>>

(* A mutant: nobody waits for the keepers.                                 *)
KeepersIgnored ==
    /\ spc = "wait"
    /\ NoFault
    /\ Advance
    /\ UNCHANGED <<nodeVars, neoStoreVars, payVars>>

KeepersChanged ==
    /\ spc = "wait"
    /\ BlockGenerated
    /\ Advance
    /\ UNCHANGED <<nodeVars, neoStoreVars, payVars>>

-----------------------------------------------------------------------------

Visit(p) == TakeTransfer(p) \/ SkipForeign(p) \/ GetProofFails(p)

SyncProof ==
    Pay \/ PayFails \/ PutAside \/ StoreNeoRetry \/ Send \/ Mark \/ MarkEnds

EndBlock ==
    \/ FinishBlock \/ GetBlockFails \/ FinishKeyBlock
    \/ Settled \/ SendKeepers \/ KeepersRefused \/ KeepersChanged

ScannerStep ==
    \/ GetBlockHeight \/ EndScan \/ GetEvents \/ GetEventsFails
    \/ \E p \in todo : Visit(p)
    \/ SyncProof
    \/ EndBlock

=============================================================================
