----------------------------- MODULE NeoScanner -----------------------------
(***************************************************************************)
(* The goroutine NeoToRelay (src/service/ntorService.go:12-181): it scans  *)
(* the Neo chain block by block, sends a proof of every transfer to Poly   *)
(* (syncProofToRelay) and then the block's header when it changes the      *)
(* consensus (syncHeaderToRelay).                                          *)
(*                                                                         *)
(* A step is what happens between two calls whose interleaving with the    *)
(* other goroutine or with the chains can be seen.  Queries about the past *)
(* of the Neo chain are answered the same whenever they are made, so they  *)
(* belong to the step that uses the answer.  Local variables that are dead *)
(* hold their initial value.                                               *)
(*                                                                         *)
(*   start     about to load the consensus of the last synced block        *)
(*   count     about to ask for the height of the Neo chain                *)
(*   block     at the head of the loop over the blocks m..n-1              *)
(*   work      in block i, the positions in todo are still to be visited   *)
(*   prove     in syncProofToRelay, before ImportOuterTransfer             *)
(*   putRetry  in syncProofToRelay, before PutRetry                        *)
(*   putCheck  in syncProofToRelay, after ImportOuterTransfer              *)
(*   wait      in waitForRelayBlock, after SyncBlockHeader                 *)
(***************************************************************************)
EXTENDS RelayStore

CONSTANTS
    NeoStartHeight,      \* config.NeoStartHeight
    QuickRestart         \* whether a process that crashed may be back before
                         \* Poly has executed what the old one sent

(* The operator starts the relayer at a block that exists, and Poly knows  *)
(* the validators of that block.                                           *)
ASSUME StartAssumption ==
    /\ QuickRestart \in BOOLEAN
    /\ NeoStartHeight \in 0..GenesisHeight
    /\ \A h \in GenesisPeer..(NeoStartHeight - 1) :
           Neo[h].next = Neo[GenesisPeer].next

VARIABLES
    spc,                 \* where the goroutine is
    relaySyncHeight,     \* the next height to be synced
    neoNextConsensus,    \* NextConsensus of the last synced block
    i, n,                \* neoToRelay: the current block and the end of the scan
    todo,                \* neoToRelay: the positions of block i not yet visited
    key, passed,         \* syncProofToRelay: its arguments
    txHash               \* the hash of the Poly transaction just sent

scanVars ==
    <<spc, relaySyncHeight, neoNextConsensus, i, n, todo, key, passed, txHash>>

InBlock == spc \in {"work", "prove", "putRetry", "putCheck", "wait"}

ScannerTypeOK ==
    /\ spc \in {"start", "count", "block", "work", "prove", "putRetry",
                "putCheck", "wait"}
    /\ relaySyncHeight \in Heights
    /\ neoNextConsensus \in Consensus \cup {NoConsensus}
    /\ i \in Heights /\ n \in Heights
    /\ InBlock => i < n
    /\ todo \subseteq WorkOf[i]
    /\ spc \notin {"work", "prove", "putRetry", "putCheck"} => todo = {}
    /\ key \in Keys \cup {NoKey}
    /\ spc \in {"prove", "putRetry", "putCheck"} => key \in Keys
    /\ passed \in ProofHeights
    /\ txHash \in Hashes \cup {0}
    /\ spc \in {"putCheck", "wait"} => txHash \in Hashes

(* A new process: the cursor restarts from the configuration.              *)
ScannerInit ==
    /\ spc = "start"
    /\ relaySyncHeight = NeoStartHeight
    /\ neoNextConsensus = NoConsensus
    /\ i = 0 /\ n = 0
    /\ todo = {}
    /\ key = NoKey /\ passed = 0
    /\ txHash = 0

ScannerReset ==
    /\ spc' = "start"
    /\ relaySyncHeight' = NeoStartHeight
    /\ neoNextConsensus' = NoConsensus
    /\ i' = 0 /\ n' = 0
    /\ todo' = {}
    /\ key' = NoKey /\ passed' = 0
    /\ txHash' = 0

-----------------------------------------------------------------------------

LoadConsensus ==
    /\ spc = "start"
    /\ QuickRestart \/ \A x \in DOMAIN polyTx : ~IsPending(x)
    /\ \/ /\ NoFault
          /\ neoNextConsensus' = IF relaySyncHeight = 0 THEN NoConsensus
                                   ELSE Neo[relaySyncHeight - 1].next
       \/ /\ Fault("lastBlock") /\ relaySyncHeight > 0
          /\ UNCHANGED neoNextConsensus
    /\ spc' = "count"
    /\ UNCHANGED <<neoVars, polyVars, storeVars, relaySyncHeight, i, n, todo,
                   key, passed, txHash>>

(* A mutant: 1 is subtracted from the block count once too often.          *)
GetBlockCountShort ==
    /\ spc = "count"
    /\ \/ NoFault /\ n' = neoHeight - 1
       \/ Fault("count") /\ n' \in {0, relaySyncHeight}
    /\ i' = relaySyncHeight
    /\ spc' = "block"
    /\ UNCHANGED <<neoVars, polyVars, storeVars, relaySyncHeight,
                   neoNextConsensus, todo, key, passed, txHash>>

(* On an error the height stays 0; after five zeroes it is the cursor's.   *)
GetBlockCount ==
    /\ spc = "count"
    /\ \/ NoFault /\ n' = neoHeight
       \/ Fault("count") /\ n' \in {0, relaySyncHeight}
    /\ i' = relaySyncHeight
    /\ spc' = "block"
    /\ UNCHANGED <<neoVars, polyVars, storeVars, relaySyncHeight,
                   neoNextConsensus, todo, key, passed, txHash>>

(* neoToRelay returns: at the end of the scan, or with an error.           *)
LeaveScan ==
    /\ spc' = "count"
    /\ i' = 0 /\ n' = 0
    /\ todo' = {}
    /\ UNCHANGED <<neoVars, polyVars, storeVars, relaySyncHeight,
                   neoNextConsensus, key, passed, txHash>>

EndScan == spc = "block" /\ i >= n /\ NoFault /\ LeaveScan

(* A mutant: the scan includes its end.                                    *)
GetBlockAtEnd ==
    /\ spc = "block" /\ i <= n
    /\ NoFault
    /\ todo' = WorkOf[i]
    /\ spc' = "work"
    /\ UNCHANGED <<neoVars, polyVars, storeVars, relaySyncHeight,
                   neoNextConsensus, i, n, key, passed, txHash>>

GetBlock ==
    /\ spc = "block" /\ i < n
    /\ NoFault
    /\ todo' = WorkOf[i]
    /\ spc' = "work"
    /\ UNCHANGED <<neoVars, polyVars, storeVars, relaySyncHeight,
                   neoNextConsensus, i, n, key, passed, txHash>>

(* A mutant: an error skips the block instead of ending the scan.          *)
GetBlockSkips ==
    /\ spc = "block" /\ i < n
    /\ Fault("block")
    /\ i' = i + 1
    /\ UNCHANGED <<neoVars, polyVars, storeVars, spc, relaySyncHeight,
                   neoNextConsensus, n, todo, key, passed, txHash>>

GetBlockFails == spc = "block" /\ i < n /\ Fault("block") /\ LeaveScan

(* Five empty answers: the loop goes on with the next block, and           *)
(* relaySyncHeight is not advanced.                                        *)
GetBlockEmpty ==
    /\ spc = "block" /\ i < n
    /\ Fault("empty")
    /\ i' = i + 1
    /\ UNCHANGED <<neoVars, polyVars, storeVars, spc, relaySyncHeight,
                   neoNextConsensus, n, todo, key, passed, txHash>>

-----------------------------------------------------------------------------

AtWork(p) == spc = "work" /\ IsFirst(p, todo)

ReadLog(p) ==
    /\ AtWork(p) /\ p \in LogsOf[i]
    /\ NoFault
    /\ todo' = todo \ {p}
    /\ UNCHANGED <<neoVars, polyVars, storeVars, spc, relaySyncHeight,
                   neoNextConsensus, i, n, key, passed, txHash>>

ReadLogFails(p) ==
    AtWork(p) /\ p \in LogsOf[i] /\ Fault("appLog") /\ LeaveScan

StopAtMalformed(p) ==
    AtWork(p) /\ p \in MalformedOf[i] /\ NoFault /\ LeaveScan

(* The goroutine is about to panic, which ends the process.                *)
Panicking == \E p \in todo : AtWork(p) /\ p \in FatalOf[i]

(* Mutants: the height after the peer whatever the block; the height of    *)
(* the peer itself, when that is the block at hand.                        *)
ProofHeightAfterPeer == peer + 1

ProofHeightAtPeer == IF i >= peer THEN i ELSE peer + 1

(* The proof is asked for block i, or for the first block after the peer   *)
(* when Poly has already moved past block i.                               *)
ProofHeight == IF i >= peer + 1 THEN i ELSE peer + 1

TakeTransfer(p) ==
    /\ AtWork(p) /\ p \in TransfersOf[i]
    /\ NoFault
    /\ todo' = todo \ {p}
    /\ key' = KeyAt(i, p)
    /\ passed' = ProofHeight
    /\ spc' = "prove"
    /\ UNCHANGED <<neoVars, polyVars, storeVars, relaySyncHeight,
                   neoNextConsensus, i, n, txHash>>

GetPeerFails(p) ==
    AtWork(p) /\ p \in TransfersOf[i] /\ Fault("peer") /\ LeaveScan

-----------------------------------------------------------------------------
(* syncProofToRelay                                                        *)

(* The state roots up to passed exist: the busy loop has ended.            *)
Proving == spc = "prove" /\ passed <= neoHeight

Return ==
    /\ spc' = "work"
    /\ key' = NoKey /\ passed' = 0 /\ txHash' = 0
    /\ UNCHANGED <<relaySyncHeight, neoNextConsensus, i, n, todo>>

SendProof ==
    /\ Proving
    /\ NoFault
    /\ Importable(key, passed)
    /\ Submit("import", passed, key)
    /\ txHash' = Len(polyTx')
    /\ spc' = "putCheck"
    /\ UNCHANGED <<neoVars, storeVars, relaySyncHeight, neoNextConsensus,
                   i, n, todo, key, passed>>

(* "tx already done", or any other refusal: logged, nothing is stored.     *)
ProofRefused ==
    /\ Proving
    /\ \/ ~Importable(key, passed) /\ NoFault
       \/ Loss("import", key)
    /\ Return
    /\ UNCHANGED <<neoVars, polyVars, storeVars>>

(* GetProof or the decoding of its answer fails: nothing is stored.        *)
GetProofFails ==
    /\ Proving
    /\ Loss("proof", key)
    /\ Return
    /\ UNCHANGED <<neoVars, polyVars, storeVars>>

(* GetStateHeight, which may fail while it waits, or GetStateRootByIndex.  *)
GetStateRootFails ==
    /\ spc = "prove"
    /\ Fault("stateRoot")
    /\ spc' = "putRetry"
    /\ UNCHANGED <<neoVars, polyVars, storeVars, relaySyncHeight,
                   neoNextConsensus, i, n, todo, key, passed, txHash>>

(* "chooseUtxos, current utxo is not enough"                               *)
NoUtxo ==
    /\ Proving
    /\ Fault("utxo")
    /\ spc' = "putRetry"
    /\ UNCHANGED <<neoVars, polyVars, storeVars, relaySyncHeight,
                   neoNextConsensus, i, n, todo, key, passed, txHash>>

(* A failed write is logged, or not looked at.                             *)
StoreRetry ==
    /\ spc = "putRetry"
    /\ \/ NoFault /\ PutRetry([height |-> passed, key |-> key])
       \/ Loss("db", key) /\ UNCHANGED retry
    /\ Return
    /\ UNCHANGED <<neoVars, polyVars, check>>

(* A mutant: the record carries the height of the block, not of the proof. *)
StoreCheckOfBlock ==
    /\ spc = "putCheck"
    /\ \/ NoFault /\ PutCheck(txHash, [height |-> i, key |-> key])
       \/ Loss("db", key) /\ UNCHANGED check
    /\ Return
    /\ UNCHANGED <<neoVars, polyVars, retry>>

StoreCheck ==
    /\ spc = "putCheck"
    /\ \/ NoFault /\ PutCheck(txHash, [height |-> passed, key |-> key])
       \/ Loss("db", key) /\ UNCHANGED check
    /\ Return
    /\ UNCHANGED <<neoVars, polyVars, retry>>

-----------------------------------------------------------------------------
(* The end of a block, with syncHeaderToRelay                              *)

IsKeyBlock == Neo[i].next # neoNextConsensus

Advance ==
    /\ neoNextConsensus' = Neo[i].next
    /\ relaySyncHeight' = relaySyncHeight + 1
    /\ i' = i + 1
    /\ spc' = "block"
    /\ txHash' = 0
    /\ UNCHANGED <<n, todo, key, passed>>

(* A mutant: the header is handled while transfers of the block are left.  *)
BlockDoneEarly == spc = "work"

BlockDone == spc = "work" /\ todo = {}

FinishBlock ==
    /\ BlockDone
    /\ ~IsKeyBlock \/ i \in headers
    /\ NoFault
    /\ Advance
    /\ UNCHANGED <<neoVars, polyVars, storeVars>>

(* The header is not on Poly, or the query for it fails: its error is not  *)
(* looked at.                                                              *)
HeaderUnseen ==
    \/ i \notin headers /\ NoFault
    \/ i \in headers /\ Fault("stored")

SendHeader ==
    /\ BlockDone /\ IsKeyBlock
    /\ HeaderUnseen
    /\ HeaderAcceptable(i)
    /\ Submit("header", i, NoKey)
    /\ txHash' = Len(polyTx')
    /\ spc' = "wait"
    /\ UNCHANGED <<neoVars, storeVars, relaySyncHeight, neoNextConsensus,
                   i, n, todo, key, passed>>

(* An error of syncHeaderToRelay is logged; the consensus is advanced as   *)
(* if the header had been synced.                                          *)
HeaderRefused ==
    /\ BlockDone /\ IsKeyBlock
    /\ \/ ~HeaderAcceptable(i) /\ HeaderUnseen
       \/ i \notin headers /\ Fault("header")
    /\ Advance
    /\ UNCHANGED <<neoVars, polyVars, storeVars>>

(* A mutant: nobody waits for the header.                                  *)
RelayBlockIgnored ==
    /\ spc = "wait"
    /\ NoFault
    /\ Advance
    /\ UNCHANGED <<neoVars, polyVars, storeVars>>

(* One Poly block later, or after 90 seconds, with the header or without.  *)
RelayBlockGenerated ==
    /\ spc = "wait"
    /\ \/ ~IsPending(txHash) /\ NoFault
       \/ IsPending(txHash) /\ Fault("late")
    /\ Advance
    /\ UNCHANGED <<neoVars, polyVars, storeVars>>

-----------------------------------------------------------------------------

Visit(p) ==
    ReadLog(p) \/ ReadLogFails(p) \/ StopAtMalformed(p) \/ TakeTransfer(p)
      \/ GetPeerFails(p)

SyncProof ==
    SendProof \/ ProofRefused \/ GetProofFails \/ GetStateRootFails \/ NoUtxo
      \/ StoreRetry \/ StoreCheck

EndBlock ==
    FinishBlock \/ SendHeader \/ HeaderRefused \/ RelayBlockGenerated

ScannerStep ==
    \/ LoadConsensus \/ GetBlockCount \/ EndScan
    \/ GetBlock \/ GetBlockFails \/ GetBlockEmpty
    \/ \E p \in todo : Visit(p)
    \/ SyncProof
    \/ EndBlock

=============================================================================
