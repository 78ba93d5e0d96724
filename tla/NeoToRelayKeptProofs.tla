----------------------- MODULE NeoToRelayKeptProofs -------------------------
(***************************************************************************)
(* That the direction Neo -> Poly forgets no transfer and keeps the        *)
(* promise of the abstract ledger as long as Poly can verify what it is    *)
(* sent: every step of the two goroutines and of the chains is a step of   *)
(* TransferLedger or a stutter of it.  Poly can while the validators do    *)
(* not change, and across their changes when nothing comes out of order.   *)
(***************************************************************************)
EXTENDS NeoToRelayProofs

-----------------------------------------------------------------------------
(* No transfer behind the cursor is forgotten                              *)

(* The validators never change: Poly can verify every state root.          *)
OneConsensus == \A g, h \in Heights : Neo[g].next = Neo[h].next

(* No block is answered empty five times.                                  *)
BlocksAnswered == "empty" \notin Faults

(* A transfer Poly reports as imported is imported.                        *)
ImportedInv ==
    \A x \in DOMAIN polyTx :
        polyTx[x].kind = "import" /\ polyTx[x].status = "ok"
            => polyTx[x].key \in polyDone

(* A bucket entry is about to be deleted only when the transfer no longer  *)
(* depends on it.                                                          *)
DeleteInv ==
    /\ rpc = "drop" => cur.key \in Closed \/ cur \in retry
    /\ rpc = "delete" => cur.key \in Closed \/ IsChecked(cur.key)

(* The transfers of the current block that are visited are kept, but for   *)
(* the one at hand.                                                        *)
BlockInv ==
    InBlock =>
        \A p \in TransfersOf[i] \ todo :
            \/ Kept(KeyAt(i, p))
            \/ spc \in {"prove", "putRetry", "putCheck"} /\ key = KeyAt(i, p)

KeptInv == StepInv /\ ImportedInv /\ DeleteInv /\ BlockInv /\ NothingForgotten

(* Poly can verify what the relayer is about to send.                      *)
Verifiable ==
    /\ ImportsVerify
    /\ rpc = "retry" => \A r \in retries : r.key \in Closed \/ Verifies(r.height)

LEMMA AlwaysVerifies ==
    ASSUME TypeInv, OneConsensus, NEW h \in ProofHeights, h > 0
    PROVE  Verifies(h)
<1>1. h - 1 \in Heights /\ peer \in Heights
  BY HeightsInt, ChainAssumption DEF ProofHeights, Heights
<1> QED
  BY <1>1 DEF Verifies, Signer, OneConsensus

LEMMA RefusedIsDone ==
    ASSUME Verifiable, ProofRefused
    PROVE  key \in polyDone \/ key \in dropped'
BY DEF Verifiable, ImportsVerify, ProofRefused, Proving, Loss, Importable

LEMMA ResendRefusedIsDone ==
    ASSUME Verifiable, NEW r \in retries, ResendRefused(r)
    PROVE  r.key \in Closed \/ r.key \in dropped'
BY DEF Verifiable, ResendRefused, Loss, Importable, Closed

LEMMA ClosedGrows ==
    ASSUME [Next]_vars
    PROVE  polyDone \subseteq polyDone' /\ dropped \subseteq dropped'
<1> USE DEF Fault, Loss, NoFault, faultVars
<1>1. CASE Scanner
  BY <1>1
     DEF Scanner, ScannerStep, LoadConsensus, GetBlockCount, EndScan, LeaveScan,
         GetBlock, GetBlockFails, GetBlockEmpty, Visit, ReadLog, ReadLogFails,
         StopAtMalformed, TakeTransfer, GetPeerFails, SyncProof, SendProof,
         ProofRefused, GetProofFails, GetStateRootFails, NoUtxo, StoreRetry,
         StoreCheck, EndBlock, FinishBlock, HeaderUnseen, SendHeader,
         HeaderRefused, RelayBlockGenerated, Submit, polyVars
<1>2. CASE Retrier
  BY <1>2
     DEF Retrier, RetrierStep, CheckDoneTx, RetryTx, GetAllCheck, EventMissing,
         EventFound, GetEventFails, StoreFailed, DropCheck, GetAllRetry,
         RetryLater, Resend, ResendRefused, StoreResent, RemoveRetry, EndRetry,
         Submit, polyVars
<1>3. CASE Poly \/ PolyTrouble
  BY <1>3
     DEF Poly, PolyTrouble, PolyStep, PolyFault, PolyImports, PolyStoresHeader,
         PolyRejects, PolyFails, PolyEvicts, OtherImports, IsNext
<1>4. CASE NeoBlock \/ Crash \/ UNCHANGED vars
  BY <1>4 DEF NeoBlock, NeoGrow, Crash, vars, chainVars, polyVars
<1> QED
  BY <1>1, <1>2, <1>3, <1>4 DEF Next

(* Storing a transaction forgets no transfer: an entry it overwrites is    *)
(* one of the same transaction.                                            *)
LEMMA PutCheckKeeps ==
    ASSUME MatchInv, NEW hash, NEW rec, SentFor(hash, rec), PutCheck(hash, rec),
           NEW k, IsChecked(k) \/ k = rec.key
    PROVE  IsChecked(k)'
<1>1. [hash |-> hash, rec |-> rec] \in check'
  BY DEF PutCheck
<1>2. CASE k = rec.key
  BY <1>1, <1>2 DEF IsChecked
<1>3. ASSUME NEW c \in check, c.rec.key = k
      PROVE  IsChecked(k)'
  <2>1. CASE c.hash = hash
    <3>1. c.rec.key = rec.key
      BY <2>1 DEF MatchInv, SentFor
    <3> QED
      BY <1>1, <1>3, <3>1 DEF IsChecked
  <2>2. CASE c.hash # hash
    <3>1. c \in check'
      BY <2>2 DEF PutCheck
    <3> QED
      BY <1>3, <3>1 DEF IsChecked
  <2> QED
    BY <2>1, <2>2
<1> QED
  BY <1>2, <1>3 DEF IsChecked

(* The scanner takes nothing out of the database.                          *)
LEMMA ScannerStores ==
    ASSUME TypeInv, MatchInv, ScannerStep
    PROVE  /\ retry \subseteq retry'
           /\ \A k : IsChecked(k) => IsChecked(k)'
<1>1. CASE StoreCheck
  <2>1. SentFor(txHash, AtHand)
    BY <1>1 DEF StoreCheck, MatchInv
  <2>2. UNCHANGED retry /\ (UNCHANGED check \/ PutCheck(txHash, AtHand))
    BY <1>1 DEF StoreCheck, AtHand
  <2> QED
    BY <2>1, <2>2, PutCheckKeeps DEF IsChecked
<1>2. ASSUME UNCHANGED check, retry \subseteq retry'
      PROVE  /\ retry \subseteq retry'
             /\ \A k : IsChecked(k) => IsChecked(k)'
  BY <1>2 DEF IsChecked
<1>3. CASE StoreRetry
  BY <1>2, <1>3 DEF StoreRetry, PutRetry
<1> QED
  BY <1>1, <1>2, <1>3
     DEF ScannerStep, LoadConsensus, GetBlockCount, EndScan, LeaveScan,
         GetBlock, GetBlockFails, GetBlockEmpty, Visit, ReadLog, ReadLogFails,
         StopAtMalformed, TakeTransfer, GetPeerFails, SyncProof, SendProof,
         ProofRefused, GetProofFails, GetStateRootFails, NoUtxo,
         EndBlock, FinishBlock, SendHeader, HeaderRefused,
         RelayBlockGenerated, storeVars

(* The other goroutine takes an entry out only when nothing depends on it. *)
LEMMA RetrierStores ==
    ASSUME TypeInv, MatchInv, DeleteInv, RetrierStep, NEW k, Tracked(k),
           polyDone \subseteq polyDone', dropped \subseteq dropped'
    PROVE  Kept(k)'
<1> USE DEF Kept, Tracked, Closed
<1>1. CASE DropCheck
  <2>1. UNCHANGED retry /\ SentFor(curHash, cur)
    BY <1>1 DEF DropCheck, MatchInv
  <2>2. CASE IsRetried(k)
    BY <2>1, <2>2 DEF IsRetried
  <2>3. ASSUME NEW c \in check, c.rec.key = k
        PROVE  Kept(k)'
    <3>1. CASE c.hash = curHash
      <4>1. k = cur.key
        BY <2>1, <2>3, <3>1 DEF MatchInv, SentFor
      <4>2. cur.key \in Closed \/ cur \in retry
        BY <1>1 DEF DropCheck, DeleteInv
      <4> QED
        BY <2>1, <4>1, <4>2 DEF IsRetried
    <3>2. CASE c.hash # curHash
      <4>1. c \in check'
        BY <1>1, <3>2 DEF DropCheck, DeleteCheck
      <4> QED
        BY <2>3, <4>1 DEF IsChecked
    <3> QED
      BY <3>1, <3>2
  <2> QED
    BY <2>2, <2>3 DEF IsChecked
<1>2. CASE RemoveRetry
  <2>1. UNCHANGED check /\ (retry' = retry \/ retry' = retry \ {cur})
    BY <1>2 DEF RemoveRetry, DeleteRetry
  <2>2. cur.key \in Closed \/ IsChecked(cur.key)
    BY <1>2 DEF RemoveRetry, DeleteInv
  <2> QED
    BY <2>1, <2>2 DEF IsChecked, IsRetried
<1>3. CASE StoreResent
  <2>1. SentFor(curHash, cur) /\ UNCHANGED retry
          /\ (UNCHANGED check \/ PutCheck(curHash, cur))
    BY <1>3 DEF StoreResent, MatchInv
  <2> QED
    BY <2>1, PutCheckKeeps DEF IsChecked, IsRetried
<1>4. ASSUME UNCHANGED check, retry \subseteq retry'
      PROVE  Kept(k)'
  BY <1>4 DEF IsChecked, IsRetried
<1>5. CASE StoreFailed
  BY <1>4, <1>5 DEF StoreFailed, PutRetry
<1> QED
  BY <1>1, <1>2, <1>3, <1>4, <1>5
     DEF RetrierStep, CheckDoneTx, RetryTx, GetAllCheck, EventMissing,
         EventFound, GetEventFails, GetAllRetry, RetryLater, Resend,
         ResendRefused, EndRetry, storeVars

(* Once kept, a transfer stays kept.                                       *)
LEMMA KeptStays ==
    ASSUME TypeInv, MatchInv, DeleteInv, [Next]_vars, NEW k, Kept(k)
    PROVE  Kept(k)'
<1>1. polyDone \subseteq polyDone' /\ dropped \subseteq dropped'
  BY ClosedGrows
<1>2. CASE k \in Closed
  BY <1>1, <1>2 DEF Kept, Closed
<1>3. CASE Tracked(k) /\ Scanner
  BY <1>3, ScannerStores DEF Scanner, Kept, Tracked, IsRetried
<1>4. CASE Tracked(k) /\ Retrier
  BY <1>1, <1>4, RetrierStores DEF Retrier
<1>5. CASE Tracked(k) /\ UNCHANGED storeVars
  BY <1>5 DEF Kept, Tracked, IsChecked, IsRetried, storeVars
<1> QED
  BY <1>2, <1>3, <1>4, <1>5
     DEF Kept, Next, Poly, PolyTrouble, NeoBlock, Relayer, Crash, vars,
         storeVars

LEMMA ImportedStep ==
    ASSUME TypeInv, ImportedInv, [Next]_vars
    PROVE  ImportedInv'
<1> USE DEF ImportedInv
<1>1. polyDone \subseteq polyDone'
  BY ClosedGrows
<1>2. ASSUME NEW kind, NEW h, NEW k, Submit(kind, h, k)
      PROVE  ImportedInv'
  <2>1. /\ Len(polyTx) \in Nat /\ DOMAIN polyTx = 1..Len(polyTx)
        /\ DOMAIN polyTx' = 1..(Len(polyTx) + 1)
        /\ Len(polyTx') = Len(polyTx) + 1
        /\ \A x \in DOMAIN polyTx : polyTx'[x] = polyTx[x]
        /\ polyTx'[Len(polyTx')] =
              [kind |-> kind, height |-> h, key |-> k, status |-> "pending"]
    BY <1>2, SubmitGrows, Zenon
  <2>2. polyTx'[Len(polyTx')].status # "ok"
    BY <2>1
  <2> QED
    BY <1>1, <2>1, <2>2
<1>3. CASE UNCHANGED polyTx
  BY <1>1, <1>3
<1>4. ASSUME NEW x \in DOMAIN polyTx, PolyStep(x) \/ PolyFault(x)
      PROVE  ImportedInv'
  <2>1. PICK s : Resolve(x, s)
            /\ (s = "ok" /\ polyTx[x].kind = "import"
                    => polyTx[x].key \in polyDone')
    BY <1>4
       DEF PolyStep, PolyFault, PolyImports, PolyStoresHeader, PolyRejects,
           PolyFails, PolyEvicts
  <2>2. /\ DOMAIN polyTx' = DOMAIN polyTx
        /\ polyTx'[x] = [polyTx[x] EXCEPT !.status = s]
        /\ \A y \in DOMAIN polyTx \ {x} : polyTx'[y] = polyTx[y]
    BY <2>1 DEF Resolve, TypeInv, TypeOK, ChainsTypeOK
  <2>3. polyTx[x] \in PolyTx
    BY DEF TypeInv, TypeOK, ChainsTypeOK
  <2>4. /\ polyTx'[x].kind = polyTx[x].kind /\ polyTx'[x].key = polyTx[x].key
        /\ polyTx'[x].status = s
    BY <2>2, <2>3 DEF PolyTx
  <2> QED
    BY <1>1, <2>1, <2>2, <2>4
<1>5. CASE Scanner
  BY <1>2, <1>3, <1>5
     DEF Scanner, ScannerStep, LoadConsensus, GetBlockCount, EndScan, LeaveScan,
         GetBlock, GetBlockFails, GetBlockEmpty, Visit, ReadLog, ReadLogFails,
         StopAtMalformed, TakeTransfer, GetPeerFails, SyncProof, SendProof,
         ProofRefused, GetProofFails, GetStateRootFails, NoUtxo, StoreRetry,
         StoreCheck, EndBlock, FinishBlock, SendHeader, HeaderRefused,
         RelayBlockGenerated, polyVars
<1>6. CASE Retrier
  BY <1>2, <1>3, <1>6
     DEF Retrier, RetrierStep, CheckDoneTx, RetryTx, GetAllCheck, EventMissing,
         EventFound, GetEventFails, StoreFailed, DropCheck, GetAllRetry,
         RetryLater, Resend, ResendRefused, StoreResent, RemoveRetry, EndRetry,
         polyVars
<1>7. CASE Poly \/ PolyTrouble
  BY <1>3, <1>4, <1>7 DEF Poly, PolyTrouble, OtherImports
<1>8. CASE NeoBlock \/ Crash \/ UNCHANGED vars
  BY <1>3, <1>8 DEF NeoBlock, NeoGrow, Crash, vars, chainVars, polyVars
<1> QED
  BY <1>5, <1>6, <1>7, <1>8 DEF Next

LEMMA DeleteStep ==
    ASSUME TypeInv, MatchInv, ImportedInv, DeleteInv, Verifiable,
           [Next]_vars
    PROVE  DeleteInv'
<1> USE DEF DeleteInv, Closed
<1>1. polyDone \subseteq polyDone' /\ dropped \subseteq dropped'
  BY ClosedGrows
<1>2. CASE Scanner
  BY <1>1, <1>2, ScannerStores DEF Scanner, retrierVars
<1>3. CASE UNCHANGED <<storeVars, retrierVars>>
  BY <1>1, <1>3 DEF storeVars, retrierVars, IsChecked
<1>4. CASE Crash
  BY <1>4 DEF Crash, RetrierReset
<1>5. ASSUME NEW c \in checks, EventFound(c)
      PROVE  DeleteInv'
  <2>1. CASE polyTx[c.hash].status = "ok"
    <3>1. c.rec.key \in polyDone
      BY <2>1 DEF MatchInv, SentFor, ImportedInv
    <3> QED
      BY <1>1, <1>5, <3>1 DEF EventFound
  <2>2. CASE polyTx[c.hash].status # "ok"
    BY <1>5, <2>2 DEF EventFound
  <2> QED
    BY <2>1, <2>2
<1>6. CASE StoreFailed
  BY <1>6 DEF StoreFailed, PutRetry, Loss
<1>7. CASE StoreResent
  <2>1. SentFor(curHash, cur)
    BY <1>7 DEF StoreResent, MatchInv
  <2> QED
    BY <1>7, <2>1, PutCheckKeeps
       DEF StoreResent, Continue
<1>8. ASSUME NEW r \in retries, ResendRefused(r)
      PROVE  DeleteInv'
  BY <1>1, <1>8, ResendRefusedIsDone DEF ResendRefused
<1>9. ASSUME rpc' \notin {"drop", "delete"}
      PROVE  DeleteInv'
  BY <1>9
<1>10. CASE Retrier
  BY <1>5, <1>6, <1>7, <1>8, <1>9, <1>10
     DEF Retrier, RetrierStep, CheckDoneTx, RetryTx, GetAllCheck, EventMissing,
         GetEventFails, DropCheck, GetAllRetry, RetryLater, Resend,
         RemoveRetry, EndRetry, Continue
<1> QED
  BY <1>2, <1>3, <1>4, <1>10
     DEF Next, Poly, PolyTrouble, NeoBlock, Relayer, vars, storeVars,
         retrierVars

(* The position of an application log is not the position of a transfer.   *)
LEMMA LogsAreNoTransfers ==
    ASSUME NEW h \in Heights
    PROVE  LogsOf[h] \cap TransfersOf[h] = {}
<1> SUFFICES ASSUME NEW p \in LogsOf[h], p \in TransfersOf[h]
             PROVE  FALSE
  OBVIOUS
<1>1. p[3] = 0
  BY DEF LogsOf, Logs
<1>2. PICK q \in ExecutionsRead(h) :
          \E m \in DOMAIN ExecutionAt(h, q).notes : p = <<q[1], q[2], m>>
  BY DEF TransfersOf, Transfers, NotesRead
<1>3. PICK t \in DOMAIN Neo[h].txs :
          q \in {t} \X DOMAIN Neo[h].txs[t].executions
  BY DEF ExecutionsRead
<1>4. Neo[h].txs[t] \in Transaction
  BY ChainAssumption DEF Block
<1>5. Neo[h].txs[t].executions[q[2]] \in Execution
  BY <1>3, <1>4 DEF Transaction
<1>6. ExecutionAt(h, q).notes \in Seq(Note)
  BY <1>3, <1>5 DEF ExecutionAt, Execution
<1>7. p[3] \in DOMAIN ExecutionAt(h, q).notes
  BY <1>2
<1> QED
  BY <1>1, <1>6, <1>7

(* Everything the invariant of the block at hand needs of the old state.   *)
LEMMA BlockStep ==
    ASSUME TypeInv, MatchInv, DeleteInv, BlockInv, Verifiable, [Next]_vars
    PROVE  BlockInv'
<1> USE DEF BlockInv, InBlock
<1>1. \A k : Kept(k) => Kept(k)'
  BY KeptStays
<1>2. CASE UNCHANGED <<spc, i, todo, key>>
  BY <1>1, <1>2
<1>3. ASSUME spc' \notin {"work", "prove", "putRetry", "putCheck", "wait"}
      PROVE  BlockInv'
  BY <1>3
<1>4. CASE GetBlock
  <2>1. TransfersOf[i] \subseteq WorkOf[i]
    BY HeightsInt DEF TransfersOf, WorkOf
  <2> QED
    BY <1>4, <2>1 DEF GetBlock
<1>5. ASSUME NEW p \in todo, ReadLog(p)
      PROVE  BlockInv'
  <2>1. p \notin TransfersOf[i]
    BY <1>5, HeightsInt, LogsAreNoTransfers DEF ReadLog
  <2> QED
    BY <1>1, <1>5, <2>1 DEF ReadLog, AtWork
<1>6. ASSUME NEW p \in todo, TakeTransfer(p)
      PROVE  BlockInv'
  BY <1>1, <1>6 DEF TakeTransfer, AtWork
<1>7. CASE ProofRefused
  <2>1. \A k : k = key => Kept(k)'
    <3>1. polyDone \subseteq polyDone'
      BY ClosedGrows
    <3> QED
      BY <1>7, <3>1, RefusedIsDone DEF Kept, Closed, ProofRefused, Return
  <2> QED
    BY <1>1, <1>7, <2>1 DEF ProofRefused, Proving, Return
<1>8. CASE StoreRetry
  <2>1. AtHand \in retry' \/ key \in dropped'
    BY <1>8 DEF StoreRetry, PutRetry, Loss, AtHand
  <2>2. (\E r \in retry' : r.key = key) \/ key \in dropped'
    BY <2>1 DEF AtHand
  <2>3. \A k : k = key => Kept(k)'
    BY <2>2 DEF Kept, Closed, Tracked, IsRetried
  <2> QED
    BY <1>1, <1>8, <2>3 DEF StoreRetry, Return
<1>9. CASE StoreCheck
  <2>1. [hash |-> txHash, rec |-> AtHand] \in check' \/ key \in dropped'
    BY <1>9 DEF StoreCheck, PutCheck, Loss, AtHand
  <2>2. (\E c \in check' : c.rec.key = key) \/ key \in dropped'
    BY <2>1 DEF AtHand
  <2>3. \A k : k = key => Kept(k)'
    BY <2>2 DEF Kept, Closed, Tracked, IsChecked
  <2> QED
    BY <1>1, <1>9, <2>3 DEF StoreCheck, Return
<1>10. CASE SendProof \/ GetStateRootFails \/ NoUtxo
  BY <1>1, <1>10 DEF SendProof, GetStateRootFails, NoUtxo, Proving
<1>11. CASE GetProofFails
  <2>1. \A k : k = key => Kept(k)'
    BY <1>11 DEF GetProofFails, Loss, Kept, Closed
  <2> QED
    BY <1>1, <1>11, <2>1 DEF GetProofFails, Proving, Return
<1>12. CASE SendHeader
  BY <1>1, <1>12 DEF SendHeader, BlockDone
<1>13. CASE Scanner
  BY <1>3, <1>4, <1>5, <1>6, <1>7, <1>8, <1>9, <1>10, <1>11, <1>12, <1>13
     DEF Scanner, ScannerStep, LoadConsensus, GetBlockCount, EndScan, LeaveScan,
         GetBlockFails, GetBlockEmpty, Visit, ReadLogFails, StopAtMalformed,
         GetPeerFails, SyncProof, EndBlock, FinishBlock, HeaderRefused,
         RelayBlockGenerated, Advance
<1> QED
  BY <1>2, <1>3, <1>13
     DEF Next, Retrier, Poly, PolyTrouble, NeoBlock, Relayer, Crash,
         ScannerReset, vars, scanVars

LEMMA ForgottenStep ==
    ASSUME TypeInv, MatchInv, DeleteInv, StepInv, BlockInv, NothingForgotten,
           [Next]_vars
    PROVE  NothingForgotten'
<1> USE DEF NothingForgotten
<1>1. \A k : Kept(k) => Kept(k)'
  BY KeptStays
<1>2. CASE UNCHANGED relaySyncHeight
  BY <1>1, <1>2
<1>3. CASE relaySyncHeight' = NeoStartHeight
  <2>1. NeoStartHeight \in Int
    BY StartAssumption
  <2> QED
    BY <1>3, <2>1
<1>4. ASSUME Advance, spc \in {"work", "wait"}, todo = {}
      PROVE  NothingForgotten'
  <2>1. i = relaySyncHeight /\ i \in Heights
    BY <1>4, HeightsInt DEF StepInv, InBlock
  <2>2. \A p \in TransfersOf[i] : Kept(KeyAt(i, p))
    BY <1>4 DEF BlockInv, InBlock
  <2>3. \A k \in KeysOf[i] : Kept(k)
    BY <2>1, <2>2 DEF KeysOf
  <2>4. relaySyncHeight \in Int /\ relaySyncHeight' = relaySyncHeight + 1
          /\ NeoStartHeight \in Int
    BY <1>4, <2>1, StartAssumption, ChainAssumption DEF Advance, Heights
  <2>5. \A h \in NeoStartHeight..(relaySyncHeight' - 1) :
            h \in NeoStartHeight..(relaySyncHeight - 1) \/ h = i
    BY <2>1, <2>4
  <2> QED
    BY <1>1, <2>3, <2>5
<1>5. CASE Scanner
  <2>1. CASE FinishBlock \/ HeaderRefused
    BY <1>4, <2>1 DEF FinishBlock, HeaderRefused, BlockDone
  <2>2. CASE RelayBlockGenerated
    <3>1. todo = {}
      BY <2>2 DEF RelayBlockGenerated, TypeInv, TypeOK, ScannerTypeOK
    <3> QED
      BY <1>4, <2>2, <3>1 DEF RelayBlockGenerated
  <2> QED
    BY <1>2, <1>5, <2>1, <2>2
       DEF Scanner, ScannerStep, LoadConsensus, GetBlockCount, EndScan,
           LeaveScan, GetBlock, GetBlockFails, GetBlockEmpty, Visit, ReadLog,
           ReadLogFails, StopAtMalformed, TakeTransfer, GetPeerFails,
           SyncProof, SendProof, ProofRefused, GetProofFails,
           GetStateRootFails, NoUtxo, StoreRetry, StoreCheck, Return, EndBlock,
           SendHeader
<1> QED
  BY <1>2, <1>3, <1>5
     DEF Next, Retrier, Poly, PolyTrouble, NeoBlock, Relayer, Crash,
         ScannerReset, vars, scanVars

(* While Poly can verify what it is sent and no block is answered empty, a *)
(* transfer of a block behind the cursor is imported or in one of the two  *)
(* buckets, or one of the four failures that the code only logs hit that   *)
(* very transfer: through crashes, failed writes, evicted, reordered and   *)
(* failed transactions, missing utxos, proofs and state roots, other       *)
(* relayers, and any interleaving of the two goroutines.                   *)
THEOREM VerifiableKept ==
    ASSUME BlocksAnswered
    PROVE  Spec /\ []Verifiable => []NothingForgotten
<1> DEFINE IInv == TypeInv /\ MatchInv /\ KeptInv
<1>1. Init => IInv
  <2> SUFFICES ASSUME Init PROVE IInv
    OBVIOUS
  <2>1. MatchInv
    BY DEF Init, ChainsInit, StoreInit, ScannerInit, RetrierInit, MatchInv
  <2>2. StepInv /\ ImportedInv /\ DeleteInv /\ BlockInv
    BY DEF Init, ChainsInit, ScannerInit, RetrierInit, StepInv, ImportedInv,
           DeleteInv, BlockInv, InBlock
  <2>3. NothingForgotten
    BY StartAssumption DEF Init, ScannerInit, NothingForgotten
  <2> QED
    BY <2>1, <2>2, <2>3, TypeInit DEF KeptInv
<1>2. IInv /\ Verifiable /\ [Next]_vars => IInv'
  <2> SUFFICES ASSUME IInv, Verifiable, [Next]_vars PROVE IInv'
    OBVIOUS
  <2>1. TypeInv' /\ MatchInv'
    BY TypeStep, MatchStep
  <2>2. StepInv'
    BY StepStep DEF KeptInv, BlocksAnswered
  <2>3. ImportedInv' /\ DeleteInv'
    BY ImportedStep, DeleteStep DEF KeptInv
  <2>4. BlockInv' /\ NothingForgotten'
    BY BlockStep, ForgottenStep DEF KeptInv
  <2> QED
    BY <2>1, <2>2, <2>3, <2>4 DEF KeptInv
<1>3. IInv => NothingForgotten
  BY DEF KeptInv
<1> HIDE DEF IInv
<1> QED
  BY <1>1, <1>2, <1>3, PTL DEF Spec

(* While the validators do not change, Poly can verify everything.         *)
LEMMA OneVerifiable ==
    ASSUME OneConsensus
    PROVE  Spec => []Verifiable
<1>1. TypeInv /\ CoverInv => Verifiable
  <2> SUFFICES ASSUME TypeInv, CoverInv PROVE Verifiable
    OBVIOUS
  <2>1. spc = "prove" => passed \in ProofHeights /\ passed > 0
    BY DEF CoverInv, Provable, AtHand, TypeInv, TypeOK, ScannerTypeOK
  <2>2. \A r \in retries : r.height \in ProofHeights /\ r.height > 0
    BY DEF CoverInv, Provable, TypeInv, TypeOK, RetrierTypeOK, Record
  <2> QED
    BY <2>1, <2>2, AlwaysVerifies DEF Verifiable, ImportsVerify
<1>2. Init => TypeInv /\ CoverInv
  BY TypeInit
     DEF Init, ChainsInit, StoreInit, ScannerInit, RetrierInit, CoverInv
<1>3. TypeInv /\ CoverInv /\ [Next]_vars => TypeInv' /\ CoverInv'
  BY TypeStep, CoverStep
<1> QED
  BY <1>1, <1>2, <1>3, PTL DEF Spec

(* Nothing is forgotten while the validators do not change, whatever       *)
(* fails but for five empty answers.                                       *)
THEOREM TransfersKept ==
    ASSUME OneConsensus, BlocksAnswered
    PROVE  Spec => []NothingForgotten
BY OneVerifiable, VerifiableKept, PTL

-----------------------------------------------------------------------------
(* Nothing is forgotten while the validators change                        *)

(* Poly receives the headers and executes what it is sent in that order,   *)
(* and no proof has to wait in bucket Retry for a state root or a utxo.    *)
ProofsInOrder ==
    /\ HeadersArrive
    /\ Faults \cap {"stateRoot", "utxo", "reorder"} = {}

PendingImports ==
    { x \in DOMAIN polyTx : IsPending(x) /\ polyTx[x].kind = "import" }

(* Poly can verify the proofs it has not executed, and will have executed  *)
(* them before a header that changes the validators.                       *)
OrderInv ==
    /\ \A x \in PendingImports : Verifies(polyTx[x].height)
    /\ \A x \in PendingHeaders : \A y \in PendingImports : y < x

(* It refused a proof only because another relayer was faster.             *)
RefusedInv ==
    \A x \in DOMAIN polyTx :
        polyTx[x].kind = "import" /\ polyTx[x].status = "failed"
            => polyTx[x].key \in polyDone

(* Therefore nothing in bucket Retry is to be sent again.                  *)
RetryInv ==
    /\ spc # "putRetry" /\ rpc # "putCheck"
    /\ \A r \in retry \cup retries : r.key \in polyDone
    /\ rpc = "putRetry" => cur.key \in polyDone

LEMMA ImportsSubmit ==
    ASSUME TypeInv, NEW kind, NEW h, NEW k, Submit(kind, h, k)
    PROVE  /\ Len(polyTx') \notin DOMAIN polyTx
           /\ polyTx'[Len(polyTx')].height = h
           /\ polyTx'[Len(polyTx')].status = "pending"
           /\ \A x \in DOMAIN polyTx : x < Len(polyTx') /\ polyTx'[x] = polyTx[x]
           /\ DOMAIN polyTx' = DOMAIN polyTx \cup {Len(polyTx')}
           /\ kind # "import" => PendingImports' = PendingImports
           /\ kind = "import" =>
                  PendingImports' = PendingImports \cup {Len(polyTx')}
<1>1. /\ Len(polyTx) \in Nat /\ DOMAIN polyTx = 1..Len(polyTx)
      /\ DOMAIN polyTx' = 1..(Len(polyTx) + 1)
      /\ Len(polyTx') = Len(polyTx) + 1
      /\ \A x \in DOMAIN polyTx : polyTx'[x] = polyTx[x]
      /\ polyTx'[Len(polyTx')] =
            [kind |-> kind, height |-> h, key |-> k, status |-> "pending"]
  BY SubmitGrows, Zenon
<1>2. /\ polyTx'[Len(polyTx')].kind = kind
      /\ polyTx'[Len(polyTx')].height = h
      /\ polyTx'[Len(polyTx')].status = "pending"
  BY <1>1
<1>3. /\ DOMAIN polyTx' = DOMAIN polyTx \cup {Len(polyTx')}
      /\ Len(polyTx') \notin DOMAIN polyTx
      /\ \A x \in DOMAIN polyTx : x < Len(polyTx')
  BY <1>1
<1> QED
  BY <1>1, <1>2, <1>3 DEF PendingImports, IsPending

LEMMA ImportsResolve ==
    ASSUME TypeInv, NEW x \in DOMAIN polyTx, NEW s, s # "pending",
           Resolve(x, s)
    PROVE  /\ PendingImports' = PendingImports \ {x}
           /\ DOMAIN polyTx' = DOMAIN polyTx
           /\ polyTx'[x].status = s
           /\ \A y \in DOMAIN polyTx :
                  /\ y # x => polyTx'[y] = polyTx[y]
                  /\ polyTx'[y].kind = polyTx[y].kind
                  /\ polyTx'[y].height = polyTx[y].height
                  /\ polyTx'[y].key = polyTx[y].key
<1>1. /\ DOMAIN polyTx' = DOMAIN polyTx
      /\ polyTx[x] \in PolyTx
      /\ polyTx'[x] = [polyTx[x] EXCEPT !.status = s]
      /\ \A y \in DOMAIN polyTx : y # x => polyTx'[y] = polyTx[y]
  BY DEF Resolve, TypeInv, TypeOK, ChainsTypeOK
<1>2. /\ polyTx'[x].status = s
      /\ polyTx'[x].kind = polyTx[x].kind
      /\ polyTx'[x].height = polyTx[x].height
      /\ polyTx'[x].key = polyTx[x].key
  BY <1>1 DEF PolyTx
<1>3. PendingImports' = PendingImports \ {x}
  BY <1>1, <1>2 DEF PendingImports, IsPending
<1> QED
  BY <1>1, <1>2, <1>3

(* What is in bucket Retry is done, so that it is not sent again.          *)
LEMMA NothingResent ==
    ASSUME RetryInv, NEW r \in retries
    PROVE  ~Resend(r)
BY DEF RetryInv, Resend, Importable

LEMMA OrderSubmits ==
    ASSUME TypeInv, PeerInv, OrderInv, SendProof \/ SendHeader
    PROVE  OrderInv'
<1>1. CASE SendProof
  <2>1. Submit("import", passed, key) /\ Verifies(passed) /\ spc = "prove"
    BY <1>1 DEF SendProof, Importable, Proving
  <2>2. PendingHeaders' = {}
    BY <2>1, ImportPends DEF PeerInv, HeaderInv
  <2>3. /\ PendingImports' = PendingImports \cup {Len(polyTx')}
        /\ polyTx'[Len(polyTx')].height = passed
        /\ \A x \in PendingImports : polyTx'[x] = polyTx[x]
    BY <2>1, ImportsSubmit DEF PendingImports
  <2>4. \A h : Verifies(h) => Verifies(h)'
    BY <2>1 DEF Submit, Verifies, Signer
  <2> QED
    BY <2>1, <2>2, <2>3, <2>4 DEF OrderInv
<1>2. CASE SendHeader
  <2>1. Submit("header", i, NoKey) /\ spc = "work"
    BY <1>2 DEF SendHeader, BlockDone
  <2>2. /\ "header" # "import"
        /\ PendingHeaders = {}
    BY <2>1 DEF PeerInv, HeaderInv
  <2>3. PendingHeaders' = PendingHeaders \cup
            (IF "header" = "header" THEN {Len(polyTx')} ELSE {})
    BY <2>1, SubmitPends, Zenon
  <2>4. /\ PendingImports' = PendingImports
        /\ \A x \in PendingImports : x < Len(polyTx') /\ polyTx'[x] = polyTx[x]
    BY <2>1, <2>2, ImportsSubmit DEF PendingImports
  <2>5. \A h : Verifies(h) => Verifies(h)'
    BY <2>1 DEF Submit, Verifies, Signer
  <2> QED
    BY <2>2, <2>3, <2>4, <2>5 DEF OrderInv
<1> QED
  BY <1>1, <1>2

LEMMA OrderExecutes ==
    ASSUME TypeInv, OrderInv, ProofsInOrder,
           NEW x \in DOMAIN polyTx, PolyStep(x)
    PROVE  OrderInv'
<1>1. PICK s : s # "pending" /\ Resolve(x, s)
  BY DEF PolyStep, PolyImports, PolyStoresHeader, PolyRejects
<1>2. /\ PendingImports' = PendingImports \ {x}
      /\ PendingHeaders' = PendingHeaders \ {x}
      /\ \A y \in PendingImports : polyTx'[y].height = polyTx[y].height
  BY <1>1, ImportsResolve, ResolvePends DEF PendingImports
<1>3. CASE PolyStoresHeader(x)
  <2>1. \A y \in 1..(x - 1) : ~IsPending(y)
    BY <1>3 DEF PolyStoresHeader, IsNext, ProofsInOrder, Fault, Fails
  <2>2. x \in PendingHeaders
    BY <1>3 DEF PolyStoresHeader, IsNext, PendingHeaders
  <2>3. ASSUME NEW y \in PendingImports
        PROVE  FALSE
    <3>1. y < x /\ y \in 1..Len(polyTx) /\ x \in 1..Len(polyTx)
      BY <2>2, <2>3 DEF OrderInv, PendingImports, TypeInv, TypeOK, ChainsTypeOK
    <3>2. y \in 1..(x - 1)
      BY <3>1 DEF TypeInv, TypeOK, ChainsTypeOK
    <3> QED
      BY <2>1, <3>2 DEF PendingImports
  <2> QED
    BY <1>2, <2>3 DEF OrderInv
<1>4. CASE peer' = peer
  BY <1>2, <1>4 DEF OrderInv, Verifies, Signer
<1> QED
  BY <1>3, <1>4 DEF PolyStep, PolyImports, PolyRejects

LEMMA OrderStep ==
    ASSUME TypeInv, PeerInv, RetryInv, OrderInv, ProofsInOrder, [Next]_vars
    PROVE  OrderInv'
<1>1. CASE UNCHANGED <<polyTx, peer>>
  BY <1>1
     DEF OrderInv, PendingImports, PendingHeaders, IsPending, Verifies, Signer
<1>2. CASE Scanner
  BY <1>1, <1>2, OrderSubmits
     DEF Scanner, ScannerStep, LoadConsensus, GetBlockCount, EndScan, LeaveScan,
         GetBlock, GetBlockFails, GetBlockEmpty, Visit, ReadLog, ReadLogFails,
         StopAtMalformed, TakeTransfer, GetPeerFails, SyncProof, ProofRefused,
         GetProofFails, GetStateRootFails, NoUtxo, StoreRetry, StoreCheck,
         EndBlock, FinishBlock, HeaderRefused, RelayBlockGenerated, polyVars
<1>3. CASE Retrier
  BY <1>1, <1>3, NothingResent
     DEF Retrier, RetrierStep, CheckDoneTx, RetryTx, GetAllCheck, EventMissing,
         EventFound, GetEventFails, StoreFailed, DropCheck, GetAllRetry,
         RetryLater, ResendRefused, StoreResent, RemoveRetry, EndRetry, polyVars
<1>4. CASE Poly
  BY <1>4, OrderExecutes DEF Poly
<1>5. CASE PolyTrouble
  BY <1>1, <1>5
     DEF PolyTrouble, PolyFault, PolyFails, PolyEvicts, OtherImports,
         ProofsInOrder, HeadersArrive, Fault, Fails
<1>6. CASE NeoBlock \/ Crash \/ UNCHANGED vars
  BY <1>1, <1>6 DEF NeoBlock, NeoGrow, Crash, vars, chainVars, polyVars
<1> QED
  BY <1>2, <1>3, <1>4, <1>5, <1>6 DEF Next

LEMMA RefusedStep ==
    ASSUME TypeInv, OrderInv, RefusedInv, ProofsInOrder, [Next]_vars
    PROVE  RefusedInv'
<1> USE DEF RefusedInv
<1>1. polyDone \subseteq polyDone'
  BY ClosedGrows
<1>2. CASE UNCHANGED polyTx
  BY <1>1, <1>2
<1>3. ASSUME NEW kind, NEW h, NEW k, Submit(kind, h, k)
      PROVE  RefusedInv'
  <2>1. /\ polyTx'[Len(polyTx')].status = "pending"
        /\ \A x \in DOMAIN polyTx : polyTx'[x] = polyTx[x]
        /\ DOMAIN polyTx' = DOMAIN polyTx \cup {Len(polyTx')}
    BY <1>3, ImportsSubmit, Zenon
  <2>2. polyTx'[Len(polyTx')].status # "failed"
    BY <2>1
  <2> QED
    BY <1>1, <2>1, <2>2
<1>4. ASSUME NEW x \in DOMAIN polyTx, PolyStep(x)
      PROVE  RefusedInv'
  <2>1. PICK s : /\ s # "pending" /\ Resolve(x, s)
                 /\ s = "failed" => PolyRejects(x)
    BY <1>4 DEF PolyStep, PolyImports, PolyStoresHeader, PolyRejects
  <2>2. s = "failed" /\ polyTx[x].kind = "import" => polyTx[x].key \in polyDone
    <3> SUFFICES ASSUME s = "failed", polyTx[x].kind = "import"
                 PROVE  polyTx[x].key \in polyDone
      OBVIOUS
    <3>1. x \in PendingImports /\ ~Importable(polyTx[x].key, polyTx[x].height)
      BY <2>1 DEF PolyRejects, IsNext, PendingImports
    <3> QED
      BY <3>1 DEF OrderInv, Importable
  <2>3. /\ DOMAIN polyTx' = DOMAIN polyTx /\ polyTx'[x].status = s
        /\ \A y \in DOMAIN polyTx :
               /\ y # x => polyTx'[y] = polyTx[y]
               /\ polyTx'[y].kind = polyTx[y].kind
               /\ polyTx'[y].key = polyTx[y].key
    BY <2>1, ImportsResolve
  <2> QED
    BY <1>1, <2>2, <2>3
<1>5. CASE Scanner
  BY <1>2, <1>3, <1>5
     DEF Scanner, ScannerStep, LoadConsensus, GetBlockCount, EndScan, LeaveScan,
         GetBlock, GetBlockFails, GetBlockEmpty, Visit, ReadLog, ReadLogFails,
         StopAtMalformed, TakeTransfer, GetPeerFails, SyncProof, SendProof,
         ProofRefused, GetProofFails, GetStateRootFails, NoUtxo, StoreRetry,
         StoreCheck, EndBlock, FinishBlock, SendHeader, HeaderRefused,
         RelayBlockGenerated, polyVars
<1>6. CASE Retrier
  BY <1>2, <1>3, <1>6
     DEF Retrier, RetrierStep, CheckDoneTx, RetryTx, GetAllCheck, EventMissing,
         EventFound, GetEventFails, StoreFailed, DropCheck, GetAllRetry,
         RetryLater, Resend, ResendRefused, StoreResent, RemoveRetry, EndRetry,
         polyVars
<1>7. CASE Poly
  BY <1>4, <1>7 DEF Poly
<1>8. CASE PolyTrouble
  BY <1>2, <1>8
     DEF PolyTrouble, PolyFault, PolyFails, PolyEvicts, OtherImports,
         ProofsInOrder, HeadersArrive, Fault, Fails
<1>9. CASE NeoBlock \/ Crash \/ UNCHANGED vars
  BY <1>2, <1>9 DEF NeoBlock, NeoGrow, Crash, vars, chainVars, polyVars
<1> QED
  BY <1>5, <1>6, <1>7, <1>8, <1>9 DEF Next

LEMMA RetryStep ==
    ASSUME TypeInv, MatchInv, RefusedInv, RetryInv, ProofsInOrder, [Next]_vars
    PROVE  RetryInv'
<1> USE DEF RetryInv
<1>1. polyDone \subseteq polyDone'
  BY ClosedGrows
<1>2. CASE Scanner
  <2>1. spc' # "putRetry" /\ UNCHANGED retry
    BY <1>2
       DEF Scanner, ScannerStep, LoadConsensus, GetBlockCount, EndScan,
           LeaveScan, GetBlock, GetBlockFails, GetBlockEmpty, Visit, ReadLog,
           ReadLogFails, StopAtMalformed, TakeTransfer, GetPeerFails,
           SyncProof, SendProof, ProofRefused, GetProofFails,
           GetStateRootFails, NoUtxo, StoreRetry, StoreCheck, Return, EndBlock,
           FinishBlock, SendHeader, HeaderRefused, RelayBlockGenerated,
           Advance, storeVars, ProofsInOrder, Fault, Fails
  <2> QED
    BY <1>1, <1>2, <2>1 DEF Scanner, retrierVars
<1>3. ASSUME NEW c \in checks, EventFound(c), UNCHANGED spc
      PROVE  RetryInv'
  <2>1. polyTx[c.hash].status = "failed" => c.rec.key \in polyDone
    BY DEF MatchInv, SentFor, RefusedInv
  <2>2. CASE polyTx[c.hash].status = "failed"
    BY <1>1, <1>3, <2>1, <2>2 DEF EventFound, storeVars
  <2>3. CASE polyTx[c.hash].status = "ok"
    BY <1>1, <1>3, <2>3 DEF EventFound, storeVars
  <2> QED
    BY <1>3, <2>2, <2>3 DEF EventFound
<1>4. CASE StoreFailed /\ UNCHANGED spc
  BY <1>1, <1>4 DEF StoreFailed, PutRetry
<1>5. CASE Retrier
  <2>1. UNCHANGED spc
    BY <1>5 DEF Retrier, scanVars
  <2> QED
    BY <1>1, <1>3, <1>4, <1>5, <2>1, NothingResent
       DEF Retrier, RetrierStep, CheckDoneTx, RetryTx, GetAllCheck,
           EventMissing, GetEventFails, DropCheck, GetAllRetry, RetryLater,
           ResendRefused, StoreResent, RemoveRetry, DeleteRetry, EndRetry,
           Continue, storeVars
<1>6. CASE UNCHANGED <<retry, retries, rpc, cur, spc>>
  BY <1>1, <1>6
<1>7. CASE Crash
  BY <1>1, <1>7 DEF Crash, ScannerReset, RetrierReset, storeVars
<1> QED
  BY <1>2, <1>5, <1>6, <1>7
     DEF Next, Poly, PolyTrouble, NeoBlock, Relayer, vars, storeVars, scanVars,
         retrierVars

LEMMA InOrderVerifiable ==
    ASSUME ProofsInOrder
    PROVE  Spec => []Verifiable
<1>1. Init => MatchInv /\ OrderInv /\ RefusedInv /\ RetryInv
  BY DEF Init, ChainsInit, StoreInit, ScannerInit, RetrierInit, MatchInv,
         OrderInv, PendingImports, PendingHeaders, RefusedInv, RetryInv
<1>2. (TypeInv /\ PeerInv /\ MatchInv /\ OrderInv /\ RefusedInv /\ RetryInv
         /\ [Next]_vars)
        => MatchInv' /\ OrderInv' /\ RefusedInv' /\ RetryInv'
  <2> SUFFICES ASSUME TypeInv, PeerInv, MatchInv, OrderInv, RefusedInv,
                      RetryInv, [Next]_vars
               PROVE  MatchInv' /\ OrderInv' /\ RefusedInv' /\ RetryInv'
    OBVIOUS
  <2>1. MatchInv' /\ OrderInv'
    BY MatchStep, OrderStep
  <2>2. RefusedInv' /\ RetryInv'
    BY RefusedStep, RetryStep
  <2> QED
    BY <2>1, <2>2
<1>3. TypeInv /\ PeerInv /\ RetryInv => Verifiable
  BY DEF PeerInv, RetryInv, Verifiable, Closed
<1>4. Spec => [](TypeInv /\ PeerInv)
  BY PeerAlways DEF ProofsInOrder
<1> QED
  BY <1>1, <1>2, <1>3, <1>4, PTL DEF Spec

(* However often the validators change, no transfer behind the cursor is   *)
(* forgotten, as long as Poly receives the headers, executes what it is    *)
(* sent in that order, and no proof waits in bucket Retry for a state root *)
(* or a utxo: a failed proof was then sent for a transfer that another     *)
(* relayer had imported, and retryTx finds nothing to send again.          *)
THEOREM EpochsKept ==
    ASSUME ProofsInOrder
    PROVE  Spec => []NothingForgotten
<1>1. BlocksAnswered
  BY DEF ProofsInOrder, HeadersArrive, BlocksAnswered
<1> QED
  BY <1>1, InOrderVerifiable, VerifiableKept, PTL

-----------------------------------------------------------------------------
(* The ledger                                                              *)

Emits == KeysUpTo(neoHeight)

Owed == { k \in Keys : Tracked(k) } \ Closed

LEMMA EmitsKeys == Emits \subseteq Keys
BY KeyAtType DEF Emits, KeysUpTo, KeysOf

-----------------------------------------------------------------------------
(* The relayer handles nothing but what the Neo chain has emitted          *)

EmitInv ==
    /\ NeoStartHeight <= neoHeight
    /\ relaySyncHeight <= neoHeight /\ n <= neoHeight
    /\ \A c \in check \cup checks : c.rec.key \in Emits
    /\ \A r \in retry \cup retries : r.key \in Emits
    /\ spc \in {"prove", "putRetry", "putCheck"} => key \in Emits
    /\ rpc \in {"putRetry", "drop", "putCheck", "delete"} => cur.key \in Emits
    /\ \A x \in DOMAIN polyTx :
           polyTx[x].kind = "import" => polyTx[x].key \in Emits

LEMMA SubmitEmits ==
    ASSUME TypeInv, EmitInv, NEW kind, NEW h, NEW k, Submit(kind, h, k),
           kind = "import" => k \in Emits
    PROVE  \A x \in DOMAIN polyTx' :
               polyTx'[x].kind = "import" => polyTx'[x].key \in Emits
<1> SUFFICES ASSUME NEW x \in DOMAIN polyTx', polyTx'[x].kind = "import"
             PROVE  polyTx'[x].key \in Emits
  OBVIOUS
<1>1. /\ Len(polyTx) \in Nat /\ DOMAIN polyTx = 1..Len(polyTx)
      /\ DOMAIN polyTx' = 1..(Len(polyTx) + 1)
      /\ Len(polyTx') = Len(polyTx) + 1
      /\ \A y \in DOMAIN polyTx : polyTx'[y] = polyTx[y]
      /\ polyTx'[Len(polyTx')] =
            [kind |-> kind, height |-> h, key |-> k, status |-> "pending"]
  BY SubmitGrows, Zenon
<1>2. x \in DOMAIN polyTx \/ x = Len(polyTx')
  BY <1>1
<1> QED
  BY <1>1, <1>2 DEF EmitInv

LEMMA EmitScanner ==
    ASSUME TypeInv, EmitInv, ScannerStep, UNCHANGED retrierVars
    PROVE  EmitInv'
<1> USE DEF EmitInv, retrierVars
<1> DEFINE Sent == \A x \in DOMAIN polyTx :
                       polyTx[x].kind = "import" => polyTx[x].key \in Emits
<1>1. neoHeight' = neoHeight /\ Emits' = Emits
  BY DEF ScannerStep, LoadConsensus, GetBlockCount, EndScan, LeaveScan,
         GetBlock, GetBlockFails, GetBlockEmpty, Visit, ReadLog, ReadLogFails,
         StopAtMalformed, TakeTransfer, GetPeerFails, SyncProof, SendProof,
         ProofRefused, GetProofFails, GetStateRootFails, NoUtxo, StoreRetry,
         StoreCheck, EndBlock, FinishBlock, SendHeader, HeaderRefused,
         RelayBlockGenerated, neoVars, Emits
<1>2. ASSUME NEW p \in todo, TakeTransfer(p)
      PROVE  EmitInv'
  <2>1. i < n /\ i \in Heights /\ p \in TransfersOf[i]
    BY <1>2, HeightsInt
       DEF TakeTransfer, AtWork, TypeInv, TypeOK, ScannerTypeOK, InBlock
  <2>2. neoHeight \in Int /\ i <= neoHeight
    BY <2>1, HeightsInt DEF Heights
  <2>3. key' \in Emits
    BY <1>2, <2>1, <2>2, KeysCovered DEF TakeTransfer, Emits
  <2> QED
    BY <1>1, <1>2, <2>3 DEF TakeTransfer, polyVars, storeVars
<1>3. CASE SendProof
  <2>1. Sent'
    BY <1>1, <1>3, SubmitEmits DEF SendProof, Proving
  <2> QED
    BY <1>1, <1>3, <2>1 DEF SendProof, Proving, storeVars
<1>4. CASE SendHeader
  <2>1. Sent'
    BY <1>1, <1>4, SubmitEmits DEF SendHeader
  <2> QED
    BY <1>1, <1>4, <2>1 DEF SendHeader, storeVars
<1>5. CASE StoreCheck \/ StoreRetry
  <2>1. key \in Emits
    BY <1>5 DEF StoreCheck, StoreRetry
  <2> QED
    BY <1>1, <1>5, <2>1
       DEF StoreCheck, StoreRetry, PutCheck, PutRetry, Return, polyVars
<1>6. CASE GetStateRootFails \/ NoUtxo
  BY <1>1, <1>6 DEF GetStateRootFails, NoUtxo, Proving, polyVars, storeVars
<1>7. CASE FinishBlock \/ HeaderRefused \/ RelayBlockGenerated
  <2>1. relaySyncHeight <= i /\ i < n
    BY <1>7
       DEF FinishBlock, HeaderRefused, RelayBlockGenerated, BlockDone, InBlock,
           TypeInv, TypeOK, ScannerTypeOK, CursorBehind
  <2>2. relaySyncHeight + 1 <= neoHeight
    BY <2>1, HeightsInt DEF Heights
  <2> QED
    BY <1>1, <1>7, <2>2
       DEF FinishBlock, HeaderRefused, RelayBlockGenerated, Advance, polyVars,
           storeVars
<1>8. CASE EndScan \/ GetBlockFails \/ \E p \in todo :
               ReadLogFails(p) \/ StopAtMalformed(p) \/ GetPeerFails(p)
  <2>1. LeaveScan /\ neoHeight \in Nat
    BY <1>8, HeightsInt
       DEF EndScan, GetBlockFails, ReadLogFails, StopAtMalformed, GetPeerFails,
           Heights
  <2> QED
    BY <1>1, <2>1 DEF LeaveScan, polyVars, storeVars
<1>9. CASE GetBlockCount
  BY <1>1, <1>9, HeightsInt DEF GetBlockCount, Heights, polyVars, storeVars
<1>10. CASE LoadConsensus \/ GetBlock \/ GetBlockEmpty \/ ProofRefused
            \/ GetProofFails \/ \E p \in todo : ReadLog(p)
  BY <1>1, <1>10
     DEF LoadConsensus, GetBlock, GetBlockEmpty, ProofRefused, GetProofFails,
         Return, ReadLog, AtWork, polyVars, storeVars
<1> QED
  BY <1>2, <1>3, <1>4, <1>5, <1>6, <1>7, <1>8, <1>9, <1>10
     DEF ScannerStep, Visit, SyncProof, EndBlock

LEMMA EmitRetrier ==
    ASSUME TypeInv, EmitInv, RetrierStep, UNCHANGED scanVars
    PROVE  EmitInv'
<1> USE DEF EmitInv, scanVars
<1>1. neoHeight' = neoHeight /\ Emits' = Emits
  BY DEF RetrierStep, CheckDoneTx, RetryTx, GetAllCheck, EventMissing,
         EventFound, GetEventFails, StoreFailed, DropCheck, GetAllRetry,
         RetryLater, Resend, ResendRefused, StoreResent, RemoveRetry, EndRetry,
         neoVars, Emits
<1>2. CASE GetAllCheck \/ GetAllRetry
  BY <1>1, <1>2 DEF GetAllCheck, GetAllRetry, IsBatch, storeVars, polyVars
<1>3. ASSUME NEW c \in checks, EventMissing(c) \/ EventFound(c)
      PROVE  EmitInv'
  BY <1>1, <1>3 DEF EventMissing, EventFound, storeVars, polyVars
<1>4. CASE GetEventFails \/ EndRetry
  BY <1>1, <1>4 DEF GetEventFails, EndRetry, storeVars, polyVars
<1>5. CASE StoreFailed \/ RemoveRetry
  BY <1>1, <1>5
     DEF StoreFailed, PutRetry, RemoveRetry, DeleteRetry, Continue, polyVars
<1>6. CASE DropCheck
  BY <1>1, <1>6 DEF DropCheck, DeleteCheck, Continue, polyVars
<1>7. ASSUME NEW r \in retries, RetryLater(r) \/ ResendRefused(r)
      PROVE  EmitInv'
  BY <1>1, <1>7 DEF RetryLater, ResendRefused, storeVars, polyVars
<1>8. ASSUME NEW r \in retries, Resend(r)
      PROVE  EmitInv'
  <2>1. \A x \in DOMAIN polyTx' :
            polyTx'[x].kind = "import" => polyTx'[x].key \in Emits
    BY <1>8, SubmitEmits DEF Resend
  <2> QED
    BY <1>1, <1>8, <2>1 DEF Resend, storeVars
<1>9. CASE StoreResent
  BY <1>1, <1>9 DEF StoreResent, PutCheck, Continue, polyVars
<1> QED
  BY <1>2, <1>3, <1>4, <1>5, <1>6, <1>7, <1>8, <1>9
     DEF RetrierStep, CheckDoneTx, RetryTx

LEMMA EmitsGrow ==
    ASSUME TypeInv, neoHeight' \in {neoHeight, neoHeight + 1}
    PROVE  Emits \subseteq Emits'
BY HeightsInt DEF Emits, KeysUpTo, Heights

LEMMA EmitStep ==
    ASSUME TypeInv, EmitInv, [Next]_vars
    PROVE  EmitInv'
<1>1. CASE Scanner
  BY <1>1, EmitScanner DEF Scanner
<1>2. CASE Retrier
  BY <1>2, EmitRetrier DEF Retrier
<1>3. CASE Poly \/ PolyTrouble
  <2>1. DOMAIN polyTx' = DOMAIN polyTx
    BY <1>3
       DEF Poly, PolyTrouble, PolyStep, PolyFault, PolyImports, OtherImports,
           PolyStoresHeader, PolyRejects, PolyFails, PolyEvicts, Resolve,
           TypeInv, TypeOK, ChainsTypeOK
  <2>2. neoHeight' = neoHeight /\ Emits' = Emits
    BY <1>3
       DEF Poly, PolyTrouble, PolyStep, PolyFault, PolyImports, OtherImports,
           PolyStoresHeader, PolyRejects, PolyFails, PolyEvicts, Emits
  <2>3. \A x \in DOMAIN polyTx' :
            polyTx'[x].kind = "import" => polyTx'[x].key \in Emits
    BY <2>1, PolyGrows DEF EmitInv, SameTx
  <2> QED
    BY <1>3, <2>2, <2>3
       DEF Poly, PolyTrouble, Relayer, storeVars, scanVars, retrierVars,
           EmitInv
<1>4. CASE NeoBlock
  <2>1. neoHeight' = neoHeight + 1 /\ neoHeight \in Int
          /\ relaySyncHeight \in Int /\ n \in Int /\ NeoStartHeight \in Int
    BY <1>4, HeightsInt, StartAssumption DEF NeoBlock, NeoGrow, Heights
  <2>2. Emits \subseteq Emits'
    BY <2>1, EmitsGrow
  <2> QED
    BY <1>4, <2>1, <2>2
       DEF NeoBlock, NeoGrow, Relayer, polyVars, storeVars, scanVars,
           retrierVars, EmitInv
<1>5. CASE UNCHANGED vars
  BY <1>5
     DEF vars, chainVars, neoVars, polyVars, storeVars, scanVars, retrierVars,
         EmitInv, Emits
<1>6. CASE Crash
  <2>1. NeoStartHeight <= neoHeight' /\ 0 <= neoHeight'
    BY <1>6, HeightsInt DEF Crash, neoVars, EmitInv, Heights
  <2> QED
    BY <1>6, <2>1
       DEF Crash, ScannerReset, RetrierReset, neoVars, storeVars, polyVars,
           EmitInv, Emits
<1> QED
  BY <1>1, <1>2, <1>3, <1>4, <1>5, <1>6 DEF Next

(* The invariant of the refinement: all that TransfersKept rests on, but   *)
(* for what it says of the cursor, with EmitInv.                           *)
LedgerInv == TypeInv /\ MatchInv /\ ImportedInv /\ DeleteInv /\ EmitInv

LEMMA LedgerInit == Init => LedgerInv
<1> SUFFICES ASSUME Init PROVE LedgerInv
  OBVIOUS
<1>1. MatchInv
  BY DEF Init, ChainsInit, StoreInit, ScannerInit, RetrierInit, MatchInv
<1>2. ImportedInv /\ DeleteInv
  BY DEF Init, ChainsInit, ScannerInit, RetrierInit, ImportedInv, DeleteInv
<1>3. EmitInv
  BY GenesisAssumption, StartAssumption
     DEF Init, ChainsInit, StoreInit, ScannerInit, RetrierInit, EmitInv, Heights
<1> QED
  BY <1>1, <1>2, <1>3, TypeInit DEF LedgerInv

LEMMA LedgerStays ==
    ASSUME Verifiable, LedgerInv, [Next]_vars
    PROVE  LedgerInv'
<1>1. TypeInv' /\ MatchInv'
  BY TypeStep, MatchStep DEF LedgerInv
<1>2. ImportedInv' /\ DeleteInv' /\ EmitInv'
  BY ImportedStep, DeleteStep, EmitStep DEF LedgerInv
<1> QED
  BY <1>1, <1>2 DEF LedgerInv

-----------------------------------------------------------------------------
(* The steps of the ledger                                                 *)

(* Only the transfers in G come to be tracked by a step.                   *)
Gains(G) == \A k \in Keys : Tracked(k)' => Tracked(k) \/ k \in G

(* What was owed stays so until it is closed.                              *)
LEMMA OwedNext ==
    ASSUME LedgerInv, [Next]_vars, NEW G \in SUBSET Keys, Gains(G),
           \A k \in G : Tracked(k)'
    PROVE  Owed' = (Owed \cup G) \ Closed'
<1>1. ASSUME NEW k \in Owed'
      PROVE  k \in (Owed \cup G) \ Closed'
  <2>1. Closed \subseteq Closed'
    BY ClosedGrows DEF Closed
  <2> QED
    BY <1>1, <2>1 DEF Owed, Gains
<1>2. ASSUME NEW k \in (Owed \cup G) \ Closed'
      PROVE  k \in Owed'
  <2>1. CASE k \in G
    BY <1>2, <2>1 DEF Owed
  <2>2. CASE k \in Owed
    <3>1. Kept(k)
      BY <2>2 DEF Owed, Kept
    <3>2. Kept(k)'
      BY <3>1, KeptStays DEF LedgerInv
    <3> QED
      BY <1>2, <2>2, <3>2 DEF Owed, Kept
  <2> QED
    BY <1>2, <2>1, <2>2
<1> QED
  BY <1>1, <1>2

LedgerStep == [Ledger!Next]_(Ledger!vars)

LEMMA LedgerQuiet ==
    ASSUME LedgerInv, [Next]_vars, Gains({}),
           UNCHANGED <<neoHeight, polyDone, dropped>>
    PROVE  LedgerStep
<1>1. Closed' = Closed /\ Emits' = Emits
  BY DEF Closed, Emits
<1>2. Owed' = Owed
  BY <1>1, OwedNext DEF Owed
<1> QED
  BY <1>1, <1>2 DEF LedgerStep, Ledger!vars, Owed, Emits

LEMMA LedgerTakes ==
    ASSUME LedgerInv, [Next]_vars, NEW k \in Emits, Gains({k}), Tracked(k)',
           UNCHANGED <<neoHeight, polyDone, dropped>>
    PROVE  LedgerStep
<1>1. Closed' = Closed /\ Emits' = Emits /\ k \in Keys
  BY EmitsKeys DEF Closed, Emits
<1>2. Owed' = (Owed \cup {k}) \ Closed
  BY <1>1, OwedNext
<1>3. CASE k \in Closed
  <2>1. Owed' = Owed
    BY <1>2, <1>3 DEF Owed
  <2> QED
    BY <1>1, <2>1 DEF LedgerStep, Ledger!vars, Owed, Emits
<1>4. CASE k \notin Closed
  <2>1. Owed' = Owed \cup {k}
    BY <1>2, <1>4 DEF Owed
  <2>2. Ledger!TakeDown(k)
    BY <1>1, <1>4, <2>1 DEF Ledger!TakeDown, Owed, Emits, Closed
  <2> QED
    BY <1>1, <2>2 DEF LedgerStep, Ledger!Next
<1> QED
  BY <1>3, <1>4

LEMMA LedgerAbandons ==
    ASSUME LedgerInv, [Next]_vars, NEW k \in Emits, Gains({}),
           dropped' = dropped \cup {k}, UNCHANGED <<neoHeight, polyDone>>
    PROVE  LedgerStep
<1>1. Closed' = Closed \cup {k} /\ Emits' = Emits /\ k \in Keys
  BY EmitsKeys DEF Closed, Emits
<1>2. Owed' = Owed \ {k}
  BY <1>1, OwedNext DEF Owed
<1>3. Ledger!Abandon(k)
  BY <1>1, <1>2 DEF Ledger!Abandon, Owed, Emits
<1> QED
  BY <1>1, <1>3 DEF LedgerStep, Ledger!Next

LEMMA LedgerSettles ==
    ASSUME LedgerInv, [Next]_vars, NEW k \in Emits, Gains({}),
           polyDone' = polyDone \cup {k}, UNCHANGED <<neoHeight, dropped>>
    PROVE  LedgerStep
<1>1. Closed' = Closed \cup {k} /\ Emits' = Emits /\ k \in Keys
  BY EmitsKeys DEF Closed, Emits
<1>2. Owed' = Owed \ {k}
  BY <1>1, OwedNext DEF Owed
<1>3. Ledger!Settle(k)
  BY <1>1, <1>2 DEF Ledger!Settle, Owed, Emits
<1> QED
  BY <1>1, <1>3 DEF LedgerStep, Ledger!Next

-----------------------------------------------------------------------------
(* The steps of the relayer and of the chains                              *)

LEMMA GainsNothing ==
    ASSUME check' \subseteq check, retry' \subseteq retry
    PROVE  Gains({})
BY DEF Gains, Tracked, IsChecked, IsRetried

(* A step that stores nothing and that Poly does not answer.               *)
LEMMA LedgerMemory ==
    ASSUME LedgerInv, [Next]_vars,
           check' \subseteq check, retry' \subseteq retry,
           UNCHANGED <<neoHeight, polyDone, dropped>>
    PROVE  LedgerStep
BY GainsNothing, LedgerQuiet

LEMMA LedgerLoses ==
    ASSUME LedgerInv, [Next]_vars, UNCHANGED storeVars, NEW f, NEW k \in Emits,
           Loss(f, k), UNCHANGED <<neoHeight, polyDone>>
    PROVE  LedgerStep
BY GainsNothing, LedgerAbandons DEF Loss, storeVars

LEMMA LedgerStoresRetry ==
    ASSUME LedgerInv, [Next]_vars, NEW rec, rec.key \in Emits, PutRetry(rec),
           check' = check, UNCHANGED <<neoHeight, polyDone, dropped>>
    PROVE  LedgerStep
<1>1. PICK k : k = rec.key
  OBVIOUS
<1>2. retry' = retry \cup {rec}
  BY DEF PutRetry
<1>3. Gains({k}) /\ Tracked(k)'
  BY <1>1, <1>2 DEF Gains, Tracked, IsChecked, IsRetried
<1> QED
  BY <1>1, <1>3, LedgerTakes

LEMMA LedgerStoresCheck ==
    ASSUME LedgerInv, [Next]_vars, NEW hash, NEW rec, rec.key \in Emits,
           PutCheck(hash, rec), retry' = retry,
           UNCHANGED <<neoHeight, polyDone, dropped>>
    PROVE  LedgerStep
<1>1. PICK k : k = rec.key
  OBVIOUS
<1>2. PICK entry : entry = [hash |-> hash, rec |-> rec]
  OBVIOUS
<1>3. entry \in check' /\ entry.rec.key = k
  BY <1>1, <1>2 DEF PutCheck
<1>4. \A c \in check' : c \in check \/ c.rec.key = k
  BY <1>1, <1>2 DEF PutCheck
<1>5. Gains({k}) /\ Tracked(k)'
  BY <1>3, <1>4 DEF Gains, Tracked, IsChecked, IsRetried
<1> QED
  BY <1>1, <1>5, LedgerTakes

LEMMA LedgerScanner ==
    ASSUME LedgerInv, Scanner
    PROVE  LedgerStep
<1>1. [Next]_vars /\ EmitInv
  BY DEF Next, LedgerInv
<1>2. spc \in {"prove", "putRetry", "putCheck"} => key \in Emits
  BY <1>1 DEF EmitInv
<1>3. CASE StoreRetry
  <2>1. UNCHANGED <<neoHeight, polyDone, check>> /\ key \in Emits
    BY <1>2, <1>3 DEF StoreRetry, neoVars, polyVars
  <2>2. CASE Loss("db", key) /\ UNCHANGED retry
    BY <1>1, <2>1, <2>2, LedgerLoses DEF storeVars
  <2>3. CASE NoFault /\ PutRetry(AtHand)
    <3>1. AtHand.key = key
      BY DEF AtHand
    <3> QED
      BY <1>1, <2>1, <2>3, <3>1, LedgerStoresRetry DEF NoFault, faultVars
  <2> QED
    BY <1>3, <2>2, <2>3 DEF StoreRetry, AtHand
<1>4. CASE StoreCheck
  <2>1. UNCHANGED <<neoHeight, polyDone, retry>> /\ key \in Emits
    BY <1>2, <1>4 DEF StoreCheck, neoVars, polyVars
  <2>2. CASE Loss("db", key) /\ UNCHANGED check
    BY <1>1, <2>1, <2>2, LedgerLoses DEF storeVars
  <2>3. CASE NoFault /\ PutCheck(txHash, AtHand)
    <3>1. AtHand.key = key
      BY DEF AtHand
    <3> QED
      BY <1>1, <2>1, <2>3, <3>1, LedgerStoresCheck DEF NoFault, faultVars
  <2> QED
    BY <1>4, <2>2, <2>3 DEF StoreCheck, AtHand
<1>5. CASE ProofRefused \/ GetProofFails
  <2>1. UNCHANGED <<neoHeight, polyDone, check, retry>> /\ key \in Emits
    BY <1>2, <1>5
       DEF ProofRefused, GetProofFails, Proving, neoVars, polyVars, storeVars
  <2>2. CASE dropped' = dropped
    BY <1>1, <2>1, <2>2, LedgerMemory
  <2>3. ASSUME NEW f, Loss(f, key)
        PROVE  LedgerStep
    BY <1>1, <2>1, <2>3, LedgerLoses DEF storeVars
  <2> QED
    BY <1>5, <2>2, <2>3 DEF ProofRefused, GetProofFails, NoFault, faultVars
<1>6. CASE UNCHANGED <<neoHeight, polyDone, check, retry, dropped>>
  BY <1>1, <1>6, LedgerMemory
<1>7. CASE SyncProof \/ EndBlock
  BY <1>3, <1>4, <1>5, <1>6, <1>7
     DEF SyncProof, SendProof, GetStateRootFails, NoUtxo, EndBlock, FinishBlock,
         HeaderUnseen, SendHeader, HeaderRefused, RelayBlockGenerated, Submit,
         NoFault, Fault, faultVars, neoVars, polyVars, storeVars
<1>8. CASE \E p \in todo : Visit(p)
  BY <1>6, <1>8
     DEF Visit, ReadLog, ReadLogFails, StopAtMalformed, TakeTransfer,
         GetPeerFails, LeaveScan, NoFault, Fault, faultVars, neoVars, polyVars,
         storeVars
<1>9. CASE LoadConsensus \/ GetBlockCount \/ EndScan \/ GetBlock
           \/ GetBlockFails \/ GetBlockEmpty
  BY <1>6, <1>9
     DEF LoadConsensus, GetBlockCount, EndScan, GetBlock, GetBlockFails,
         GetBlockEmpty, LeaveScan, NoFault, Fault, faultVars, neoVars, polyVars,
         storeVars
<1> QED
  BY <1>7, <1>8, <1>9 DEF Scanner, ScannerStep

LEMMA LedgerRetrier ==
    ASSUME LedgerInv, Retrier
    PROVE  LedgerStep
<1>1. [Next]_vars /\ EmitInv
  BY DEF Next, LedgerInv
<1>2. rpc \in {"putRetry", "drop", "putCheck", "delete"} => cur.key \in Emits
  BY <1>1 DEF EmitInv
<1>3. CASE StoreFailed
  <2>1. UNCHANGED <<neoHeight, polyDone, check>> /\ cur.key \in Emits
    BY <1>2, <1>3 DEF StoreFailed, neoVars, polyVars
  <2>2. CASE Loss("db", cur.key) /\ UNCHANGED retry
    BY <1>1, <2>1, <2>2, LedgerLoses DEF storeVars
  <2>3. CASE NoFault /\ PutRetry(cur)
    BY <1>1, <2>1, <2>3, LedgerStoresRetry DEF NoFault, faultVars
  <2> QED
    BY <1>3, <2>2, <2>3 DEF StoreFailed
<1>4. CASE StoreResent
  <2>1. UNCHANGED <<neoHeight, polyDone, retry>> /\ cur.key \in Emits
    BY <1>2, <1>4 DEF StoreResent, neoVars, polyVars
  <2>2. CASE Fault("db") /\ UNCHANGED check
    BY <1>1, <2>1, <2>2, LedgerMemory DEF Fault
  <2>3. CASE NoFault /\ PutCheck(curHash, cur)
    BY <1>1, <2>1, <2>3, LedgerStoresCheck DEF NoFault, faultVars
  <2> QED
    BY <1>4, <2>2, <2>3 DEF StoreResent
<1>5. ASSUME NEW r \in retries, ResendRefused(r)
      PROVE  LedgerStep
  <2>1. UNCHANGED <<neoHeight, polyDone, check, retry>> /\ r.key \in Emits
    BY <1>1, <1>5 DEF ResendRefused, EmitInv, neoVars, polyVars, storeVars
  <2>2. CASE NoFault
    BY <1>1, <2>1, <2>2, LedgerMemory DEF NoFault, faultVars
  <2>3. CASE Loss("import", r.key)
    BY <1>1, <2>1, <2>3, LedgerLoses DEF storeVars
  <2> QED
    BY <1>5, <2>2, <2>3 DEF ResendRefused
<1>6. ASSUME check' \subseteq check, retry' \subseteq retry,
             UNCHANGED <<neoHeight, polyDone, dropped>>
      PROVE  LedgerStep
  BY <1>1, <1>6, LedgerMemory
<1>7. CASE CheckDoneTx
  BY <1>3, <1>6, <1>7
     DEF CheckDoneTx, GetAllCheck, EventMissing, EventFound, GetEventFails,
         DropCheck, DeleteCheck, NoFault, Fault, faultVars, neoVars, polyVars,
         storeVars
<1>8. CASE RetryTx
  BY <1>4, <1>5, <1>6, <1>8
     DEF RetryTx, GetAllRetry, RetryLater, Resend, Submit, RemoveRetry,
         DeleteRetry, EndRetry, NoFault, Fault, faultVars, neoVars, polyVars,
         storeVars
<1> QED
  BY <1>7, <1>8 DEF Retrier, RetrierStep

LEMMA LedgerChains ==
    ASSUME LedgerInv, Poly \/ PolyTrouble \/ NeoBlock
    PROVE  LedgerStep
<1>1. /\ [Next]_vars /\ TypeInv /\ EmitInv
      /\ check' = check /\ retry' = retry
  BY DEF Next, LedgerInv, Poly, PolyTrouble, NeoBlock, Relayer, storeVars
<1>2. Gains({})
  BY <1>1, GainsNothing
<1>3. ASSUME NEW x \in DOMAIN polyTx, PolyStep(x) \/ PolyFault(x)
      PROVE  LedgerStep
  <2>1. neoHeight' = neoHeight /\ dropped' = dropped
    BY <1>3
       DEF PolyStep, PolyFault, PolyImports, PolyStoresHeader, PolyRejects,
           PolyFails, PolyEvicts, IsNext, NoFault, Fault, faultVars
  <2>2. CASE PolyImports(x)
    <3>1. polyTx[x].key \in Emits /\ polyDone' = polyDone \cup {polyTx[x].key}
      BY <1>1, <2>2 DEF PolyImports, EmitInv
    <3> QED
      BY <1>1, <1>2, <2>1, <3>1, LedgerSettles
  <2>3. CASE polyDone' = polyDone
    BY <1>1, <1>2, <2>1, <2>3, LedgerQuiet
  <2> QED
    BY <1>3, <2>2, <2>3
       DEF PolyStep, PolyFault, PolyStoresHeader, PolyRejects, PolyFails,
           PolyEvicts
<1>4. ASSUME NEW k \in Keys, OtherImports(k)
      PROVE  LedgerStep
  <2>1. k \in Emits
    BY <1>4 DEF OtherImports, Emits
  <2> QED
    BY <1>1, <1>2, <1>4, <2>1, LedgerSettles DEF OtherImports, Fault
<1>5. CASE NeoBlock
  <2>1. /\ neoHeight' = neoHeight + 1
        /\ UNCHANGED <<polyDone, dropped>>
    BY <1>5 DEF NeoBlock, NeoGrow, polyVars, faultVars
  <2>2. Closed' = Closed
    BY <2>1 DEF Closed
  <2>3. Owed' = Owed
    BY <1>1, <1>2, <2>2, OwedNext DEF Owed
  <2>4. Emits' \in SUBSET Keys /\ Emits' = Emits \cup Emits'
    <3>1. Emits \subseteq Emits'
      BY <1>1, <2>1, EmitsGrow
    <3>2. Emits' \subseteq Keys
      BY KeyAtType DEF Emits, KeysUpTo, KeysOf
    <3> QED
      BY <3>1, <3>2
  <2>5. Ledger!Emit(Emits')
    BY <2>1, <2>3, <2>4 DEF Ledger!Emit, Owed, Emits
  <2> QED
    BY <2>4, <2>5 DEF LedgerStep, Ledger!Next
<1> QED
  BY <1>3, <1>4, <1>5 DEF Poly, PolyTrouble

LEMMA LedgerNext ==
    ASSUME LedgerInv, [Next]_vars
    PROVE  LedgerStep
<1>1. CASE Crash \/ UNCHANGED vars
  <2>1. UNCHANGED <<check, retry, neoHeight, polyDone, dropped>>
    BY <1>1
       DEF Crash, Fault, NoFault, vars, chainVars, neoVars, polyVars,
           faultVars, storeVars
  <2> QED
    BY <2>1, LedgerMemory
<1> QED
  BY <1>1, LedgerScanner, LedgerRetrier, LedgerChains DEF Next

(* While Poly can verify what it is sent, the database keeps the promise   *)
(* of the ledger: a transfer that was put into a bucket is owed until Poly *)
(* has imported it or a failure that the code only logs hit it, and no     *)
(* step closes a transfer that was not emitted, or two at once.            *)
THEOREM VerifiableLedger == Spec /\ []Verifiable => LedgerKept
<1>1. Init => Ledger!Init
  <2> SUFFICES ASSUME Init PROVE Ledger!Init
    OBVIOUS
  <2>1. Emits \subseteq Keys
    BY EmitsKeys
  <2>2. Owed = {} /\ polyDone = {} /\ dropped = {}
    BY DEF Init, ChainsInit, StoreInit, FailuresInit, Owed, Tracked, IsChecked,
           IsRetried
  <2> QED
    BY <2>1, <2>2 DEF Ledger!Init, Owed, Emits
<1>2. LedgerInv /\ [Next]_vars => [Ledger!Next]_(Ledger!vars)
  BY LedgerNext DEF LedgerStep
<1>3. LedgerInv /\ Verifiable /\ [Next]_vars => LedgerInv'
  BY LedgerStays
<1> QED
  BY <1>1, <1>2, <1>3, LedgerInit, PTL DEF Spec, LedgerKept, Ledger!Spec

(* It does while the validators do not change.                             *)
THEOREM LedgerImplemented ==
    ASSUME OneConsensus
    PROVE  Spec => LedgerKept
BY OneVerifiable, VerifiableLedger, PTL

(* It does across the changes of validators as well, under the assumptions *)
(* of EpochsKept.                                                          *)
THEOREM EpochsLedger ==
    ASSUME ProofsInOrder
    PROVE  Spec => LedgerKept
BY InOrderVerifiable, VerifiableLedger, PTL

=============================================================================
