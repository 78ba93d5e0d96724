------------------------- MODULE NeoToRelayProofs ---------------------------
(***************************************************************************)
(* Safety of NeoToRelay, proved for every Neo chain, every bound and every *)
(* set of failures the theorem does not exclude.                           *)
(***************************************************************************)
EXTENDS NeoToRelay, SequenceTheorems, TLAPS

-----------------------------------------------------------------------------
(* The types                                                               *)

(* relaySyncHeight never runs ahead of the block being scanned; the type   *)
(* of relaySyncHeight depends on it.                                       *)
CursorBehind == spc \notin {"start", "count"} => relaySyncHeight <= i

TypeInv == TypeOK /\ CursorBehind

LEMMA KeyAtType ==
    ASSUME NEW h \in Heights, NEW p \in TransfersOf[h]
    PROVE  KeyAt(h, p) \in Keys
<1>1. p \in NotesRead(h)
  BY DEF TransfersOf, Transfers
<1>2. PICK q \in ExecutionsRead(h) : \E m \in DOMAIN ExecutionAt(h, q).notes :
            p = <<q[1], q[2], m>>
  BY <1>1 DEF NotesRead
<1>3. PICK m \in DOMAIN ExecutionAt(h, q).notes : p = <<q[1], q[2], m>>
  BY <1>2
<1>4. PICK t \in DOMAIN Neo[h].txs :
            q \in {t} \X DOMAIN Neo[h].txs[t].executions
  BY DEF ExecutionsRead
<1>5. Neo[h].txs \in Seq(Transaction)
  BY ChainAssumption DEF Block
<1>6. Neo[h].txs[t] \in Transaction
  BY <1>5
<1>7. Neo[h].txs[t].executions[q[2]] \in Execution
  BY <1>4, <1>6 DEF Transaction
<1>8. ExecutionAt(h, q) \in Execution
  BY <1>4, <1>7 DEF ExecutionAt
<1>9. ExecutionAt(h, q).notes[m] \in Note
  BY <1>8 DEF Execution
<1>10. ExecutionAt(h, p) = ExecutionAt(h, q)
  BY <1>3 DEF ExecutionAt
<1>11. NoteAt(h, p) \in Note
  BY <1>3, <1>9, <1>10 DEF NoteAt
<1> QED
  BY <1>11 DEF KeyAt, Note

(* A step meets no failure, or one, which may cost a transfer.             *)
SomeFault ==
    NoFault \/ (\E f : Fault(f)) \/ (\E f : \E k \in Keys : Loss(f, k))

LEMMA FaultsType ==
    ASSUME FailuresTypeOK, dropped \subseteq Keys, SomeFault
    PROVE  FailuresTypeOK' /\ dropped' \subseteq Keys
BY BudgetAssumption
   DEF FailuresTypeOK, SomeFault, NoFault, Fault, Loss, Fails, faultVars

LEMMA SubmitType ==
    ASSUME ChainsTypeOK,
           NEW kind, NEW h, NEW k,
           \/ kind = "import" /\ h \in ProofHeights /\ k \in Keys
           \/ kind = "header" /\ h \in Heights /\ k = NoKey,
           Submit(kind, h, k),
           UNCHANGED neoVars,
           SomeFault
    PROVE  ChainsTypeOK' /\ Len(polyTx') \in Hashes
<1> DEFINE tx == [kind |-> kind, height |-> h, key |-> k, status |-> "pending"]
<1>1. tx \in PolyTx
  BY DEF PolyTx, Status
<1>2. polyTx' = Append(polyTx, tx) /\ Len(polyTx) < MaxTxs
  BY DEF Submit
<1>3. polyTx' \in Seq(PolyTx) /\ Len(polyTx') = Len(polyTx) + 1
  BY <1>1, <1>2 DEF ChainsTypeOK
<1> QED
  BY <1>2, <1>3, FaultsType, FaultAssumption
     DEF ChainsTypeOK, Submit, Hashes, neoVars

(* Any step that leaves the chains alone, with or without a failure.       *)
LEMMA QuietType ==
    ASSUME ChainsTypeOK, UNCHANGED <<neoVars, polyVars>>,
           SomeFault
    PROVE  ChainsTypeOK'
BY FaultsType DEF ChainsTypeOK, neoVars, polyVars

LEMMA ResolveType ==
    ASSUME ChainsTypeOK, NEW x \in DOMAIN polyTx, NEW s \in Status,
           Resolve(x, s)
    PROVE  /\ polyTx' \in Seq(PolyTx)
           /\ Len(polyTx') = Len(polyTx)
<1>1. polyTx[x] \in PolyTx
  BY DEF ChainsTypeOK
<1>2. [polyTx[x] EXCEPT !.status = s] \in PolyTx
  BY <1>1 DEF PolyTx
<1>3. polyTx' = [polyTx EXCEPT ![x] = [polyTx[x] EXCEPT !.status = s]]
  BY DEF Resolve
<1> QED
  BY <1>2, <1>3 DEF ChainsTypeOK

LEMMA ChainsType ==
    ASSUME ChainsTypeOK, Poly \/ PolyTrouble \/ NeoBlock
    PROVE  ChainsTypeOK'
<1> USE DEF ChainsTypeOK, neoVars
<1>1. ASSUME NEW x \in DOMAIN polyTx
      PROVE  polyTx[x] \in PolyTx
  OBVIOUS
<1>2. ASSUME NEW x \in DOMAIN polyTx, PolyStep(x)
      PROVE  ChainsTypeOK'
  <2>1. FailuresTypeOK' /\ dropped' \subseteq Keys
    BY <1>2, FaultsType DEF PolyStep, PolyImports, PolyStoresHeader,
       PolyRejects, IsNext, SomeFault
  <2>2. CASE PolyImports(x)
    <3>1. polyTx[x].key \in Keys
      BY <2>2, <1>1 DEF PolyImports, PolyTx
    <3> QED
      BY <2>1, <2>2, <3>1, ResolveType DEF PolyImports, Status
  <2>3. CASE PolyStoresHeader(x)
    <3>1. polyTx[x].height \in Heights
      BY <2>3, <1>1 DEF PolyStoresHeader, PolyTx
    <3> QED
      BY <2>1, <2>3, <3>1, ResolveType DEF PolyStoresHeader, Status
  <2>4. CASE PolyRejects(x)
    BY <2>1, <2>4, ResolveType DEF PolyRejects, Status
  <2> QED
    BY <1>2, <2>2, <2>3, <2>4 DEF PolyStep
<1>3. ASSUME NEW x \in DOMAIN polyTx, PolyFault(x)
      PROVE  ChainsTypeOK'
  <2>1. FailuresTypeOK' /\ dropped' \subseteq Keys
    BY <1>3, FaultsType DEF PolyFault, PolyFails, PolyEvicts, SomeFault
  <2> QED
    BY <1>3, <2>1, ResolveType DEF PolyFault, PolyFails, PolyEvicts, Status
<1>4. ASSUME NEW k \in Keys, OtherImports(k)
      PROVE  ChainsTypeOK'
  BY <1>4, FaultsType DEF OtherImports, SomeFault
<1>5. ASSUME NeoBlock
      PROVE  ChainsTypeOK'
  BY <1>5, ChainAssumption
     DEF NeoBlock, NeoGrow, polyVars, Heights, FailuresTypeOK, faultVars
<1> QED
  BY <1>2, <1>3, <1>4, <1>5 DEF Poly, PolyTrouble

(* The types of all that a step of the scanner may change.                 *)
ScannerKept ==
    ChainsTypeOK' /\ StoreTypeOK' /\ ScannerTypeOK' /\ CursorBehind'

LEMMA HeightsInt ==
    ASSUME TypeInv
    PROVE  /\ relaySyncHeight \in Heights /\ neoHeight \in Heights
           /\ i \in Heights /\ n \in Heights /\ peer \in Heights
           /\ MaxHeight \in Nat
BY ChainAssumption DEF TypeInv, TypeOK, ScannerTypeOK, ChainsTypeOK

LEMMA LeaveScanType ==
    ASSUME TypeInv, LeaveScan, SomeFault
    PROVE  ScannerKept
<1>1. ChainsTypeOK'
  BY QuietType DEF LeaveScan, SomeFault, TypeInv, TypeOK
<1> QED
  BY <1>1, HeightsInt
     DEF LeaveScan, TypeInv, TypeOK, ScannerKept, StoreTypeOK, storeVars,
         ScannerTypeOK, CursorBehind, InBlock, Heights

LEMMA ReturnType ==
    ASSUME TypeInv, Return, ChainsTypeOK', StoreTypeOK',
           spc \in {"prove", "putRetry", "putCheck"}
    PROVE  ScannerKept
BY HeightsInt, ChainAssumption
   DEF Return, TypeInv, TypeOK, ScannerKept, ScannerTypeOK, CursorBehind,
       InBlock, ProofHeights

LEMMA AdvanceType ==
    ASSUME TypeInv, Advance, InBlock, todo = {}, ChainsTypeOK', StoreTypeOK'
    PROVE  ScannerKept
<1>1. i < n /\ relaySyncHeight <= i
  BY DEF TypeInv, TypeOK, ScannerTypeOK, CursorBehind, InBlock
<1>2. i + 1 \in Heights /\ relaySyncHeight + 1 \in Heights
        /\ relaySyncHeight + 1 <= i + 1
  BY <1>1, HeightsInt DEF Heights
<1>3. Neo[i].next \in Consensus
  BY HeightsInt, ChainAssumption DEF Block
<1> QED
  BY <1>2, <1>3
     DEF Advance, TypeInv, TypeOK, ScannerKept, ScannerTypeOK, CursorBehind,
         InBlock

LEMMA ScannerType ==
    ASSUME TypeInv, ScannerStep
    PROVE  ScannerKept
<1> USE DEF TypeInv, TypeOK, CursorBehind, StoreTypeOK, storeVars, InBlock
<1>1. relaySyncHeight \in Heights /\ neoHeight \in Heights /\ i \in Heights
        /\ n \in Heights /\ peer \in Heights /\ MaxHeight \in Nat
  BY HeightsInt
<1>2. CASE LoadConsensus
  <2>1. ChainsTypeOK'
    BY <1>2, QuietType DEF SomeFault, LoadConsensus
  <2>2. neoNextConsensus' \in Consensus \cup {NoConsensus}
    <3>1. CASE relaySyncHeight = 0 \/ neoNextConsensus' = neoNextConsensus
      BY <1>2, <3>1 DEF LoadConsensus, ScannerTypeOK
    <3>2. CASE relaySyncHeight > 0
      <4>1. relaySyncHeight - 1 \in Heights
        BY <1>1, <3>2 DEF Heights
      <4>2. Neo[relaySyncHeight - 1].next \in Consensus
        BY <4>1, ChainAssumption DEF Block
      <4> QED
        BY <1>2, <4>2, <3>2 DEF LoadConsensus, ScannerTypeOK
    <3> QED
      BY <1>1, <3>1, <3>2 DEF Heights
  <2> QED
    BY <1>2, <2>1, <2>2 DEF LoadConsensus, ScannerTypeOK, ScannerKept
<1>3. CASE GetBlockCount
  <2>1. ChainsTypeOK'
    BY <1>3, QuietType DEF SomeFault, GetBlockCount
  <2>2. n' \in Heights
    BY <1>1, <1>3 DEF GetBlockCount, Heights
  <2>3. todo' \subseteq WorkOf[i']
    BY <1>3 DEF GetBlockCount, ScannerTypeOK
  <2> QED
    BY <1>1, <1>3, <2>1, <2>2, <2>3 DEF GetBlockCount, ScannerTypeOK, ScannerKept, Heights
<1>5. CASE EndScan
  BY <1>5, LeaveScanType DEF EndScan, SomeFault
<1>6. CASE GetBlock
  <2>1. ChainsTypeOK'
    BY <1>6, QuietType DEF SomeFault, GetBlock
  <2> QED
    BY <1>1, <1>6, <2>1 DEF GetBlock, ScannerTypeOK, ScannerKept
<1>7. CASE GetBlockFails
  BY <1>7, LeaveScanType DEF GetBlockFails, SomeFault
<1>8. CASE GetBlockEmpty
  <2>1. ChainsTypeOK'
    BY <1>8, QuietType DEF SomeFault, GetBlockEmpty
  <2>2. i' \in Heights /\ relaySyncHeight' <= i'
    BY <1>1, <1>8 DEF GetBlockEmpty, Heights
  <2> QED
    BY <1>1, <1>8, <2>1, <2>2 DEF GetBlockEmpty, ScannerTypeOK, ScannerKept
<1>9. ASSUME NEW p \in todo, Visit(p)
      PROVE  ScannerKept
  <2>1. CASE ReadLog(p)
    <3>1. ChainsTypeOK'
      BY <2>1, QuietType DEF SomeFault, ReadLog
    <3> QED
      BY <1>1, <2>1, <3>1 DEF ReadLog, AtWork, ScannerTypeOK, ScannerKept
  <2>2. CASE ReadLogFails(p)
    BY <2>2, LeaveScanType DEF ReadLogFails, SomeFault
  <2>3. CASE StopAtMalformed(p)
    BY <2>3, LeaveScanType DEF StopAtMalformed, SomeFault
  <2>4. CASE TakeTransfer(p)
    <3>1. ChainsTypeOK'
      BY <2>4, QuietType DEF SomeFault, TakeTransfer
    <3>2. key' \in Keys
      BY <1>1, <2>4, KeyAtType DEF TakeTransfer
    <3>3. passed' \in ProofHeights
      BY <1>1, <2>4 DEF TakeTransfer, ProofHeight, ProofHeights, Heights
    <3> QED
      BY <1>1, <2>4, <3>1, <3>2, <3>3
         DEF TakeTransfer, AtWork, ScannerTypeOK, ScannerKept
  <2>5. CASE GetPeerFails(p)
    BY <2>5, LeaveScanType DEF GetPeerFails, SomeFault
  <2> QED
    BY <1>9, <2>1, <2>2, <2>3, <2>4, <2>5 DEF Visit
<1>10. CASE SyncProof
  <2>1. spc \in {"prove", "putRetry", "putCheck"} /\ key \in Keys
    BY <1>10 DEF SyncProof, SendProof, ProofRefused, GetProofFails,
       GetStateRootFails, NoUtxo, StoreRetry, StoreCheck, Proving, ScannerTypeOK
  <2>2. CASE SendProof
    <3>1. ChainsTypeOK' /\ Len(polyTx') \in Hashes
      BY <2>1, <2>2, SubmitType DEF SendProof, SomeFault, ScannerTypeOK
    <3> QED
      BY <1>1, <2>1, <2>2, <3>1 DEF SendProof, ScannerTypeOK, ScannerKept
  <2>4. CASE ProofRefused \/ GetProofFails
    <3>1. ChainsTypeOK'
      BY <2>1, <2>4, QuietType DEF SomeFault, ProofRefused, GetProofFails
    <3> QED
      BY <2>1, <2>4, <3>1, ReturnType DEF ProofRefused, GetProofFails
  <2>5. CASE GetStateRootFails \/ NoUtxo
    <3>1. ChainsTypeOK'
      BY <2>5, QuietType DEF SomeFault, GetStateRootFails, NoUtxo
    <3> QED
      BY <1>1, <2>1, <2>5, <3>1
         DEF GetStateRootFails, NoUtxo, ScannerTypeOK, ScannerKept
  <2>6. CASE StoreRetry
    <3>1. ChainsTypeOK'
      BY <2>1, <2>6, QuietType DEF SomeFault, StoreRetry
    <3>2. [height |-> passed, key |-> key] \in Record
      BY <2>1 DEF ScannerTypeOK, Record
    <3>3. StoreTypeOK'
      BY <2>6, <3>2 DEF StoreRetry, PutRetry
    <3> QED
      BY <2>1, <2>6, <3>1, <3>3, ReturnType DEF StoreRetry
  <2>7. CASE StoreCheck
    <3>1. ChainsTypeOK'
      BY <2>1, <2>7, QuietType DEF SomeFault, StoreCheck
    <3>2. [hash |-> txHash, rec |-> [height |-> passed, key |-> key]]
            \in CheckEntry
      BY <2>1, <2>7 DEF StoreCheck, ScannerTypeOK, Record, CheckEntry
    <3>3. StoreTypeOK'
      BY <2>7, <3>2 DEF StoreCheck, PutCheck
    <3> QED
      BY <2>1, <2>7, <3>1, <3>3, ReturnType DEF StoreCheck
  <2> QED
    BY <1>10, <2>2, <2>4, <2>5, <2>6, <2>7 DEF SyncProof
<1>11. CASE EndBlock
  <2>1. InBlock
    BY <1>11 DEF EndBlock, FinishBlock, SendHeader, HeaderRefused,
       RelayBlockGenerated, BlockDone
  <2>3. CASE FinishBlock \/ HeaderRefused
    <3>1. ChainsTypeOK'
      BY <2>3, QuietType
         DEF SomeFault, FinishBlock, HeaderRefused, HeaderUnseen
    <3> QED
      BY <2>1, <2>3, <3>1, AdvanceType DEF FinishBlock, HeaderRefused, BlockDone
  <2>4. CASE SendHeader
    <3>1. ChainsTypeOK' /\ Len(polyTx') \in Hashes
      BY <1>1, <2>4, SubmitType
         DEF SendHeader, HeaderUnseen, SomeFault
    <3> QED
      BY <1>1, <2>1, <2>4, <3>1 DEF SendHeader, BlockDone, ScannerTypeOK, ScannerKept
  <2>5. CASE RelayBlockGenerated
    <3>1. ChainsTypeOK'
      BY <2>5, QuietType DEF SomeFault, RelayBlockGenerated
    <3> QED
      BY <2>1, <2>5, <3>1, AdvanceType DEF RelayBlockGenerated, ScannerTypeOK
  <2> QED
    BY <1>11, <2>3, <2>4, <2>5 DEF EndBlock
<1> QED
  BY <1>2, <1>3, <1>5, <1>6, <1>7, <1>8, <1>9, <1>10, <1>11
     DEF ScannerStep

LEMMA RetrierType ==
    ASSUME TypeInv, RetrierStep
    PROVE  ChainsTypeOK' /\ StoreTypeOK' /\ RetrierTypeOK'
<1> USE DEF TypeInv, TypeOK, StoreTypeOK, RetrierTypeOK, storeVars
<1>1. CASE GetAllCheck \/ GetAllRetry
  <2>1. ChainsTypeOK'
    BY <1>1, QuietType DEF SomeFault, GetAllCheck, GetAllRetry
  <2> QED
    BY <1>1, <2>1 DEF GetAllCheck, GetAllRetry, IsBatch
<1>2. ASSUME NEW c \in checks, EventMissing(c) \/ EventFound(c)
      PROVE  ChainsTypeOK' /\ StoreTypeOK' /\ RetrierTypeOK'
  <2>1. ChainsTypeOK'
    BY <1>2, QuietType DEF SomeFault, EventMissing, EventFound
  <2>2. c.rec \in Record /\ c.hash \in Hashes
    BY DEF CheckEntry
  <2> QED
    BY <1>2, <2>1, <2>2 DEF EventMissing, EventFound
<1>3. CASE GetEventFails \/ EndRetry
  <2>1. ChainsTypeOK'
    BY <1>3, QuietType DEF SomeFault, GetEventFails, EndRetry
  <2> QED
    BY <1>3, <2>1 DEF GetEventFails, EndRetry
<1>4. CASE StoreFailed \/ RemoveRetry
  <2>1. ChainsTypeOK'
    <3>1. CASE StoreFailed
      <4>1. cur.key \in Keys
        BY <3>1 DEF StoreFailed, Record
      <4> QED
        BY <3>1, <4>1, QuietType DEF SomeFault, StoreFailed
    <3>2. CASE RemoveRetry
      BY <3>2, QuietType DEF SomeFault, RemoveRetry
    <3> QED
      BY <1>4, <3>1, <3>2
  <2> QED
    BY <1>4, <2>1 DEF StoreFailed, RemoveRetry, PutRetry, DeleteRetry, Continue
<1>5. CASE DropCheck
  <2>1. ChainsTypeOK'
    BY <1>5, QuietType DEF SomeFault, DropCheck
  <2> QED
    BY <1>5, <2>1 DEF DropCheck, DeleteCheck, Continue
<1>6. ASSUME NEW r \in retries, RetryLater(r) \/ ResendRefused(r)
      PROVE  ChainsTypeOK' /\ StoreTypeOK' /\ RetrierTypeOK'
  <2>1. ChainsTypeOK'
    <3>1. r.key \in Keys
      BY DEF Record
    <3> QED
      BY <1>6, <3>1, QuietType DEF SomeFault, RetryLater, ResendRefused
  <2> QED
    BY <1>6, <2>1 DEF RetryLater, ResendRefused
<1>7. ASSUME NEW r \in retries, Resend(r)
      PROVE  ChainsTypeOK' /\ StoreTypeOK' /\ RetrierTypeOK'
  <2>1. r.height \in ProofHeights /\ r.key \in Keys
    BY DEF Record
  <2>2. ChainsTypeOK' /\ Len(polyTx') \in Hashes
    BY <1>7, <2>1, SubmitType DEF Resend, SomeFault
  <2> QED
    BY <1>7, <2>2 DEF Resend
<1>8. CASE StoreResent
  <2>1. ChainsTypeOK'
    BY <1>8, QuietType DEF SomeFault, StoreResent
  <2>2. [hash |-> curHash, rec |-> cur] \in CheckEntry
    BY <1>8 DEF StoreResent, CheckEntry
  <2> QED
    BY <1>8, <2>1, <2>2 DEF StoreResent, PutCheck, Continue
<1> QED
  BY <1>1, <1>2, <1>3, <1>4, <1>5, <1>6, <1>7, <1>8
     DEF RetrierStep, CheckDoneTx, RetryTx

LEMMA TypeInit == Init => TypeInv
<1> SUFFICES ASSUME Init PROVE TypeInv
  OBVIOUS
<1>1. ChainsTypeOK
  BY GenesisAssumption, FaultAssumption, BudgetAssumption
     DEF Init, ChainsInit, ChainsTypeOK, FailuresInit, FailuresTypeOK
<1>2. ScannerTypeOK /\ CursorBehind
  BY ChainAssumption, StartAssumption, GenesisAssumption
     DEF Init, ScannerInit, ScannerTypeOK, CursorBehind, InBlock, Heights,
         ProofHeights
<1> QED
  BY <1>1, <1>2
     DEF Init, TypeInv, TypeOK, StoreInit, StoreTypeOK, RetrierInit,
         RetrierTypeOK

LEMMA TypeStep ==
    ASSUME TypeInv, [Next]_vars
    PROVE  TypeInv'
<1> USE DEF TypeInv, TypeOK
<1>1. CASE Scanner
  BY <1>1, ScannerType DEF Scanner, ScannerKept, RetrierTypeOK, retrierVars
<1>2. CASE Retrier
  BY <1>2, RetrierType
     DEF Retrier, ScannerTypeOK, CursorBehind, InBlock, scanVars
<1>3. CASE Poly \/ PolyTrouble \/ NeoBlock
  BY <1>3, ChainsType
     DEF Poly, PolyTrouble, NeoBlock, Relayer, storeVars, scanVars,
         retrierVars, StoreTypeOK, ScannerTypeOK, CursorBehind, InBlock,
         RetrierTypeOK
<1>4. CASE Crash
  <2>1. ChainsTypeOK'
    BY <1>4, QuietType DEF SomeFault, Crash
  <2>2. ScannerTypeOK' /\ CursorBehind'
    BY <1>4, ChainAssumption, StartAssumption, GenesisAssumption
       DEF Crash, ScannerReset, ScannerTypeOK, CursorBehind, InBlock, Heights,
           ProofHeights
  <2> QED
    BY <1>4, <2>1, <2>2
       DEF Crash, RetrierReset, RetrierTypeOK, StoreTypeOK, storeVars
<1>5. CASE UNCHANGED vars
  BY <1>5
     DEF vars, chainVars, neoVars, polyVars, faultVars, storeVars, scanVars,
         retrierVars,
         ChainsTypeOK, FailuresTypeOK, StoreTypeOK, ScannerTypeOK,
         CursorBehind, InBlock,
         RetrierTypeOK
<1> QED
  BY <1>1, <1>2, <1>3, <1>4, <1>5 DEF Next

(* Every variable keeps its type, whatever fails and whenever the process  *)
(* crashes: no loop of the relayer indexes a block beyond the chain, and   *)
(* no bucket holds a record without a key.                                 *)
THEOREM TypeCorrect == Spec => []TypeOK
<1>1. Spec => []TypeInv
  BY TypeInit, TypeStep, PTL DEF Spec
<1>2. TypeInv => TypeOK
  BY DEF TypeInv
<1> QED
  BY <1>1, <1>2, PTL

-----------------------------------------------------------------------------
(* What Poly has been sent is never taken back                             *)

LEMMA AppendOne ==
    ASSUME NEW S, NEW q \in Seq(S), NEW e
    PROVE  /\ Len(Append(q, e)) = Len(q) + 1
           /\ Len(q) \in Nat /\ DOMAIN q = 1..Len(q)
           /\ DOMAIN Append(q, e) = 1..(Len(q) + 1)
           /\ \A x \in 1..Len(q) : Append(q, e)[x] = q[x]
           /\ Append(q, e)[Len(q) + 1] = e
<1>1. q \in Seq(S \cup {e})
  BY SeqMonotonic
<1>2. /\ Append(q, e) \in Seq(S \cup {e})
      /\ Len(Append(q, e)) = Len(q) + 1
      /\ \A x \in 1..Len(q) : Append(q, e)[x] = q[x]
      /\ Append(q, e)[Len(q) + 1] = e
  BY <1>1, AppendProperties
<1> QED
  BY <1>1, <1>2, LenProperties

LEMMA SubmitGrows ==
    ASSUME TypeInv, NEW kind, NEW h, NEW k, Submit(kind, h, k)
    PROVE  /\ Len(polyTx') = Len(polyTx) + 1
           /\ DOMAIN polyTx = 1..Len(polyTx) /\ Len(polyTx) \in Nat
           /\ DOMAIN polyTx' = 1..(Len(polyTx) + 1)
           /\ \A x \in DOMAIN polyTx : polyTx'[x] = polyTx[x]
           /\ polyTx'[Len(polyTx')] =
                 [kind |-> kind, height |-> h, key |-> k, status |-> "pending"]
<1> DEFINE tx == [kind |-> kind, height |-> h, key |-> k, status |-> "pending"]
<1>1. polyTx \in Seq(PolyTx) /\ polyTx' = Append(polyTx, tx)
  BY DEF TypeInv, TypeOK, ChainsTypeOK, Submit
<1> HIDE DEF tx
<1>2. /\ Len(Append(polyTx, tx)) = Len(polyTx) + 1
      /\ Len(polyTx) \in Nat /\ DOMAIN polyTx = 1..Len(polyTx)
      /\ DOMAIN Append(polyTx, tx) = 1..(Len(polyTx) + 1)
      /\ \A x \in 1..Len(polyTx) : Append(polyTx, tx)[x] = polyTx[x]
      /\ Append(polyTx, tx)[Len(polyTx) + 1] = tx
  BY <1>1, AppendOne, Zenon
<1> QED
  BY <1>1, <1>2 DEF tx

SameTx(t, u) == t.kind = u.kind /\ t.height = u.height /\ t.key = u.key

LEMMA PolyGrows ==
    ASSUME TypeInv, [Next]_vars, NEW x \in DOMAIN polyTx
    PROVE  x \in DOMAIN polyTx' /\ SameTx(polyTx'[x], polyTx[x])
<1> USE DEF SameTx
<1>1. ASSUME NEW kind, NEW h, NEW k, Submit(kind, h, k)
      PROVE  x \in DOMAIN polyTx' /\ SameTx(polyTx'[x], polyTx[x])
  <2>1. /\ Len(polyTx) \in Nat /\ DOMAIN polyTx = 1..Len(polyTx)
        /\ DOMAIN polyTx' = 1..(Len(polyTx) + 1)
        /\ polyTx'[x] = polyTx[x]
    BY <1>1, SubmitGrows, Zenon
  <2> QED
    BY <2>1
<1>2. ASSUME NEW y \in DOMAIN polyTx, NEW s, Resolve(y, s)
      PROVE  x \in DOMAIN polyTx' /\ SameTx(polyTx'[x], polyTx[x])
  <2>1. polyTx[x] \in PolyTx
    BY DEF TypeInv, TypeOK, ChainsTypeOK
  <2>2. DOMAIN polyTx' = DOMAIN polyTx
    BY <1>2 DEF Resolve, TypeInv, TypeOK, ChainsTypeOK
  <2>3. polyTx'[x] = polyTx[x] \/ polyTx'[x] = [polyTx[x] EXCEPT !.status = s]
    BY <1>2 DEF Resolve, TypeInv, TypeOK, ChainsTypeOK
  <2> QED
    BY <2>1, <2>2, <2>3 DEF PolyTx
<1>3. ASSUME UNCHANGED polyTx
      PROVE  x \in DOMAIN polyTx' /\ SameTx(polyTx'[x], polyTx[x])
  BY <1>3
<1>4. CASE Scanner
  BY <1>1, <1>3, <1>4
     DEF Scanner, ScannerStep, LoadConsensus, GetBlockCount, EndScan, LeaveScan,
         GetBlock, GetBlockFails, GetBlockEmpty, Visit, ReadLog, ReadLogFails,
         StopAtMalformed, TakeTransfer, GetPeerFails, SyncProof, SendProof,
         ProofRefused, GetProofFails, GetStateRootFails, NoUtxo, StoreRetry,
         StoreCheck, EndBlock, FinishBlock, SendHeader, HeaderRefused,
         RelayBlockGenerated, polyVars
<1>5. CASE Retrier
  BY <1>1, <1>3, <1>5
     DEF Retrier, RetrierStep, CheckDoneTx, RetryTx, GetAllCheck, EventMissing,
         EventFound, GetEventFails, StoreFailed, DropCheck, GetAllRetry,
         RetryLater, Resend, ResendRefused, StoreResent, RemoveRetry, EndRetry,
         polyVars
<1>6. CASE Poly \/ PolyTrouble
  BY <1>2, <1>3, <1>6
     DEF Poly, PolyTrouble, PolyStep, PolyFault, PolyImports, PolyStoresHeader,
         PolyRejects, PolyFails, PolyEvicts, OtherImports
<1>7. CASE NeoBlock \/ Crash \/ UNCHANGED vars
  BY <1>3, <1>7 DEF NeoBlock, NeoGrow, Crash, vars, chainVars, polyVars
<1> QED
  BY <1>4, <1>5, <1>6, <1>7 DEF Next

-----------------------------------------------------------------------------
(* The hash kept with a record is the hash of its transaction              *)

(* Transaction `hash' was sent for the record `rec'.                       *)
SentFor(hash, rec) ==
    /\ hash \in DOMAIN polyTx
    /\ polyTx[hash].kind = "import"
    /\ polyTx[hash].height = rec.height
    /\ polyTx[hash].key = rec.key

AtHand == [height |-> passed, key |-> key]

(* Every hash kept with a record, in the database, in the snapshot of      *)
(* checkDoneTx or in a variable, is the hash of a transaction sent for it. *)
MatchInv ==
    /\ \A c \in check \cup checks : SentFor(c.hash, c.rec)
    /\ spc = "putCheck" => SentFor(txHash, AtHand)
    /\ rpc \in {"putRetry", "drop", "putCheck"} => SentFor(curHash, cur)

LEMMA MatchScanner ==
    ASSUME TypeInv, MatchInv, ScannerStep, UNCHANGED retrierVars,
           \A h, r : SentFor(h, r) => SentFor(h, r)'
    PROVE  MatchInv'
<1> USE DEF MatchInv, retrierVars
<1>1. CASE SendProof
  <2>1. /\ txHash' \in DOMAIN polyTx'
        /\ polyTx'[txHash'] = [kind |-> "import", height |-> passed,
                              key |-> key, status |-> "pending"]
    BY <1>1, SubmitGrows DEF SendProof
  <2>2. SentFor(txHash, AtHand)'
    BY <1>1, <2>1 DEF SendProof, SentFor, AtHand
  <2> QED
    BY <1>1, <2>2 DEF SendProof, storeVars
<1>2. CASE StoreCheck
  BY <1>2 DEF StoreCheck, PutCheck, Return, AtHand
<1>3. ASSUME UNCHANGED check, spc' # "putCheck"
      PROVE  MatchInv'
  BY <1>3
<1> QED
  BY <1>1, <1>2, <1>3
     DEF ScannerStep, LoadConsensus, GetBlockCount, EndScan, LeaveScan,
         GetBlock, GetBlockFails, GetBlockEmpty, Visit, ReadLog, ReadLogFails,
         StopAtMalformed, TakeTransfer, GetPeerFails, SyncProof, Return, AtWork,
         ProofRefused, GetProofFails, GetStateRootFails, NoUtxo, StoreRetry,
         EndBlock, FinishBlock, SendHeader, HeaderRefused, Advance,
         RelayBlockGenerated, storeVars

LEMMA MatchRetrier ==
    ASSUME TypeInv, MatchInv, RetrierStep, UNCHANGED scanVars,
           \A h, r : SentFor(h, r) => SentFor(h, r)'
    PROVE  MatchInv'
<1> USE DEF MatchInv, scanVars, AtHand
<1>1. CASE GetAllCheck
  BY <1>1 DEF GetAllCheck, IsBatch, storeVars
<1>2. ASSUME NEW c \in checks, EventMissing(c) \/ EventFound(c)
      PROVE  MatchInv'
  BY <1>2 DEF EventMissing, EventFound, storeVars
<1>3. CASE GetEventFails \/ GetAllRetry \/ EndRetry
  BY <1>3 DEF GetEventFails, GetAllRetry, EndRetry, storeVars
<1>4. CASE StoreFailed
  BY <1>4 DEF StoreFailed
<1>5. CASE DropCheck \/ RemoveRetry
  BY <1>5 DEF DropCheck, DeleteCheck, RemoveRetry, Continue
<1>6. ASSUME NEW r \in retries, RetryLater(r) \/ ResendRefused(r)
      PROVE  MatchInv'
  BY <1>6 DEF RetryLater, ResendRefused, storeVars
<1>7. ASSUME NEW r \in retries, Resend(r)
      PROVE  MatchInv'
  <2>1. /\ curHash' \in DOMAIN polyTx' /\ cur' = r
        /\ polyTx'[curHash'] = [kind |-> "import", height |-> r.height,
                               key |-> r.key, status |-> "pending"]
    BY <1>7, SubmitGrows DEF Resend
  <2>2. SentFor(curHash, cur)'
    BY <2>1 DEF SentFor
  <2> QED
    BY <1>7, <2>2 DEF Resend, storeVars
<1>8. CASE StoreResent
  BY <1>8 DEF StoreResent, PutCheck, Continue
<1> QED
  BY <1>1, <1>2, <1>3, <1>4, <1>5, <1>6, <1>7, <1>8
     DEF RetrierStep, CheckDoneTx, RetryTx

LEMMA MatchStep ==
    ASSUME TypeInv, MatchInv, [Next]_vars
    PROVE  MatchInv'
<1>1. \A h, r : SentFor(h, r) => SentFor(h, r)'
  BY PolyGrows DEF SentFor, SameTx
<1>2. CASE Scanner
  BY <1>1, <1>2, MatchScanner DEF Scanner
<1>3. CASE Retrier
  BY <1>1, <1>3, MatchRetrier DEF Retrier
<1>4. CASE Poly \/ PolyTrouble \/ NeoBlock \/ UNCHANGED vars
  BY <1>1, <1>4
     DEF Poly, PolyTrouble, NeoBlock, Relayer, vars, storeVars, scanVars,
         retrierVars, MatchInv, AtHand
<1>5. CASE Crash
  BY <1>1, <1>5 DEF Crash, ScannerReset, RetrierReset, storeVars, MatchInv
<1> QED
  BY <1>2, <1>3, <1>4, <1>5 DEF Next

(* Whatever fails and whenever the process crashes, an entry of bucket     *)
(* Check carries the hash of the transaction that was sent for its record: *)
(* checkDoneTx never retries one transfer because another one failed.      *)
THEOREM CheckMatches == Spec => []CheckMatchesTx
<1>1. Init => MatchInv
  BY DEF Init, StoreInit, ScannerInit, RetrierInit, MatchInv
<1>2. MatchInv => CheckMatchesTx
  BY DEF MatchInv, CheckMatchesTx, SentFor
<1>3. Spec => []TypeInv
  BY TypeInit, TypeStep, PTL DEF Spec
<1>4. TypeInv /\ MatchInv /\ [Next]_vars => MatchInv'
  BY MatchStep
<1> QED
  BY <1>1, <1>2, <1>3, <1>4, PTL DEF Spec

-----------------------------------------------------------------------------
(* The proofs sent cover the transfers they prove                          *)

(* The state root of block `rec.height' contains the transfer.             *)
Provable(rec) == rec.height > 0 /\ rec.key \in KeysUpTo(rec.height)

(* Every record, wherever it is on its way from the scanner to Poly, can   *)
(* be proved at the height it carries.                                     *)
CoverInv ==
    /\ \A c \in check \cup checks : Provable(c.rec)
    /\ \A r \in retry \cup retries : Provable(r)
    /\ spc \in {"prove", "putRetry", "putCheck"} => Provable(AtHand)
    /\ rpc \in {"putRetry", "drop", "putCheck", "delete"} => Provable(cur)
    /\ \A x \in DOMAIN polyTx :
           polyTx[x].kind = "import" => Provable(polyTx[x])

LEMMA KeysCovered ==
    ASSUME NEW h \in Heights, NEW p \in TransfersOf[h],
           NEW g \in Int, h <= g
    PROVE  KeyAt(h, p) \in KeysUpTo(g)
<1>1. KeyAt(h, p) \in KeysOf[h]
  BY DEF KeysOf
<1> QED
  BY <1>1 DEF KeysUpTo

(* What holds of a new transaction and of the old ones holds of all.       *)
LEMMA SubmitCovers ==
    ASSUME TypeInv, CoverInv, NEW kind, NEW h, NEW k, Submit(kind, h, k),
           kind = "import" => h > 0 /\ k \in KeysUpTo(h)
    PROVE  \A x \in DOMAIN polyTx' :
               polyTx'[x].kind = "import" => Provable(polyTx'[x])
<1> SUFFICES ASSUME NEW x \in DOMAIN polyTx', polyTx'[x].kind = "import"
             PROVE  Provable(polyTx'[x])
  OBVIOUS
<1>1. x \in DOMAIN polyTx \/ x = Len(polyTx')
  <2>1. /\ Len(polyTx) \in Nat /\ DOMAIN polyTx = 1..Len(polyTx)
        /\ DOMAIN polyTx' = 1..(Len(polyTx) + 1)
        /\ Len(polyTx') = Len(polyTx) + 1
    BY SubmitGrows, Zenon
  <2> QED
    BY <2>1
<1>2. CASE x \in DOMAIN polyTx
  <2>1. polyTx'[x] = polyTx[x]
    BY <1>2, SubmitGrows
  <2> QED
    BY <1>2, <2>1 DEF CoverInv
<1>3. CASE x = Len(polyTx')
  <2>1. polyTx'[x] =
          [kind |-> kind, height |-> h, key |-> k, status |-> "pending"]
    BY <1>3, SubmitGrows
  <2> QED
    BY <2>1 DEF Provable
<1> QED
  BY <1>1, <1>2, <1>3

LEMMA CoverScanner ==
    ASSUME TypeInv, CoverInv, ScannerStep, UNCHANGED retrierVars
    PROVE  CoverInv'
<1> USE DEF CoverInv, retrierVars, AtHand
<1> DEFINE Sent == \A x \in DOMAIN polyTx :
                       polyTx[x].kind = "import" => Provable(polyTx[x])
<1>1. ASSUME NEW p \in todo, TakeTransfer(p)
      PROVE  CoverInv'
  <2>1. i \in Heights /\ peer \in Heights /\ p \in TransfersOf[i]
    BY <1>1, HeightsInt DEF TakeTransfer
  <2>2. passed' \in Int /\ passed' > 0 /\ i <= passed'
    BY <1>1, <2>1, ChainAssumption DEF TakeTransfer, ProofHeight, Heights
  <2>3. key' \in KeysUpTo(passed')
    BY <1>1, <2>1, <2>2, KeysCovered DEF TakeTransfer
  <2> QED
    BY <1>1, <2>2, <2>3 DEF TakeTransfer, Provable, polyVars, storeVars
<1>2. CASE SendProof
  <2>1. Provable(AtHand)
    BY <1>2 DEF SendProof, Proving
  <2>2. Sent'
    BY <1>2, <2>1, SubmitCovers DEF SendProof, Provable
  <2> QED
    BY <1>2, <2>1, <2>2 DEF SendProof, storeVars
<1>3. CASE SendHeader
  <2>1. Sent'
    BY <1>3, SubmitCovers DEF SendHeader
  <2> QED
    BY <1>3, <2>1 DEF SendHeader, storeVars
<1>4. CASE StoreCheck \/ StoreRetry
  <2>1. Provable(AtHand)
    BY <1>4 DEF StoreCheck, StoreRetry
  <2> QED
    BY <1>4, <2>1
       DEF StoreCheck, StoreRetry, PutCheck, PutRetry, Return, polyVars
<1>5. CASE GetStateRootFails \/ NoUtxo
  BY <1>5 DEF GetStateRootFails, NoUtxo, Proving, polyVars, storeVars
<1>6. ASSUME UNCHANGED <<polyVars, storeVars>>,
             spc' \notin {"prove", "putRetry", "putCheck"}
      PROVE  CoverInv'
  BY <1>6 DEF polyVars, storeVars
<1> QED
  BY <1>1, <1>2, <1>3, <1>4, <1>5, <1>6
     DEF ScannerStep, LoadConsensus, GetBlockCount, EndScan, LeaveScan,
         GetBlock, GetBlockFails, GetBlockEmpty, Visit, ReadLog, ReadLogFails,
         StopAtMalformed, GetPeerFails, SyncProof, Return, AtWork,
         ProofRefused, GetProofFails, EndBlock, FinishBlock, HeaderRefused,
         Advance, RelayBlockGenerated

LEMMA CoverRetrier ==
    ASSUME TypeInv, CoverInv, RetrierStep, UNCHANGED scanVars
    PROVE  CoverInv'
<1> USE DEF CoverInv, scanVars, AtHand
<1>1. CASE GetAllCheck \/ GetAllRetry
  BY <1>1 DEF GetAllCheck, GetAllRetry, IsBatch, storeVars, polyVars
<1>2. ASSUME NEW c \in checks, EventMissing(c) \/ EventFound(c)
      PROVE  CoverInv'
  BY <1>2 DEF EventMissing, EventFound, storeVars, polyVars
<1>3. CASE GetEventFails \/ EndRetry
  BY <1>3 DEF GetEventFails, EndRetry, storeVars, polyVars
<1>4. CASE StoreFailed \/ RemoveRetry
  BY <1>4
     DEF StoreFailed, PutRetry, RemoveRetry, DeleteRetry, Continue, polyVars
<1>5. CASE DropCheck
  BY <1>5 DEF DropCheck, DeleteCheck, Continue, polyVars
<1>6. ASSUME NEW r \in retries, RetryLater(r) \/ ResendRefused(r)
      PROVE  CoverInv'
  BY <1>6 DEF RetryLater, ResendRefused, storeVars, polyVars
<1>7. ASSUME NEW r \in retries, Resend(r)
      PROVE  CoverInv'
  <2>1. \A x \in DOMAIN polyTx' :
            polyTx'[x].kind = "import" => Provable(polyTx'[x])
    BY <1>7, SubmitCovers DEF Resend, Provable
  <2> QED
    BY <1>7, <2>1 DEF Resend, storeVars
<1>8. CASE StoreResent
  BY <1>8 DEF StoreResent, PutCheck, Continue, polyVars
<1> QED
  BY <1>1, <1>2, <1>3, <1>4, <1>5, <1>6, <1>7, <1>8
     DEF RetrierStep, CheckDoneTx, RetryTx

LEMMA CoverStep ==
    ASSUME TypeInv, CoverInv, [Next]_vars
    PROVE  CoverInv'
<1>1. CASE Scanner
  BY <1>1, CoverScanner DEF Scanner
<1>2. CASE Retrier
  BY <1>2, CoverRetrier DEF Retrier
<1>3. CASE Poly \/ PolyTrouble
  <2>1. DOMAIN polyTx' = DOMAIN polyTx
    BY <1>3
       DEF Poly, PolyTrouble, PolyStep, PolyFault, PolyImports, OtherImports,
           PolyStoresHeader, PolyRejects, PolyFails, PolyEvicts, Resolve,
           TypeInv, TypeOK, ChainsTypeOK
  <2>2. \A x \in DOMAIN polyTx' :
            polyTx'[x].kind = "import" => Provable(polyTx'[x])
    BY <2>1, PolyGrows DEF CoverInv, SameTx, Provable
  <2> QED
    BY <1>3, <2>2
       DEF Poly, PolyTrouble, Relayer, storeVars, scanVars, retrierVars,
           CoverInv, AtHand
<1>4. CASE NeoBlock \/ UNCHANGED vars
  BY <1>4
     DEF NeoBlock, NeoGrow, Relayer, vars, chainVars, polyVars, storeVars,
         scanVars, retrierVars, CoverInv, AtHand
<1>5. CASE Crash
  BY <1>5
     DEF Crash, ScannerReset, RetrierReset, storeVars, polyVars, CoverInv
<1> QED
  BY <1>1, <1>2, <1>3, <1>4, <1>5 DEF Next

(* Every import sent to Poly, the first time or by a retry, is proved      *)
(* against the state root of a block that already contains the transfer:   *)
(* moving a transfer up to the block after the peer never moves it down.   *)
THEOREM ProofsCover == Spec => []ProofCoversTransfer
<1>1. Init => CoverInv
  BY DEF Init, ChainsInit, StoreInit, ScannerInit, RetrierInit, CoverInv
<1>2. CoverInv => ProofCoversTransfer
  BY DEF CoverInv, ProofCoversTransfer, Provable
<1>3. Spec => []TypeInv
  BY TypeInit, TypeStep, PTL DEF Spec
<1>4. TypeInv /\ CoverInv /\ [Next]_vars => CoverInv'
  BY CoverStep
<1> QED
  BY <1>1, <1>2, <1>3, <1>4, PTL DEF Spec

-----------------------------------------------------------------------------
(* The cursor is the height of the block being processed                   *)

(* The loop variable of neoToRelay and the cursor move together, unless an *)
(* empty block is skipped.                                                 *)
StepInv == (spc = "block" \/ InBlock) => i = relaySyncHeight

LEMMA StepStep ==
    ASSUME TypeInv, StepInv, "empty" \notin Faults, [Next]_vars
    PROVE  StepInv'
<1> USE DEF StepInv, InBlock
<1>1. CASE Scanner
  BY <1>1, HeightsInt
     DEF Scanner, ScannerStep, LoadConsensus, GetBlockCount, EndScan,
         LeaveScan, GetBlock, GetBlockFails, GetBlockEmpty, Fault, Fails, Visit,
         AtWork, ReadLog, ReadLogFails, StopAtMalformed, TakeTransfer,
         GetPeerFails, SyncProof, SendProof, Proving, ProofRefused,
         GetProofFails, GetStateRootFails, NoUtxo, StoreRetry, StoreCheck,
         Return, EndBlock, BlockDone, FinishBlock, SendHeader, HeaderRefused,
         RelayBlockGenerated, Advance, Heights
<1>2. CASE Retrier \/ Poly \/ PolyTrouble \/ NeoBlock \/ UNCHANGED vars
  BY <1>2
     DEF Retrier, Poly, PolyTrouble, NeoBlock, Relayer, vars, scanVars
<1>3. CASE Crash
  BY <1>3 DEF Crash, ScannerReset
<1> QED
  BY <1>1, <1>2, <1>3 DEF Next

(* When no block is answered empty five times, the block being processed   *)
(* is the one relaySyncHeight names: a failure at any call of the block,   *)
(* and a crash, leave the cursor at a block that is not finished.          *)
THEOREM CursorStaysInStep ==
    ASSUME "empty" \notin Faults
    PROVE  Spec => []CursorInStep
<1>1. Init => StepInv
  BY DEF Init, ScannerInit, StepInv, InBlock
<1>2. StepInv => CursorInStep
  BY DEF StepInv, CursorInStep
<1>3. Spec => []TypeInv
  BY TypeInit, TypeStep, PTL DEF Spec
<1>4. TypeInv /\ StepInv /\ [Next]_vars => StepInv'
  BY StepStep
<1> QED
  BY <1>1, <1>2, <1>3, <1>4, PTL DEF Spec

-----------------------------------------------------------------------------
(* Poly knows the validators, however often they change                    *)

(* Poly does not lose a header: none is refused, dropped or given up       *)
(* waiting for, no block is skipped, and a process that crashed comes back *)
(* after Poly has executed what the old one sent.                          *)
HeadersArrive ==
    /\ ~QuickRestart
    /\ Faults \cap {"empty", "header", "late", "exec", "evict"} = {}

(* The validators Poly knows sign the blocks up to h.                      *)
Reaches(h) == \A g \in peer..(h - 1) : Neo[g].next = Neo[peer].next

PendingHeaders ==
    { x \in DOMAIN polyTx : IsPending(x) /\ polyTx[x].kind = "header" }

(* neoNextConsensus is known only for the block before the cursor.         *)
ConsensusInv ==
    neoNextConsensus \in Consensus =>
        relaySyncHeight > 0 /\ neoNextConsensus = Neo[relaySyncHeight - 1].next

(* A header that is not executed is the one the scanner waits for, or the  *)
(* one the crashed process was waiting for; there are not two.             *)
HeaderInv ==
    /\ \A x \in PendingHeaders :
           /\ spc = "start" \/ (spc = "wait" /\ x = txHash)
           /\ relaySyncHeight <= polyTx[x].height
           /\ Reaches(polyTx[x].height)
    /\ \A x, y \in PendingHeaders : x = y
    /\ spc = "wait" =>
           /\ txHash \in DOMAIN polyTx
           /\ polyTx[txHash].kind = "header" /\ polyTx[txHash].height = i
           /\ IsPending(txHash) \/ i \in headers

(* Poly knows the validators of the cursor's block, and those after any    *)
(* header that it has stored.                                              *)
ReachInv ==
    /\ GenesisPeer <= peer /\ NeoStartHeight <= relaySyncHeight
    /\ Reaches(relaySyncHeight)
    /\ \A h \in headers : Reaches(h + 1)

PeerInv == ReachInv /\ HeaderInv /\ ConsensusInv /\ ImportsVerify

LEMMA SubmitPends ==
    ASSUME TypeInv, NEW kind, NEW h, NEW k, Submit(kind, h, k)
    PROVE  PendingHeaders' = PendingHeaders \cup
               (IF kind = "header" THEN {Len(polyTx')} ELSE {})
<1>1. /\ Len(polyTx) \in Nat /\ DOMAIN polyTx = 1..Len(polyTx)
      /\ DOMAIN polyTx' = 1..(Len(polyTx) + 1)
      /\ Len(polyTx') = Len(polyTx) + 1
      /\ \A x \in DOMAIN polyTx : polyTx'[x] = polyTx[x]
      /\ polyTx'[Len(polyTx')] =
            [kind |-> kind, height |-> h, key |-> k, status |-> "pending"]
  BY SubmitGrows, Zenon
<1>2. /\ polyTx'[Len(polyTx')].kind = kind
      /\ polyTx'[Len(polyTx')].status = "pending"
  BY <1>1
<1>3. /\ DOMAIN polyTx' = DOMAIN polyTx \cup {Len(polyTx')}
      /\ Len(polyTx') \notin DOMAIN polyTx
  BY <1>1
<1> QED
  BY <1>1, <1>2, <1>3 DEF PendingHeaders, IsPending

LEMMA ImportPends ==
    ASSUME TypeInv, NEW h, NEW k, Submit("import", h, k)
    PROVE  PendingHeaders' = PendingHeaders
<1>1. PendingHeaders' = PendingHeaders \cup
          (IF "import" = "header" THEN {Len(polyTx')} ELSE {})
  BY SubmitPends, Zenon
<1> QED
  BY <1>1

LEMMA ResolvePends ==
    ASSUME TypeInv, NEW x \in DOMAIN polyTx, NEW s, s # "pending",
           Resolve(x, s)
    PROVE  /\ PendingHeaders' = PendingHeaders \ {x}
           /\ ~IsPending(x)'
<1>1. /\ DOMAIN polyTx' = DOMAIN polyTx
      /\ polyTx[x] \in PolyTx
      /\ polyTx'[x] = [polyTx[x] EXCEPT !.status = s]
      /\ \A y \in DOMAIN polyTx : y # x => polyTx'[y] = polyTx[y]
  BY DEF Resolve, TypeInv, TypeOK, ChainsTypeOK
<1>2. polyTx'[x].status = s
  BY <1>1 DEF PolyTx
<1> QED
  BY <1>1, <1>2 DEF PendingHeaders, IsPending

LEMMA NextInConsensus ==
    ASSUME NEW h \in Heights
    PROVE  Neo[h].next \in Consensus /\ Neo[h].next # NoConsensus
BY ChainAssumption DEF Block

(* What the validators Poly knows sign, it accepts.                        *)
LEMMA ReachedVerifies ==
    ASSUME TypeInv, NEW h \in ProofHeights, peer < h, Reaches(h)
    PROVE  Verifies(h)
<1>1. h > 0 /\ h - 1 \in peer..(h - 1)
  BY HeightsInt DEF ProofHeights, Heights
<1> QED
  BY <1>1 DEF Verifies, Signer, Reaches

LEMMA ReachedAcceptable ==
    ASSUME TypeInv, NEW h \in Heights, Reaches(h)
    PROVE  HeaderAcceptable(h)
<1>1. h \in ProofHeights /\ h \in Int /\ peer \in Int
  BY HeightsInt DEF ProofHeights, Heights
<1> QED
  BY <1>1, ReachedVerifies DEF HeaderAcceptable

(* A step that neither sends a header nor executes one, nor moves on.      *)
LEMMA PeerQuiet ==
    ASSUME TypeInv, PeerInv, [Next]_vars, PendingHeaders' = PendingHeaders,
           UNCHANGED <<peer, headers, relaySyncHeight>>,
           ConsensusInv',
           PendingHeaders # {} => UNCHANGED <<spc, txHash>>,
           spc' = "wait" => UNCHANGED <<spc, txHash, i>>
    PROVE  ReachInv' /\ HeaderInv'
<1>1. ReachInv'
  BY DEF PeerInv, ReachInv, Reaches
<1>2. \A x \in PendingHeaders :
          /\ spc = "start" \/ (spc = "wait" /\ x = txHash)
          /\ relaySyncHeight <= polyTx[x].height
          /\ Reaches(polyTx[x].height)
          /\ x \in DOMAIN polyTx
          /\ polyTx'[x].height = polyTx[x].height
          /\ UNCHANGED <<spc, txHash>>
  BY PolyGrows DEF PeerInv, HeaderInv, PendingHeaders, SameTx
<1>3. ASSUME NEW x \in PendingHeaders'
      PROVE  /\ spc' = "start" \/ (spc' = "wait" /\ x = txHash')
             /\ relaySyncHeight' <= polyTx'[x].height
             /\ Reaches(polyTx[x].height)'
  BY <1>2, <1>3 DEF Reaches
<1>4. ASSUME spc' = "wait"
      PROVE  /\ txHash' \in DOMAIN polyTx'
             /\ polyTx'[txHash'].kind = "header"
             /\ polyTx'[txHash'].height = i'
             /\ IsPending(txHash)' \/ i' \in headers'
  <2>1. /\ txHash \in DOMAIN polyTx /\ polyTx[txHash].kind = "header"
        /\ polyTx[txHash].height = i
        /\ txHash \in PendingHeaders \/ i \in headers
    BY <1>4 DEF PeerInv, HeaderInv, PendingHeaders
  <2>2. txHash \in DOMAIN polyTx' /\ SameTx(polyTx'[txHash], polyTx[txHash])
    BY <2>1, PolyGrows
  <2>3. IsPending(txHash)' \/ i \in headers
    BY <2>1 DEF PendingHeaders
  <2> QED
    BY <1>4, <2>1, <2>2, <2>3 DEF SameTx, IsPending
<1> QED
  BY <1>1, <1>3, <1>4 DEF HeaderInv, PeerInv

(* The cursor moves past a block whose header Poly has, or needs not.      *)
LEMMA PeerAdvance ==
    ASSUME TypeInv, StepInv, PeerInv, Advance, InBlock, PendingHeaders = {},
           Reaches(i + 1), UNCHANGED polyVars
    PROVE  PeerInv'
<1>1. i = relaySyncHeight /\ i \in Nat
  BY HeightsInt DEF StepInv, Heights
<1>2. PendingHeaders' = {} /\ spc' = "block"
  BY DEF Advance, PendingHeaders, IsPending, polyVars
<1>3. ReachInv'
  BY <1>1, StartAssumption
     DEF Advance, PeerInv, ReachInv, Reaches, polyVars, Heights
<1>4. ConsensusInv'
  BY <1>1 DEF Advance, ConsensusInv
<1> QED
  BY <1>2, <1>3, <1>4 DEF PeerInv, HeaderInv, ImportsVerify

LEMMA PeerScanner ==
    ASSUME TypeInv, StepInv, PeerInv, HeadersArrive, [Next]_vars, Scanner
    PROVE  PeerInv'
<1>1. spc \notin {"start", "wait"} => PendingHeaders = {}
  BY DEF PeerInv, HeaderInv
<1>2. ASSUME PendingHeaders' = PendingHeaders,
             UNCHANGED <<peer, headers, relaySyncHeight, neoNextConsensus>>,
             spc \notin {"start", "wait"}, spc' # "wait",
             ImportsVerify'
      PROVE  PeerInv'
  <2>1. ConsensusInv'
    BY <1>2 DEF PeerInv, ConsensusInv
  <2> QED
    BY <1>1, <1>2, <2>1, PeerQuiet DEF PeerInv
<1>3. ASSUME UNCHANGED polyTx
      PROVE  PendingHeaders' = PendingHeaders
  BY <1>3 DEF PendingHeaders, IsPending
<1>4. CASE LoadConsensus
  <2>1. PendingHeaders = {}
    BY <1>4 DEF LoadConsensus, HeadersArrive, PendingHeaders
  <2>2. ConsensusInv'
    BY <1>4, HeightsInt, ChainAssumption
       DEF LoadConsensus, PeerInv, ConsensusInv, Heights
  <2>3. /\ PendingHeaders' = PendingHeaders
        /\ UNCHANGED <<peer, headers, relaySyncHeight>> /\ spc' = "count"
    BY <1>3, <1>4 DEF LoadConsensus, polyVars
  <2> QED
    BY <2>1, <2>2, <2>3, PeerQuiet DEF PeerInv, ImportsVerify
<1>5. ASSUME NEW p \in todo, TakeTransfer(p)
      PROVE  PeerInv'
  <2>1. i = relaySyncHeight /\ i \in ProofHeights /\ peer \in Nat /\ i \in Nat
    BY <1>5, HeightsInt
       DEF TakeTransfer, AtWork, StepInv, InBlock, Heights, ProofHeights
  <2>2. CASE i >= peer + 1
    <3>1. Verifies(i)
      BY <2>1, <2>2, ReachedVerifies DEF PeerInv, ReachInv
    <3> QED
      BY <1>2, <1>3, <1>5, <2>2, <3>1
         DEF TakeTransfer, AtWork, ProofHeight, ImportsVerify, Verifies,
             polyVars
  <2>3. CASE ~(i >= peer + 1)
    <3>1. Verifies(peer + 1)
      BY <2>1 DEF Verifies, Signer
    <3> QED
      BY <1>2, <1>3, <1>5, <2>3, <3>1
         DEF TakeTransfer, AtWork, ProofHeight, ImportsVerify, Verifies,
             polyVars
  <2> QED
    BY <2>2, <2>3
<1>6. CASE SendProof
  <2>1. PendingHeaders' = PendingHeaders
    BY <1>6, ImportPends DEF SendProof
  <2> QED
    BY <1>2, <1>6, <2>1 DEF SendProof, Proving, Submit, ImportsVerify
<1>7. CASE FinishBlock
  <2>1. i = relaySyncHeight /\ i \in Nat /\ peer \in Nat /\ InBlock
    BY <1>7, HeightsInt DEF FinishBlock, BlockDone, StepInv, InBlock, Heights
  <2>2. Reaches(i + 1)
    <3>1. CASE i \in headers
      BY <3>1 DEF PeerInv, ReachInv
    <3>2. CASE ~IsKeyBlock
      <4>1. i > 0 /\ Neo[i].next = Neo[i - 1].next
        BY <2>1, <3>2, HeightsInt, NextInConsensus
           DEF IsKeyBlock, PeerInv, ConsensusInv
      <4> QED
        BY <2>1, <4>1 DEF PeerInv, ReachInv, Reaches
    <3> QED
      BY <1>7, <3>1, <3>2 DEF FinishBlock
  <2> QED
    BY <1>1, <1>7, <2>1, <2>2, PeerAdvance DEF FinishBlock, BlockDone
<1>8. CASE RelayBlockGenerated
  <2>1. ~IsPending(txHash) /\ Advance /\ UNCHANGED polyVars /\ spc = "wait"
    BY <1>8 DEF RelayBlockGenerated, HeadersArrive, Fault, Fails
  <2>2. PendingHeaders = {} /\ i \in headers
    BY <2>1 DEF PeerInv, HeaderInv, PendingHeaders
  <2>3. Reaches(i + 1)
    BY <2>2 DEF PeerInv, ReachInv
  <2> QED
    BY <2>1, <2>2, <2>3, PeerAdvance DEF InBlock
<1>9. CASE SendHeader
  <2>1. i = relaySyncHeight /\ i \in Int
    BY <1>9, HeightsInt DEF SendHeader, BlockDone, StepInv, InBlock, Heights
  <2>2. PendingHeaders' = {txHash'} /\ txHash' = Len(polyTx')
    BY <1>1, <1>9, SubmitPends DEF SendHeader, BlockDone
  <2>3. /\ Len(polyTx') \in DOMAIN polyTx'
        /\ polyTx'[txHash'] = [kind |-> "header", height |-> i,
                              key |-> NoKey, status |-> "pending"]
    BY <1>9, <2>2, SubmitGrows DEF SendHeader
  <2>4. /\ UNCHANGED <<peer, headers, relaySyncHeight, neoNextConsensus, i>>
        /\ spc' = "wait"
    BY <1>9 DEF SendHeader, Submit
  <2>5. ReachInv' /\ ConsensusInv' /\ ImportsVerify'
    BY <2>4 DEF PeerInv, ReachInv, ConsensusInv, ImportsVerify, Reaches
  <2>6. HeaderInv'
    BY <2>1, <2>2, <2>3, <2>4 DEF PeerInv, ReachInv, HeaderInv, Reaches,
       IsPending
  <2> QED
    BY <2>5, <2>6 DEF PeerInv
<1>10. ~HeaderRefused
  <2>1. SUFFICES ASSUME HeaderRefused PROVE FALSE
    OBVIOUS
  <2>2. i = relaySyncHeight
    BY <2>1 DEF HeaderRefused, BlockDone, StepInv, InBlock
  <2>3. HeaderAcceptable(i)
    BY <2>2, HeightsInt, ReachedAcceptable DEF PeerInv, ReachInv
  <2> QED
    BY <2>1, <2>3 DEF HeaderRefused, HeadersArrive, Fault, Fails
<1>11. CASE GetBlockEmpty
  BY <1>11 DEF GetBlockEmpty, HeadersArrive, Fault, Fails
<1>12. CASE \/ GetBlockCount \/ EndScan \/ GetBlock \/ GetBlockFails
            \/ \E p \in todo : \/ ReadLog(p) \/ ReadLogFails(p)
                               \/ StopAtMalformed(p) \/ GetPeerFails(p)
            \/ ProofRefused \/ GetProofFails \/ GetStateRootFails \/ NoUtxo
            \/ StoreRetry \/ StoreCheck
  BY <1>2, <1>3, <1>12
     DEF GetBlockCount, EndScan, LeaveScan, GetBlock, GetBlockFails, ReadLog,
         AtWork, ReadLogFails, StopAtMalformed, GetPeerFails, ProofRefused,
         GetProofFails, GetStateRootFails, NoUtxo, Proving, StoreRetry,
         StoreCheck, Return, ImportsVerify, polyVars
<1> QED
  BY <1>4, <1>5, <1>6, <1>7, <1>8, <1>9, <1>10, <1>11, <1>12
     DEF Scanner, ScannerStep, Visit, SyncProof, EndBlock

LEMMA PeerStored ==
    ASSUME TypeInv, PeerInv, [Next]_vars, UNCHANGED Relayer,
           NEW x \in DOMAIN polyTx, PolyStoresHeader(x)
    PROVE  PeerInv'
<1> DEFINE h == polyTx[x].height
<1>1. polyTx[x] \in PolyTx /\ h \in Heights /\ h \in Nat /\ peer \in Nat
  BY HeightsInt DEF PolyStoresHeader, PolyTx, TypeInv, TypeOK, ChainsTypeOK,
     Heights
<1>2. /\ x \in PendingHeaders
      /\ Resolve(x, "ok") /\ headers' = headers \cup {h}
      /\ peer' = IF h > peer /\ Neo[h].next # Neo[peer].next THEN h ELSE peer
      /\ UNCHANGED <<spc, relaySyncHeight, neoNextConsensus, i, txHash,
                     passed>>
  BY DEF PolyStoresHeader, IsNext, PendingHeaders, Relayer, scanVars
<1>3. /\ PendingHeaders = {x} /\ relaySyncHeight <= h /\ Reaches(h)
      /\ spc = "start" \/ (spc = "wait" /\ x = txHash)
  BY <1>2 DEF PeerInv, HeaderInv
<1>4. PendingHeaders' = {}
  BY <1>2, <1>3, ResolvePends
<1>5. relaySyncHeight \in Nat /\ headers \subseteq Nat
  BY HeightsInt DEF Heights, TypeInv, TypeOK, ChainsTypeOK
<1> HIDE DEF h
<1>6. ReachInv'
  <2>1. CASE h > peer /\ Neo[h].next # Neo[peer].next
    <3>1. peer' = h
      BY <1>2, <2>1
    <3>2. \A g \in headers : ~(h <= g)
      BY <1>1, <1>5, <2>1 DEF PeerInv, ReachInv, Reaches
    <3> QED
      BY <1>1, <1>2, <1>3, <1>5, <2>1, <3>1, <3>2, GenesisAssumption
         DEF PeerInv, ReachInv, Reaches, Heights
  <2>2. CASE ~(h > peer /\ Neo[h].next # Neo[peer].next)
    <3>1. peer' = peer
      BY <1>2, <2>2
    <3>2. Reaches(h + 1)
      BY <1>1, <1>3, <2>2 DEF Reaches
    <3> QED
      BY <1>2, <3>1, <3>2 DEF PeerInv, ReachInv, Reaches
  <2> QED
    BY <2>1, <2>2
<1>7. HeaderInv'
  <2>1. ASSUME spc = "wait"
        PROVE  /\ txHash' \in DOMAIN polyTx'
               /\ polyTx'[txHash'].kind = "header"
               /\ polyTx'[txHash'].height = i' /\ i' \in headers'
    <3>1. x = txHash /\ polyTx[x].kind = "header" /\ h = i
      BY <1>3, <2>1 DEF PeerInv, HeaderInv, h
    <3>2. x \in DOMAIN polyTx' /\ SameTx(polyTx'[x], polyTx[x])
      BY PolyGrows
    <3> QED
      BY <1>2, <3>1, <3>2 DEF SameTx, h
  <2> QED
    BY <1>2, <1>4, <2>1 DEF HeaderInv
<1> QED
  BY <1>2, <1>3, <1>6, <1>7 DEF PeerInv, ConsensusInv, ImportsVerify

LEMMA PeerChains ==
    ASSUME TypeInv, PeerInv, HeadersArrive, [Next]_vars,
           Poly \/ PolyTrouble \/ NeoBlock
    PROVE  PeerInv'
<1>1. ASSUME PendingHeaders' = PendingHeaders, UNCHANGED <<peer, headers>>,
             UNCHANGED scanVars
      PROVE  PeerInv'
  <2>1. ConsensusInv' /\ ImportsVerify'
    BY <1>1
       DEF PeerInv, ConsensusInv, ImportsVerify, Verifies, scanVars
  <2> QED
    BY <1>1, <2>1, PeerQuiet DEF PeerInv, scanVars
<1>2. ASSUME NEW x \in DOMAIN polyTx, polyTx[x].kind = "import", NEW s,
             s # "pending", Resolve(x, s)
      PROVE  PendingHeaders' = PendingHeaders
  BY <1>2, ResolvePends DEF PendingHeaders
<1>3. ASSUME NEW x \in DOMAIN polyTx, PolyStep(x), UNCHANGED Relayer
      PROVE  PeerInv'
  <2>1. CASE PolyImports(x)
    BY <1>1, <1>2, <1>3, <2>1 DEF PolyImports, Relayer
  <2>2. CASE PolyRejects(x)
    <3>1. polyTx[x] \in PolyTx
      BY DEF TypeInv, TypeOK, ChainsTypeOK
    <3>2. polyTx[x].kind = "import"
      <4>1. SUFFICES ASSUME polyTx[x].kind = "header" PROVE FALSE
        BY <3>1 DEF PolyTx
      <4>2. polyTx[x].height \in Heights
        BY <3>1, <4>1 DEF PolyTx
      <4>3. x \in PendingHeaders
        BY <2>2, <4>1 DEF PolyRejects, IsNext, PendingHeaders
      <4>4. HeaderAcceptable(polyTx[x].height)
        BY <4>2, <4>3, ReachedAcceptable DEF PeerInv, HeaderInv
      <4> QED
        BY <2>2, <4>1, <4>4 DEF PolyRejects
    <3> QED
      BY <1>1, <1>2, <1>3, <2>2, <3>2 DEF PolyRejects, Relayer
  <2> QED
    BY <1>3, <2>1, <2>2, PeerStored DEF PolyStep
<1>4. ASSUME NEW x \in DOMAIN polyTx, PolyFault(x)
      PROVE  FALSE
  BY <1>4 DEF PolyFault, PolyFails, PolyEvicts, HeadersArrive, Fault, Fails
<1>5. ASSUME UNCHANGED <<polyTx, peer, headers, Relayer>>
      PROVE  PeerInv'
  BY <1>1, <1>5 DEF PendingHeaders, IsPending, Relayer
<1> QED
  BY <1>3, <1>4, <1>5
     DEF Poly, PolyTrouble, OtherImports, NeoBlock, NeoGrow, polyVars

LEMMA PeerRetrier ==
    ASSUME TypeInv, PeerInv, [Next]_vars, Retrier
    PROVE  PeerInv'
<1>1. PendingHeaders' = PendingHeaders /\ UNCHANGED <<peer, headers>>
  <2>1. ASSUME NEW r \in retries, Resend(r)
        PROVE  PendingHeaders' = PendingHeaders /\ UNCHANGED <<peer, headers>>
    <3>1. Submit("import", r.height, r.key)
      BY <2>1 DEF Resend
    <3>2. PendingHeaders' = PendingHeaders
      BY <3>1, ImportPends, Zenon
    <3> QED
      BY <3>1, <3>2 DEF Submit
  <2>2. ASSUME UNCHANGED polyVars
        PROVE  PendingHeaders' = PendingHeaders /\ UNCHANGED <<peer, headers>>
    BY <2>2 DEF PendingHeaders, IsPending, polyVars
  <2> QED
    BY <2>1, <2>2
       DEF Retrier, RetrierStep, CheckDoneTx, RetryTx, GetAllCheck,
           EventMissing, EventFound, GetEventFails, StoreFailed, DropCheck,
           GetAllRetry, RetryLater, ResendRefused, StoreResent, RemoveRetry,
           EndRetry
<1>2. UNCHANGED scanVars
  BY DEF Retrier
<1>3. ConsensusInv' /\ ImportsVerify'
  BY <1>1, <1>2 DEF PeerInv, ConsensusInv, ImportsVerify, Verifies, scanVars
<1> QED
  BY <1>1, <1>2, <1>3, PeerQuiet DEF PeerInv, scanVars

LEMMA StartReached ==
    ASSUME TypeInv, GenesisPeer <= peer
    PROVE  Reaches(NeoStartHeight)
BY HeightsInt, GenesisAssumption, StartAssumption DEF Reaches, Heights

LEMMA PeerCrash ==
    ASSUME TypeInv, PeerInv, [Next]_vars, Crash
    PROVE  PeerInv'
<1>1. /\ UNCHANGED <<polyTx, peer, headers>>
      /\ spc' = "start" /\ relaySyncHeight' = NeoStartHeight
      /\ neoNextConsensus' = NoConsensus
  BY DEF Crash, ScannerReset, polyVars
<1>2. ReachInv'
  BY <1>1, StartReached, StartAssumption
     DEF PeerInv, ReachInv, Reaches, Heights
<1>3. ASSUME NEW x \in PendingHeaders'
      PROVE  /\ x \in PendingHeaders /\ polyTx'[x] = polyTx[x]
             /\ NeoStartHeight <= polyTx[x].height
             /\ Reaches(polyTx[x].height)'
  <2>1. x \in PendingHeaders /\ polyTx'[x] = polyTx[x] /\ x \in DOMAIN polyTx
    BY <1>1, <1>3 DEF PendingHeaders, IsPending
  <2>2. polyTx[x].height \in Int
    <3>1. polyTx[x] \in PolyTx
      BY <2>1 DEF TypeInv, TypeOK, ChainsTypeOK
    <3> QED
      BY <2>1, <3>1 DEF PolyTx, PendingHeaders, Heights
  <2>3. relaySyncHeight <= polyTx[x].height /\ Reaches(polyTx[x].height)
    BY <2>1 DEF PeerInv, HeaderInv
  <2> QED
    BY <1>1, <2>1, <2>2, <2>3, HeightsInt, StartAssumption
       DEF PeerInv, ReachInv, Reaches, Heights
<1>4. HeaderInv'
  BY <1>1, <1>3 DEF PeerInv, HeaderInv
<1>5. ConsensusInv' /\ ImportsVerify'
  BY <1>1, ChainAssumption DEF ConsensusInv, ImportsVerify
<1> QED
  BY <1>2, <1>4, <1>5 DEF PeerInv

LEMMA PeerInit ==
    ASSUME Init
    PROVE  PeerInv
<1>1. TypeInv
  BY TypeInit
<1>2. /\ peer = GenesisPeer /\ headers = {GenesisPeer}
      /\ polyTx = <<>> /\ spc = "start"
      /\ relaySyncHeight = NeoStartHeight /\ neoNextConsensus = NoConsensus
  BY DEF Init, ChainsInit, ScannerInit
<1>3. PendingHeaders = {}
  BY <1>2 DEF PendingHeaders
<1>4. ReachInv
  BY <1>1, <1>2, StartReached, GenesisAssumption, StartAssumption
     DEF ReachInv, Reaches, Heights
<1> QED
  BY <1>2, <1>3, <1>4, ChainAssumption
     DEF PeerInv, HeaderInv, ConsensusInv, ImportsVerify

LEMMA PeerStep ==
    ASSUME TypeInv, StepInv, PeerInv, HeadersArrive, [Next]_vars
    PROVE  PeerInv'
<1>1. CASE UNCHANGED vars
  BY <1>1
     DEF vars, chainVars, polyVars, scanVars, PeerInv, ReachInv, HeaderInv,
         ConsensusInv, ImportsVerify, Reaches, PendingHeaders, IsPending,
         Verifies
<1> QED
  BY <1>1, PeerScanner, PeerChains, PeerRetrier, PeerCrash DEF Next

LEMMA PeerAlways ==
    ASSUME HeadersArrive
    PROVE  Spec => [](TypeInv /\ PeerInv)
<1>1. Init => TypeInv /\ StepInv /\ PeerInv
  BY TypeInit, PeerInit DEF Init, ScannerInit, StepInv, InBlock
<1>2. TypeInv /\ StepInv /\ PeerInv /\ [Next]_vars
        => TypeInv' /\ StepInv' /\ PeerInv'
  BY TypeStep, StepStep, PeerStep DEF HeadersArrive
<1> QED
  BY <1>1, <1>2, PTL DEF Spec

(* However often the validators change, Poly knows every block behind the  *)
(* cursor that changed them: through crashes, after which the scan starts  *)
(* over with an empty neoNextConsensus, calls that fail in the middle of a *)
(* block, and a header that a crashed process left behind.                 *)
THEOREM KeyHeadersReach ==
    ASSUME HeadersArrive
    PROVE  Spec => []KeyHeadersSynced
<1>1. TypeInv /\ PeerInv => KeyHeadersSynced
  <2> SUFFICES ASSUME TypeInv, PeerInv,
                      NEW h \in NeoStartHeight..(relaySyncHeight - 1),
                      ChangesConsensus(h), ~(peer >= h)
               PROVE  FALSE
    BY DEF KeyHeadersSynced
  <2>1. /\ h - 1 \in peer..(relaySyncHeight - 1)
        /\ h \in peer..(relaySyncHeight - 1)
    BY HeightsInt, StartAssumption DEF Heights
  <2> QED
    BY <2>1 DEF PeerInv, ReachInv, Reaches, ChangesConsensus
<1> QED
  BY <1>1, PeerAlways, PTL

(* However often the validators change, Poly can verify the state root of  *)
(* every proof that is about to be sent: at the height of the block, or at *)
(* the one after the peer when the scan is behind it.                      *)
THEOREM ImportsReach ==
    ASSUME HeadersArrive
    PROVE  Spec => []ImportsVerify
<1>1. PeerInv => ImportsVerify
  BY DEF PeerInv
<1> QED
  BY <1>1, PeerAlways, PTL
=============================================================================
