------------------------ MODULE PolyToNeoKeptProofs -------------------------
(***************************************************************************)
(* That the direction Poly -> Neo forgets no transfer and keeps the        *)
(* promise of the abstract ledger as long as Neo can verify the proofs in  *)
(* its pool, proved for every chain, purse and bound and for all the       *)
(* failures; that Neo can while Poly's peers do not change; and that it    *)
(* knows the keepers, and can, across any number of changes of the peers.  *)
(***************************************************************************)
EXTENDS PolyToNeoProofs

(* Neo can verify the proofs in its pool, and the header the scanner is to *)
(* prove a transfer with exists.                                           *)
Provable ==
    /\ ProofsVerify
    /\ spc = "work" => SignedHeader(neoSyncHeight, LastSynced) <= polyHeight

(* The transfer needs no record any more.                                  *)
Answered(k) == k \in Closed \/ InFlight(k)

(* A goroutine that marks utxos has sent the transfer at hand, and the     *)
(* retrier deletes a record only after it has sent or dropped it.          *)
HandInv ==
    /\ step["scanner"] = "mark" => spc = "pay" /\ Answered(key)
    /\ step["retrier"] = "mark" => rpc = "pay" /\ Answered(cur.key)
    /\ rpc \in {"drop", "delete"} => Answered(cur.key)

InBlock == spc \notin {"count", "block"}

AtHand == spc \in {"pay", "putRetry"}

(* In a block, what has been visited is kept or at hand.                   *)
BlockInv ==
    InBlock =>
        \A p \in TransfersOf[neoSyncHeight] :
            \/ p \in todo
            \/ Kept(KeyAt(neoSyncHeight, p))
            \/ AtHand /\ key = KeyAt(neoSyncHeight, p)

KeptInv == HandInv /\ BlockInv /\ NothingForgotten

-----------------------------------------------------------------------------
(* What is answered stays so                                               *)

(* What the goroutines do to Neo: nothing, or they send a transaction.     *)
Quiet ==
    /\ dropped \subseteq dropped'
    /\ \/ nodeVars' = nodeVars
       \/ \E kind, k, s, ins, ch : Submit(kind, k, s, ins, ch)

LEMMA PayQuiet ==
    ASSUME NEW g, MakeTx(g) \/ NotEnough(g) \/ TxRefused(g) \/ MarkOne(g)
                    \/ MarkLast(g) \/ MarkFails(g)
    PROVE  dropped' = dropped
BY DEF MakeTx, GetUnspents, LookUp, ListUtxo, ChooseInputs, NotEnough,
       TxRefused, MarkOne, MarkLast, MarkSpent, MarkFails, NoFault, Fault,
       faultVars

LEMMA SendQuiet ==
    ASSUME NEW g, NEW k, NEW s, SendTx(g, k, s)
    PROVE  Quiet
BY DEF SendTx, Quiet, NoFault, faultVars

LEMMA ScannerQuiet ==
    ASSUME ScannerStep
    PROVE  Quiet
<1>1. CASE Pay \/ Mark \/ MarkEnds
  BY <1>1, PayQuiet DEF Pay, Mark, MarkEnds, Quiet
<1>2. CASE PayFails
  BY <1>2 DEF PayFails, MakeTxFails, Loss, Quiet
<1>3. CASE PutAside
  BY <1>3, PayQuiet DEF PutAside, Fault, Quiet
<1>4. CASE Send
  BY <1>4, SendQuiet DEF Send
<1>5. CASE StoreNeoRetry
  BY <1>5 DEF StoreNeoRetry, NoFault, Loss, faultVars, Quiet
<1>6. CASE \E p \in todo : Visit(p)
  <2>1. nodeVars' = nodeVars
    BY <1>6 DEF Visit, TakeTransfer, SkipForeign, GetProofFails, Pass
  <2>2. dropped \subseteq dropped'
    BY <1>6
       DEF Visit, TakeTransfer, SyncedRead, SkipForeign, GetProofFails, NoFault,
           Fault, Loss, faultVars
  <2> QED
    BY <2>1, <2>2 DEF Quiet
<1>7. CASE GetBlockHeight \/ EndScan \/ GetEvents \/ GetEventsFails
           \/ FinishBlock \/ GetBlockFails \/ FinishKeyBlock \/ Settled
           \/ KeepersRefused \/ KeepersChanged
  BY <1>7
     DEF GetBlockHeight, EndScan, GetEvents, GetEventsFails, LeaveScan,
         FinishBlock, GetBlockFails, FinishKeyBlock, Settled, KeepersRefused,
         KeepersChanged, BlockGenerated, NoFault, Fault, faultVars, Quiet
<1>8. CASE SendKeepers
  BY <1>8 DEF SendKeepers, NoFault, faultVars, Quiet
<1> QED
  BY <1>1, <1>2, <1>3, <1>4, <1>5, <1>6, <1>7, <1>8
     DEF ScannerStep, SyncProof, EndBlock

LEMMA RetrierQuiet ==
    ASSUME RetrierStep
    PROVE  Quiet
<1>1. CASE RetryPay \/ RetryStays \/ RetryMark \/ RetryMarkEnds
  BY <1>1, PayQuiet DEF RetryPay, RetryStays, RetryMark, RetryMarkEnds, Quiet
<1>2. CASE RetryRefused
  BY <1>2 DEF RetryRefused, MakeTxFails, Loss, Quiet
<1>3. CASE Resend
  BY <1>3, SendQuiet DEF Resend
<1>4. CASE \E r \in retries : TakeRecord(r) \/ RetryLater(r)
  BY <1>4
     DEF TakeRecord, RetryLater, SyncedRead, NoFault, Fault, faultVars, Quiet
<1>5. CASE GetAllNeoRetry \/ DropRecord \/ DeleteRecord \/ EndRetry
  BY <1>5
     DEF GetAllNeoRetry, DropRecord, DeleteRecord, EndRetry, NoFault, Fault,
         faultVars, Quiet
<1> QED
  BY <1>1, <1>2, <1>3, <1>4, <1>5 DEF RetrierStep

LEMMA AnsweredQuiet ==
    ASSUME Sent, Quiet, NEW k, Answered(k)
    PROVE  Answered(k)'
<1>1. CASE nodeVars' = nodeVars
  BY <1>1 DEF Quiet, Answered, Closed, InFlight, IsPending, nodeVars
<1>2. ASSUME NEW kind, NEW j, NEW s, NEW ins, NEW ch,
             Submit(kind, j, s, ins, ch)
      PROVE  Answered(k)'
  <2>1. PICK K, S, I, C : neoTx \in Seq(TxOf(K, S, I, C))
    BY DEF Sent
  <2> DEFINE tx == [kind |-> kind, key |-> j, signed |-> s, inputs |-> ins,
                    change |-> ch, status |-> "pending"]
  <2>2. neoTx' = Append(neoTx, tx) /\ neoDone' = neoDone
    BY <1>2 DEF Submit
  <2> HIDE DEF tx
  <2>3. \A x \in DOMAIN neoTx : x \in DOMAIN neoTx' /\ neoTx'[x] = neoTx[x]
    BY <2>1, <2>2
  <2> QED
    BY <2>2, <2>3 DEF Quiet, Answered, Closed, InFlight, IsPending
<1> QED
  BY <1>1, <1>2 DEF Quiet

(* A change of keepers carries no transfer.                                *)
LEMMA KeepersKeyless ==
    ASSUME TypeInv, NEW x \in DOMAIN neoTx
    PROVE  /\ neoTx[x].kind \in {"proof", "keepers"}
           /\ neoTx[x].kind = "keepers" => neoTx[x].key \notin Keys
<1>1. neoTx[x] \in NeoTx
  BY DEF TypeInv, TypeOK, NodeTypeOK
<1> QED
  BY <1>1, NodeAssumption DEF NeoTx

(* A transaction that leaves the pool is executed, or its transfer was     *)
(* executed before, or the pool dropped it.                                *)
LEMMA AnsweredChains ==
    ASSUME Provable, TypeInv, Sent, Neo \/ NeoTrouble \/ PolyBlock,
           NEW k \in Keys, Answered(k)
    PROVE  Answered(k)'
<1> DEFINE Left(x, s) ==
        /\ x \in DOMAIN neoTx
        /\ neoTx' = [neoTx EXCEPT ![x].status = s]
        /\ neoTx[x].key = k => k \in Closed'
        /\ Closed \subseteq Closed'
<1>1. ASSUME NEW x, NEW s, Left(x, s)
      PROVE  Answered(k)'
  <2>1. PICK K, S, I, C : neoTx \in Seq(TxOf(K, S, I, C))
    BY DEF Sent
  <2>2. DOMAIN neoTx' = DOMAIN neoTx
    BY <1>1, <2>1
  <2>3. \A y \in DOMAIN neoTx : y # x => neoTx'[y] = neoTx[y]
    BY <1>1, <2>1
  <2> QED
    BY <1>1, <2>2, <2>3 DEF Answered, InFlight, IsPending
<1>2. CASE Neo
  <2>1. PICK x \in DOMAIN neoTx : NeoExecutes(x)
    BY <1>2 DEF Neo
  <2>2. /\ neoTx[x].kind = "proof" => neoTx[x].key \in neoDone'
        /\ neoDone \subseteq neoDone'
    BY <2>1 DEF NeoExecutes, Executable, Provable, ProofsVerify
  <2>3. dropped' = dropped
    BY <2>1 DEF NeoExecutes, NoFault, faultVars
  <2>4. \E s : Left(x, s)
    BY <2>1, <2>2, <2>3, KeepersKeyless DEF NeoExecutes, Closed
  <2> QED
    BY <1>1, <2>4
<1>3. CASE NeoTrouble
  <2>1. ASSUME NEW x \in DOMAIN neoTx, NeoEvicts(x)
        PROVE  Left(x, "gone")
    BY <2>1, KeepersKeyless DEF NeoEvicts, Loss, Fault, Closed
  <2>2. ASSUME NEW j \in Keys, OtherExecutes(j)
        PROVE  Answered(k)'
    BY <2>2
       DEF OtherExecutes, Fault, Answered, Closed, InFlight, IsPending
  <2> QED
    BY <1>1, <1>3, <2>1, <2>2 DEF NeoTrouble
<1>4. CASE PolyBlock
  BY <1>4
     DEF PolyBlock, PolyGrow, faultVars, Answered, Closed, InFlight, IsPending
<1> QED
  BY <1>2, <1>3, <1>4

LEMMA AnsweredStays ==
    ASSUME Provable, TypeInv, Sent, [Next]_vars, NEW k \in Keys, Answered(k)
    PROVE  Answered(k)'
<1>1. CASE Scanner \/ Retrier
  BY <1>1, ScannerQuiet, RetrierQuiet, AnsweredQuiet DEF Scanner, Retrier
<1>2. CASE Neo \/ NeoTrouble \/ PolyBlock
  BY <1>2, AnsweredChains
<1>3. CASE Crash \/ UNCHANGED vars
  <2>1. Quiet
    BY <1>3 DEF Crash, Fault, Quiet, vars, faultVars
  <2> QED
    BY <2>1, AnsweredQuiet
<1> QED
  BY <1>1, <1>2, <1>3 DEF Next

-----------------------------------------------------------------------------
(* The transfers at hand                                                   *)

LEMMA SentAnswered ==
    ASSUME Sent, NEW k, NEW s, NEW ins, NEW ch, Submit("proof", k, s, ins, ch)
    PROVE  Answered(k)'
<1>1. PICK K, S, I, C : neoTx \in Seq(TxOf(K, S, I, C))
  BY DEF Sent
<1> DEFINE tx == [kind |-> "proof", key |-> k, signed |-> s, inputs |-> ins,
                  change |-> ch, status |-> "pending"]
<1>2. neoTx' = Append(neoTx, tx) /\ tx.status = "pending" /\ tx.key = k
  BY DEF Submit
<1> HIDE DEF tx
<1>3. /\ Len(neoTx) + 1 \in DOMAIN neoTx'
      /\ neoTx'[Len(neoTx) + 1] = tx
  BY <1>1, <1>2
<1> QED
  BY <1>2, <1>3 DEF Answered, InFlight, IsPending

(* What a goroutine of paying leaves of the marks.                         *)
LEMMA AtMark ==
    ASSUME PayersKnown, NEW g \in Payer, NEW s, NEW coins, NEW seen,
           At(g, s, coins, seen)
    PROVE  /\ step'[g] = s
           /\ \A h \in Payer : h # g => step'[h] = step[h]
BY DEF PayersKnown, At

LEMMA PayMark ==
    ASSUME PayersKnown, NEW g \in Payer,
           MakeTx(g) \/ StopPaying(g)
    PROVE  /\ step'[g] # "mark"
           /\ \A h \in Payer : h # g => step'[h] = step[h]
<1>1. \E s, coins, seen : s # "mark" /\ At(g, s, coins, seen)
  <2>1. CASE GetUnspents(g) \/ ChooseInputs(g) \/ StopPaying(g)
    BY <2>1 DEF GetUnspents, ChooseInputs, StopPaying
  <2>2. CASE LookUp(g)
    BY <2>2 DEF LookUp
  <2>3. CASE ListUtxo(g)
    BY <2>3 DEF ListUtxo
  <2> QED
    BY <2>1, <2>2, <2>3 DEF MakeTx
<1> QED
  BY <1>1, AtMark

(* A transfer at hand stays there, and stays answered.                     *)
LEMMA HandStays ==
    ASSUME Provable, TypeInv, Sent, [Next]_vars
    PROVE  /\ key' = key /\ AtHand /\ Answered(key) => Answered(key)'
           /\ cur' = cur /\ rpc \in {"pay", "drop", "delete"}
                /\ Answered(cur.key) => Answered(cur.key)'
<1> USE DEF AtHand, TypeInv, TypeOK, ScannerTypeOK, RetrierTypeOK, Record
<1>1. ASSUME NEW k \in Keys, k = key, key' = key, Answered(key)
      PROVE  Answered(key)'
  <2>1. Answered(k)'
    BY <1>1, AnsweredStays
  <2> QED
    BY <1>1, <2>1 DEF Answered, InFlight
<1>2. ASSUME NEW k \in Keys, k = cur.key, cur' = cur, Answered(cur.key)
      PROVE  Answered(cur.key)'
  <2>1. Answered(k)'
    BY <1>2, AnsweredStays
  <2> QED
    BY <1>2, <2>1 DEF Answered, InFlight
<1> QED
  BY <1>1, <1>2

LEMMA HandScanner ==
    ASSUME Provable, TypeInv, HandInv, Sent, PayersKnown, Scanner
    PROVE  HandInv'
<1>1. UNCHANGED <<rpc, cur>>
  BY DEF Scanner, retrierVars
<1>2. /\ key' = key /\ spc = "pay" /\ Answered(key) => Answered(key)'
      /\ rpc \in {"pay", "drop", "delete"} /\ Answered(cur.key) =>
             Answered(cur.key)'
  BY <1>1, HandStays DEF Next, AtHand
<1>3. ASSUME step'["retrier"] = step["retrier"],
             step'["scanner"] = "mark" => spc' = "pay" /\ Answered(key)'
      PROVE  HandInv'
  BY <1>1, <1>2, <1>3 DEF HandInv
<1>4. "scanner" \in Payer /\ "retrier" \in Payer
  BY DEF Payer
<1>5. CASE Pay \/ PayFails \/ PutAside \/ MarkEnds
  <2>1. MakeTx("scanner") \/ StopPaying("scanner")
    BY <1>5
       DEF Pay, PayFails, PutAside, MarkEnds, MakeTxFails, NotEnough, TxRefused,
           SendFails, MarkFails
  <2> QED
    BY <1>3, <1>4, <2>1, PayMark
<1>6. CASE Send
  <2>1. Answered(key)'
    <3>1. ASSUME NEW k, k = key PROVE Answered(key)'
      <4>1. PICK ins, ch : Submit("proof", k, signed, ins, ch)
        BY <1>6, <3>1 DEF Send, SendTx
      <4>2. Answered(k)'
        BY <4>1, SentAnswered
      <4> QED
        BY <1>6, <3>1, <4>2 DEF Send, scanVars, Answered, InFlight
    <3> QED
      BY <3>1
  <2>2. step'["retrier"] = step["retrier"] /\ spc' = "pay"
    BY <1>4, <1>6, AtMark DEF Send, SendTx, scanVars
  <2> QED
    BY <1>3, <2>1, <2>2
<1>7. CASE Mark
  <2>1. CASE MarkOne("scanner") /\ UNCHANGED scanVars
    <3>1. step["scanner"] = "mark" /\ step'["retrier"] = step["retrier"]
      BY <1>4, <2>1, AtMark DEF MarkOne, MarkSpent
    <3> QED
      BY <1>2, <1>3, <2>1, <3>1 DEF HandInv, scanVars
  <2>2. CASE MarkLast("scanner")
    BY <1>3, <1>4, <2>2, PayMark DEF MarkLast
  <2> QED
    BY <1>7, <2>1, <2>2 DEF Mark
<1>8. CASE GetBlockHeight \/ EndScan \/ GetEvents \/ GetEventsFails
           \/ (\E p \in todo : Visit(p)) \/ StoreNeoRetry \/ EndBlock
  <2>1. spc # "pay" /\ step' = step
    BY <1>8
       DEF GetBlockHeight, EndScan, GetEvents, GetEventsFails, LeaveScan, Visit,
           TakeTransfer, SkipForeign, GetProofFails, AtWork, Pass,
           StoreNeoRetry, EndBlock, FinishBlock, GetBlockFails, FinishKeyBlock,
           BlockDone, Settled, SendKeepers, KeepersRefused, KeepersChanged,
           payVars
  <2> QED
    BY <1>3, <2>1 DEF HandInv
<1> QED
  BY <1>5, <1>6, <1>7, <1>8 DEF Scanner, ScannerStep, SyncProof

LEMMA HandRetrier ==
    ASSUME Provable, TypeInv, HandInv, Sent, PayersKnown, Retrier
    PROVE  HandInv'
<1>1. UNCHANGED <<spc, key>>
  BY DEF Retrier, scanVars
<1>2. /\ cur' = cur /\ rpc \in {"pay", "drop", "delete"}
             /\ Answered(cur.key) => Answered(cur.key)'
      /\ spc = "pay" /\ Answered(key) => Answered(key)'
  BY <1>1, HandStays DEF Next, AtHand
<1>3. ASSUME step'["scanner"] = step["scanner"],
             step'["retrier"] = "mark" => rpc' = "pay" /\ Answered(cur.key)',
             rpc' \in {"drop", "delete"} => Answered(cur.key)'
      PROVE  HandInv'
  BY <1>1, <1>2, <1>3 DEF HandInv
<1>4. "scanner" \in Payer /\ "retrier" \in Payer
  BY DEF Payer
<1>5. CASE RetryPay \/ RetryStays \/ RetryMarkEnds
  <2>1. MakeTx("retrier") \/ StopPaying("retrier")
    BY <1>5
       DEF RetryPay, RetryStays, RetryMarkEnds, NotEnough, TxRefused, MarkFails
  <2>2. rpc' \notin {"drop", "delete"}
    BY <1>5
       DEF RetryPay, RetryStays, RetryMarkEnds, Continue, retrierVars
  <2> QED
    BY <1>3, <1>4, <2>1, <2>2, PayMark
<1>6. CASE RetryRefused
  <2>1. StopPaying("retrier") /\ cur' = cur
    BY <1>6 DEF RetryRefused, MakeTxFails, SendFails
  <2>2. Answered(cur.key)'
    BY <1>6, <2>1 DEF RetryRefused, MakeTxFails, Loss, Answered, Closed
  <2> QED
    BY <1>3, <1>4, <2>1, <2>2, PayMark
<1>7. CASE Resend
  <2>1. Answered(cur.key)'
    <3>1. ASSUME NEW k, k = cur.key PROVE Answered(cur.key)'
      <4>1. PICK ins, ch : Submit("proof", k, curSigned, ins, ch)
        BY <1>7, <3>1 DEF Resend, SendTx
      <4>2. Answered(k)'
        BY <4>1, SentAnswered
      <4> QED
        BY <1>7, <3>1, <4>2 DEF Resend, retrierVars, Answered, InFlight
    <3> QED
      BY <3>1
  <2>2. step'["scanner"] = step["scanner"] /\ rpc' = "pay"
    BY <1>4, <1>7, AtMark DEF Resend, SendTx, retrierVars
  <2> QED
    BY <1>3, <2>1, <2>2
<1>8. CASE RetryMark
  <2>1. step["retrier"] = "mark" /\ cur' = cur
    BY <1>8
       DEF RetryMark, MarkOne, MarkLast, MarkSpent, retrierVars
  <2>2. step'["scanner"] = step["scanner"]
    BY <1>4, <1>8, AtMark, PayMark DEF RetryMark, MarkOne, MarkLast
  <2>3. Answered(cur.key)'
    BY <1>2, <2>1 DEF HandInv
  <2>4. step'["retrier"] = "mark" => rpc' = "pay"
    BY <1>4, <1>8, PayMark DEF RetryMark, MarkLast, retrierVars
  <2> QED
    BY <1>3, <2>2, <2>3, <2>4
<1>9. CASE GetAllNeoRetry \/ (\E r \in retries : TakeRecord(r) \/ RetryLater(r))
           \/ DropRecord \/ DeleteRecord \/ EndRetry
  <2>1. rpc # "pay" /\ step' = step /\ rpc' \notin {"drop", "delete"}
    BY <1>9
       DEF GetAllNeoRetry, TakeRecord, RetryLater, DropRecord, DeleteRecord,
           EndRetry, Continue, payVars
  <2> QED
    BY <1>3, <2>1 DEF HandInv
<1> QED
  BY <1>5, <1>6, <1>7, <1>8, <1>9 DEF Retrier, RetrierStep

LEMMA HandStep ==
    ASSUME Provable, TypeInv, HandInv, Sent, PayersKnown, [Next]_vars
    PROVE  HandInv'
<1>1. CASE Neo \/ NeoTrouble \/ PolyBlock \/ UNCHANGED vars
  <2>1. UNCHANGED <<step, spc, key, rpc, cur>>
    BY <1>1
       DEF Neo, NeoTrouble, PolyBlock, Relayer, vars, payVars, scanVars,
           retrierVars
  <2> QED
    BY <2>1, HandStays DEF HandInv, AtHand
<1>2. CASE Crash
  BY <1>2 DEF Crash, RetrierReset, Payer, HandInv
<1> QED
  BY <1>1, <1>2, HandScanner, HandRetrier DEF Next

-----------------------------------------------------------------------------
(* The transfers of the blocks                                             *)

(* A record is deleted only when its transfer is answered.                 *)
RecordsStay ==
    \A r \in neoRetry : r \in neoRetry' \/ Answered(r.key)

LEMMA RecordsStep ==
    ASSUME HandInv, [Next]_vars
    PROVE  RecordsStay
<1>1. CASE Scanner
  <2>1. neoRetry \subseteq neoRetry'
    BY <1>1
       DEF Scanner, ScannerStep, Visit, SyncProof, EndBlock, GetBlockHeight,
           EndScan, GetEvents, GetEventsFails, LeaveScan, TakeTransfer,
           SkipForeign, GetProofFails, Pass, Pay, MakeTx, GetUnspents, LookUp,
           ListUtxo, ChooseInputs, PayFails, PutAside, StoreNeoRetry,
           PutNeoRetry, Send, Mark, MarkEnds, FinishBlock, GetBlockFails,
           FinishKeyBlock, Settled, SendKeepers, KeepersRefused,
           KeepersChanged, neoStoreVars
  <2> QED
    BY <2>1 DEF RecordsStay
<1>2. CASE Retrier
  <2>1. CASE DropRecord \/ DeleteRecord
    BY <2>1
       DEF DropRecord, DeleteRecord, DeleteNeoRetry, HandInv, RecordsStay
  <2>2. CASE ~(DropRecord \/ DeleteRecord)
    <3>1. neoRetry' = neoRetry
      BY <1>2, <2>2
         DEF Retrier, RetrierStep, GetAllNeoRetry, TakeRecord, RetryLater,
             RetryPay, MakeTx, GetUnspents, LookUp, ListUtxo, ChooseInputs,
             RetryStays, RetryRefused, Resend, RetryMark, RetryMarkEnds,
             EndRetry, neoStoreVars
    <3> QED
      BY <3>1 DEF RecordsStay
  <2> QED
    BY <2>1, <2>2
<1>3. CASE Neo \/ NeoTrouble \/ PolyBlock \/ Crash \/ UNCHANGED vars
  BY <1>3
     DEF Neo, NeoTrouble, PolyBlock, Relayer, Crash, vars, neoStoreVars,
         RecordsStay
<1> QED
  BY <1>1, <1>2, <1>3 DEF Next

LEMMA KeptStays ==
    ASSUME Provable, TypeInv, HandInv, Sent, [Next]_vars,
           NEW k \in Keys, Kept(k)
    PROVE  Kept(k)'
<1>1. CASE Answered(k)
  BY <1>1, AnsweredStays DEF Answered, Kept
<1>2. CASE IsRetried(k) /\ ~Answered(k)
  BY <1>2, RecordsStep DEF RecordsStay, IsRetried, Kept
<1> QED
  BY <1>1, <1>2 DEF Kept, Answered

(* One position of the block at hand, through a step within the block.     *)
LEMMA BlockStays ==
    ASSUME Provable, TypeInv, HandInv, BlockInv, Sent, [Next]_vars,
           NEW h \in Heights, neoSyncHeight = h, neoSyncHeight' = h, InBlock,
           NEW p \in TransfersOf[h],
           p \in todo => p \in todo' \/ Kept(KeyAt(h, p))'
                         \/ (AtHand' /\ key' = KeyAt(h, p)),
           AtHand /\ key = KeyAt(h, p) =>
               \/ AtHand' /\ key' = key
               \/ Kept(KeyAt(h, p))'
    PROVE  \/ p \in todo' \/ Kept(KeyAt(h, p))'
           \/ AtHand' /\ key' = KeyAt(h, p)
<1>1. Kept(KeyAt(h, p)) => Kept(KeyAt(h, p))'
  <2>1. ASSUME NEW k \in Keys, k = KeyAt(h, p), Kept(k)
        PROVE  Kept(k)'
    BY <2>1, KeptStays
  <2> QED
    BY <2>1, KeyAtKeys
<1>2. p \in todo \/ Kept(KeyAt(h, p)) \/ (AtHand /\ key = KeyAt(h, p))
  BY DEF BlockInv
<1> QED
  BY <1>1, <1>2

LEMMA BlockPrimed ==
    ASSUME NEW h, neoSyncHeight' = h,
           \A p \in TransfersOf[h] :
               \/ p \in todo' \/ Kept(KeyAt(h, p))'
               \/ AtHand' /\ key' = KeyAt(h, p)
    PROVE  BlockInv'
BY DEF BlockInv, AtHand, Kept, Closed, InFlight, IsPending, IsRetried

(* The scanner gives up the transfer at hand only when it is kept.         *)
LEMMA GivesUpKept ==
    ASSUME Provable, TypeInv, HandInv, Sent, PayersKnown, Scanner,
           NEW k, k = key,
           PayFails \/ StoreNeoRetry \/ MarkEnds \/ MarkLast("scanner")
    PROVE  Kept(k)'
<1>1. CASE PayFails
  BY <1>1 DEF PayFails, MakeTxFails, Loss, Kept, Closed
<1>2. CASE StoreNeoRetry
  <2> DEFINE rec == [height |-> neoSyncHeight, key |-> key]
  <2>1. CASE NoFault /\ PutNeoRetry(rec)
    <3>1. rec \in neoRetry' /\ rec.key = k
      BY <2>1 DEF PutNeoRetry
    <3> QED
      BY <3>1 DEF Kept, IsRetried
  <2>2. CASE Loss("db", key)
    BY <2>2 DEF Loss, Kept, Closed
  <2> QED
    BY <1>2, <2>1, <2>2 DEF StoreNeoRetry
<1>3. CASE MarkEnds \/ MarkLast("scanner")
  <2>1. Answered(k)
    BY <1>3 DEF MarkEnds, MarkFails, MarkLast, MarkSpent, HandInv
  <2>2. k \in Keys
    BY <1>3 DEF MarkEnds, MarkFails, MarkLast, MarkSpent, HandInv, TypeInv,
                TypeOK, ScannerTypeOK
  <2>3. Answered(k)'
    BY <2>1, <2>2, AnsweredStays DEF Next
  <2> QED
    BY <2>3 DEF Answered, Kept
<1> QED
  BY <1>1, <1>2, <1>3

LEMMA BlockScanner ==
    ASSUME Provable, TypeInv, HandInv, BlockInv, CoverInv, PayersKnown,
           Scanner
    PROVE  BlockInv'
<1> DEFINE Now(h, p) ==
        \/ p \in todo' \/ Kept(KeyAt(h, p))'
        \/ AtHand' /\ key' = KeyAt(h, p)
<1>1. PICK h \in Heights : h = neoSyncHeight
  BY DEF TypeInv, TypeOK, ScannerTypeOK
<1>2. ASSUME neoSyncHeight' = neoSyncHeight, InBlock, todo' = todo,
             AtHand' /\ key' = key
      PROVE  BlockInv'
  <2>1. \A p \in TransfersOf[h] : Now(h, p)
    BY <1>1, <1>2, BlockStays DEF CoverInv, Next
  <2> QED
    BY <1>1, <1>2, <2>1, BlockPrimed
<1>3. CASE Pay \/ PutAside \/ Send \/ (Mark /\ UNCHANGED scanVars)
  BY <1>2, <1>3 DEF Pay, PutAside, Send, Mark, scanVars, InBlock, AtHand
<1>4. CASE PayFails \/ StoreNeoRetry \/ MarkEnds
           \/ (Mark /\ MarkLast("scanner") /\ Return)
  <2>1. InBlock /\ Return
    BY <1>4 DEF PayFails, StoreNeoRetry, MarkEnds, Mark, InBlock
  <2>2. \A k : k = key => Kept(k)'
    BY <1>4, GivesUpKept DEF CoverInv
  <2>3. \A p \in TransfersOf[h] : Now(h, p)
    BY <1>1, <2>1, <2>2, BlockStays DEF CoverInv, Next, Return
  <2> QED
    BY <1>1, <2>1, <2>3, BlockPrimed DEF Return
<1>5. ASSUME NEW q \in todo, Visit(q)
      PROVE  BlockInv'
  <2>1. /\ spc = "work" /\ InBlock /\ todo' = todo \ {q}
        /\ neoSyncHeight' = neoSyncHeight
    BY <1>5
       DEF Visit, TakeTransfer, SkipForeign, GetProofFails, AtWork, Pass, InBlock
  <2>2. q \in TransfersOf[h] =>
            Kept(KeyAt(h, q))' \/ (AtHand' /\ key' = KeyAt(h, q))
    <3>1. CASE TakeTransfer(q)
      BY <1>1, <3>1 DEF TakeTransfer, AtHand
    <3>2. CASE SkipForeign(q)
      BY <1>1, <3>2 DEF SkipForeign
    <3>3. CASE GetProofFails(q)
      <4>1. SignedHeader(neoSyncHeight, LastSynced) \in Int /\ polyHeight \in Int
        BY <1>1, SignedType, HeightFacts
      <4>2. ~(SignedHeader(neoSyncHeight, LastSynced) > polyHeight)
        BY <2>1, <4>1 DEF Provable
      <4> QED
        BY <1>1, <3>3, <4>2 DEF GetProofFails, Loss, Kept, Closed
    <3> QED
      BY <1>5, <3>1, <3>2, <3>3 DEF Visit
  <2>3. \A p \in TransfersOf[h] : Now(h, p)
    BY <1>1, <2>1, <2>2, BlockStays DEF CoverInv, Next, AtHand
  <2> QED
    BY <1>1, <2>1, <2>3, BlockPrimed
<1>6. CASE GetEvents
  <2>1. TransfersOf[h] \subseteq WorkOf[h]
    BY DEF TransfersOf
  <2> QED
    BY <1>1, <1>6, <2>1, BlockPrimed DEF GetEvents
<1>7. CASE GetBlockHeight \/ EndScan \/ GetEventsFails \/ FinishBlock
           \/ GetBlockFails \/ KeepersRefused \/ KeepersChanged
  <2>1. ~InBlock'
    BY <1>7
       DEF GetBlockHeight, EndScan, GetEventsFails, LeaveScan, FinishBlock,
           GetBlockFails, KeepersRefused, KeepersChanged, Advance, InBlock
  <2> QED
    BY <2>1 DEF BlockInv
<1>9. CASE FinishKeyBlock \/ Settled \/ SendKeepers
  <2>1. /\ InBlock /\ ~AtHand
        /\ UNCHANGED <<neoSyncHeight, todo>>
    BY <1>9
       DEF FinishKeyBlock, BlockDone, Settled, SendKeepers, InBlock, AtHand
  <2>2. \A p \in TransfersOf[h] : Now(h, p)
    BY <1>1, <2>1, BlockStays DEF CoverInv, Next
  <2> QED
    BY <1>1, <2>1, <2>2, BlockPrimed
<1>8. Mark => UNCHANGED scanVars \/ (MarkLast("scanner") /\ Return)
  BY DEF Mark
<1> QED
  BY <1>3, <1>4, <1>5, <1>6, <1>7, <1>8, <1>9
     DEF Scanner, ScannerStep, SyncProof, EndBlock

LEMMA BlockStep ==
    ASSUME Provable, TypeInv, HandInv, BlockInv, CoverInv, PayersKnown,
           [Next]_vars
    PROVE  BlockInv'
<1>1. CASE Crash
  BY <1>1 DEF Crash, ScannerReset, InBlock, BlockInv
<1>2. CASE Retrier \/ Neo \/ NeoTrouble \/ PolyBlock \/ UNCHANGED vars
  <2>1. UNCHANGED <<spc, neoSyncHeight, todo, key>>
    BY <1>2
       DEF Retrier, Neo, NeoTrouble, PolyBlock, Relayer, vars, scanVars
  <2>2. PICK h \in Heights : h = neoSyncHeight
    BY DEF TypeInv, TypeOK, ScannerTypeOK
  <2>3. CASE InBlock
    <3>1. \A p \in TransfersOf[h] :
              \/ p \in todo' \/ Kept(KeyAt(h, p))'
              \/ AtHand' /\ key' = KeyAt(h, p)
      BY <2>1, <2>2, <2>3, BlockStays DEF CoverInv, AtHand
    <3> QED
      BY <2>1, <2>2, <3>1, BlockPrimed
  <2>4. CASE ~InBlock
    BY <2>1, <2>4 DEF InBlock, BlockInv
  <2> QED
    BY <2>3, <2>4
<1> QED
  BY <1>1, <1>2, BlockScanner DEF Next

LEMMA ForgottenStep ==
    ASSUME Provable, TypeInv, HandInv, BlockInv, CoverInv, NothingForgotten,
           [Next]_vars
    PROVE  NothingForgotten'
<1>1. neoSyncHeight \in Int /\ PolyStartHeight \in Int
  BY HeightFacts, StartAssumption, NodeAssumption, ChainAssumption DEF Heights
<1>2. ASSUME NEW h \in PolyStartHeight..(neoSyncHeight - 1), NEW k \in KeysOf[h]
      PROVE  Kept(k)'
  <2>1. h \in Heights
    BY <1>1, StartAssumption, NodeAssumption, HeightsNat
       DEF TypeInv, TypeOK, ScannerTypeOK
  <2> QED
    BY <1>2, <2>1, KeptStays, KeysOfKeys DEF NothingForgotten, CoverInv
<1>3. CASE neoSyncHeight' = neoSyncHeight
  BY <1>2, <1>3
     DEF NothingForgotten, Kept, Closed, InFlight, IsPending, IsRetried
<1>4. CASE FinishBlock \/ KeepersRefused \/ KeepersChanged
  <2>1. /\ spc \in {"work", "change", "wait"} /\ todo = {}
        /\ neoSyncHeight' = neoSyncHeight + 1
    BY <1>4 DEF FinishBlock, BlockDone, KeepersRefused, KeepersChanged, Advance,
                TypeInv
  <2>2. PICK g : g = neoSyncHeight
    OBVIOUS
  <2>3. g \in Heights
    BY <2>1, <2>2, HeightFacts
  <2>4. ASSUME NEW k \in KeysOf[g]
        PROVE  Kept(k)'
    <3>1. PICK p \in TransfersOf[g] : k = KeyAt(g, p)
      BY <2>3 DEF KeysOf
    <3>2. Kept(k)
      BY <2>1, <2>2, <3>1 DEF BlockInv, InBlock, AtHand
    <3> QED
      BY <2>3, <3>2, KeptStays, KeysOfKeys DEF CoverInv
  <2>5. ASSUME NEW h \in PolyStartHeight..g, NEW k \in KeysOf[h]
        PROVE  Kept(k)'
    <3>1. h = g \/ h \in PolyStartHeight..(g - 1)
      BY <1>1, <2>2
    <3> QED
      BY <1>2, <2>2, <2>4, <2>5, <3>1
  <2>6. neoSyncHeight' - 1 = g
    BY <1>1, <2>1, <2>2
  <2> QED
    BY <2>5, <2>6
       DEF NothingForgotten, Kept, Closed, InFlight, IsPending, IsRetried
<1>5. CASE Crash
  <2>1. PolyStartHeight..(neoSyncHeight' - 1) = {}
    BY <1>1, <1>5 DEF Crash, ScannerReset
  <2> QED
    BY <2>1 DEF NothingForgotten
<1>6. Scanner => FinishBlock \/ KeepersRefused \/ KeepersChanged
                   \/ neoSyncHeight' = neoSyncHeight
  BY DEF Scanner, ScannerStep, Visit, SyncProof, EndBlock,
         GetBlockHeight, EndScan, GetEvents, GetEventsFails, LeaveScan,
         TakeTransfer, SkipForeign, GetProofFails, Pass, Pay, PayFails,
         PutAside, StoreNeoRetry, Send, Mark, MarkEnds, Return, GetBlockFails,
         FinishKeyBlock, Settled, SendKeepers, scanVars
<1>7. Retrier \/ Neo \/ NeoTrouble \/ PolyBlock \/ UNCHANGED vars =>
          neoSyncHeight' = neoSyncHeight
  BY DEF Retrier, Neo, NeoTrouble, PolyBlock, Relayer, vars, scanVars
<1> QED
  BY <1>3, <1>4, <1>5, <1>6, <1>7 DEF Next

KeepInv == TypeInv /\ MarksInv /\ CoverInv /\ KeptInv

LEMMA KeepInit == Init => KeepInv
<1> SUFFICES ASSUME Init PROVE KeepInv
  OBVIOUS
<1>1. TypeInv /\ MarksInv /\ CoverInv
  BY TypeInit, MarksInit, CoverInit
<1>2. HandInv /\ BlockInv
  BY DEF Init, PaymentsInit, ScannerInit, RetrierInit, HandInv, BlockInv,
         InBlock, Payer
<1>3. NothingForgotten
  BY StartAssumption, NodeAssumption, ChainAssumption
     DEF Init, ScannerInit, NothingForgotten, Heights
<1> QED
  BY <1>1, <1>2, <1>3 DEF KeepInv, KeptInv

LEMMA KeepStep ==
    ASSUME Provable, KeepInv, [Next]_vars
    PROVE  KeepInv'
<1>1. TypeInv' /\ MarksInv' /\ CoverInv'
  BY TypeStep, MarksStep, CoverStep DEF KeepInv
<1>2. Sent /\ PayersKnown
  BY DEF KeepInv, MarksInv
<1>3. HandInv'
  BY <1>2, HandStep DEF KeepInv, KeptInv
<1>4. BlockInv' /\ NothingForgotten'
  BY <1>2, BlockStep, ForgottenStep DEF KeepInv, KeptInv
<1> QED
  BY <1>1, <1>3, <1>4 DEF KeepInv, KeptInv

(* As long as Neo can verify what is in its pool, a transfer of a block    *)
(* behind the cursor is executed, in Neo's pool or in bucket NeoRetry, or  *)
(* one of the failures that the code only logs hit that very transfer:     *)
(* through changes of the peers, crashes, failed writes, evicted and       *)
(* reordered transactions, unreachable nodes, missing proofs and an empty  *)
(* purse, other relayers, and any interleaving of the two goroutines.      *)
THEOREM ProvableKept == Spec /\ []Provable => []NothingForgotten
<1>1. KeepInv => NothingForgotten
  BY DEF KeepInv, KeptInv
<1> QED
  BY <1>1, KeepInit, KeepStep, PTL DEF Spec

-----------------------------------------------------------------------------
(* The ledger                                                              *)

Emits == KeysUpTo(polyHeight)

IsOwed(k) == InFlight(k) \/ IsRetried(k)

Owed == { k \in Keys : IsOwed(k) } \ Closed

(* Only the transfers in G come to be owed by a step.                      *)
Gains(G) == \A k \in Keys : IsOwed(k)' => IsOwed(k) \/ k \in G

LEMMA EmitsKeys == Emits \subseteq Keys
BY KeysOfKeys DEF Emits, KeysUpTo

(* What was owed stays so until it is closed.                              *)
LEMMA OwedNext ==
    ASSUME Provable, KeepInv, [Next]_vars, NEW G \in SUBSET Keys, Gains(G),
           \A k \in G : IsOwed(k)', Closed \subseteq Closed'
    PROVE  Owed' = (Owed \cup G) \ Closed'
<1>1. ASSUME NEW k \in Owed'
      PROVE  k \in (Owed \cup G) \ Closed'
  BY <1>1 DEF Owed, Gains
<1>2. ASSUME NEW k \in (Owed \cup G) \ Closed'
      PROVE  k \in Owed'
  <2>1. CASE k \in G
    BY <1>2, <2>1 DEF Owed
  <2>2. CASE k \in Owed
    <3>1. k \in Keys /\ Kept(k)
      BY <2>2 DEF Owed, IsOwed, Kept
    <3>2. Kept(k)'
      BY <3>1, KeptStays DEF KeepInv, KeptInv, MarksInv
    <3> QED
      BY <1>2, <2>2, <3>2 DEF Owed, IsOwed, Kept
  <2> QED
    BY <1>2, <2>1, <2>2
<1> QED
  BY <1>1, <1>2

-----------------------------------------------------------------------------
(* The steps of the ledger                                                 *)

LedgerStep == [Ledger!Next]_(Ledger!vars)

LEMMA LedgerQuiet ==
    ASSUME Provable, KeepInv, [Next]_vars, Gains({}),
           UNCHANGED <<polyHeight, neoDone, dropped>>
    PROVE  LedgerStep
<1>1. Closed' = Closed /\ Emits' = Emits
  BY DEF Closed, Emits
<1>2. Owed' = Owed
  BY <1>1, OwedNext DEF Owed
<1> QED
  BY <1>1, <1>2 DEF LedgerStep, Ledger!vars, Owed, IsOwed, Emits

LEMMA LedgerTakes ==
    ASSUME Provable, KeepInv, [Next]_vars, NEW k \in Emits, Gains({k}),
           IsOwed(k)', UNCHANGED <<polyHeight, neoDone, dropped>>
    PROVE  LedgerStep
<1>1. Closed' = Closed /\ Emits' = Emits /\ k \in Keys
  BY EmitsKeys DEF Closed, Emits
<1>2. Owed' = (Owed \cup {k}) \ Closed
  BY <1>1, OwedNext
<1>3. CASE k \in Closed
  <2>1. Owed' = Owed
    BY <1>2, <1>3 DEF Owed
  <2> QED
    BY <1>1, <2>1 DEF LedgerStep, Ledger!vars, Owed, IsOwed, Emits
<1>4. CASE k \notin Closed
  <2>1. Owed' = Owed \cup {k}
    BY <1>2, <1>4 DEF Owed
  <2>2. Ledger!TakeDown(k)
    BY <1>1, <1>4, <2>1
       DEF Ledger!TakeDown, Owed, IsOwed, Emits, Closed
  <2> QED
    BY <1>1, <2>2 DEF LedgerStep, Ledger!Next
<1> QED
  BY <1>3, <1>4

LEMMA LedgerAbandons ==
    ASSUME Provable, KeepInv, [Next]_vars, NEW k \in Emits, Gains({}),
           dropped' = dropped \cup {k}, UNCHANGED <<polyHeight, neoDone>>
    PROVE  LedgerStep
<1>1. Closed' = Closed \cup {k} /\ Emits' = Emits /\ k \in Keys
  BY EmitsKeys DEF Closed, Emits
<1>2. Owed' = Owed \ {k}
  BY <1>1, OwedNext DEF Owed
<1>3. Ledger!Abandon(k)
  BY <1>1, <1>2 DEF Ledger!Abandon, Owed, IsOwed, Emits
<1> QED
  BY <1>1, <1>3 DEF LedgerStep, Ledger!Next

LEMMA LedgerSettles ==
    ASSUME Provable, KeepInv, [Next]_vars, NEW k \in Emits, Gains({}),
           neoDone' = neoDone \cup {k}, UNCHANGED <<polyHeight, dropped>>
    PROVE  LedgerStep
<1>1. Closed' = Closed \cup {k} /\ Emits' = Emits /\ k \in Keys
  BY EmitsKeys DEF Closed, Emits
<1>2. Owed' = Owed \ {k}
  BY <1>1, OwedNext DEF Owed
<1>3. Ledger!Settle(k)
  BY <1>1, <1>2 DEF Ledger!Settle, Owed, IsOwed, Emits
<1> QED
  BY <1>1, <1>3 DEF LedgerStep, Ledger!Next

-----------------------------------------------------------------------------
(* The steps of the relayer and of the chains                              *)

LEMMA GainsNothing ==
    ASSUME neoTx' = neoTx, neoRetry' \subseteq neoRetry
    PROVE  Gains({})
BY DEF Gains, IsOwed, InFlight, IsPending, IsRetried

(* A step after which everything but the memory is as before.              *)
LEMMA LedgerMemory ==
    ASSUME Provable, KeepInv, [Next]_vars, nodeVars' = nodeVars,
           neoRetry' \subseteq neoRetry, dropped' = dropped
    PROVE  LedgerStep
BY GainsNothing, LedgerQuiet DEF nodeVars

LEMMA LedgerLoses ==
    ASSUME Provable, KeepInv, [Next]_vars, nodeVars' = nodeVars,
           neoRetry' = neoRetry, NEW f, NEW k \in Emits, Loss(f, k)
    PROVE  LedgerStep
BY GainsNothing, LedgerAbandons DEF nodeVars, Loss

LEMMA CoveredEmits ==
    ASSUME CoverInv, NEW k, NEW h, Covered(k, h)
    PROVE  k \in Emits
BY HeightFacts DEF Covered, KeysUpTo, Emits, Heights

LEMMA LedgerSends ==
    ASSUME Provable, KeepInv, [Next]_vars, NEW k \in Emits, NEW s, NEW ins,
           NEW ch, Submit("proof", k, s, ins, ch), neoRetry' = neoRetry,
           dropped' = dropped
    PROVE  LedgerStep
<1>1. PICK K, S, I, C : neoTx \in Seq(TxOf(K, S, I, C))
  BY DEF KeepInv, MarksInv, Sent
<1> DEFINE tx == [kind |-> "proof", key |-> k, signed |-> s, inputs |-> ins,
                  change |-> ch, status |-> "pending"]
<1>2. neoTx' = Append(neoTx, tx) /\ tx.status = "pending" /\ tx.key = k
  BY DEF Submit
<1> HIDE DEF tx
<1>3. /\ DOMAIN neoTx' = DOMAIN neoTx \cup {Len(neoTx) + 1}
      /\ neoTx'[Len(neoTx) + 1] = tx
      /\ \A x \in DOMAIN neoTx : neoTx'[x] = neoTx[x]
  BY <1>1, <1>2
<1>4. Gains({k}) /\ IsOwed(k)'
  BY <1>2, <1>3 DEF Gains, IsOwed, InFlight, IsPending, IsRetried
<1> QED
  BY <1>4, LedgerTakes DEF Submit

LEMMA LedgerScanner ==
    ASSUME Provable, KeepInv, Scanner
    PROVE  LedgerStep
<1>1. [Next]_vars /\ CoverInv
  BY DEF Next, KeepInv
<1>2. spc \in {"pay", "putRetry"} => key \in Emits
  BY <1>1, CoveredEmits DEF CoverInv, ScanCover
<1>3. CASE Pay \/ Mark \/ MarkEnds
  <2>1. dropped' = dropped
    BY <1>3, PayQuiet DEF Pay, Mark, MarkEnds
  <2>2. nodeVars' = nodeVars /\ neoRetry' = neoRetry
    BY <1>3
       DEF Pay, MakeTx, GetUnspents, LookUp, ListUtxo, ChooseInputs, Mark,
           MarkEnds, neoStoreVars
  <2> QED
    BY <1>1, <2>1, <2>2, LedgerMemory
<1>4. CASE PutAside
  <2>1. dropped' = dropped
    BY <1>4, PayQuiet DEF PutAside, Fault
  <2> QED
    BY <1>1, <1>4, <2>1, LedgerMemory DEF PutAside, neoStoreVars
<1>5. CASE PayFails
  BY <1>1, <1>2, <1>5, LedgerLoses DEF PayFails, MakeTxFails, neoStoreVars
<1>6. CASE StoreNeoRetry
  <2> DEFINE rec == [height |-> neoSyncHeight, key |-> key]
  <2>1. CASE Loss("db", key) /\ UNCHANGED neoRetry
    BY <1>1, <1>2, <1>6, <2>1, LedgerLoses DEF StoreNeoRetry
  <2>2. CASE NoFault /\ PutNeoRetry(rec)
    <3>1. PICK k : k = key
      OBVIOUS
    <3>2. neoRetry' = neoRetry \cup {rec} /\ rec.key = k
      BY <2>2, <3>1 DEF PutNeoRetry
    <3> HIDE DEF rec
    <3>3. neoTx' = neoTx
      BY <1>6 DEF StoreNeoRetry, nodeVars
    <3>4. Gains({k}) /\ IsOwed(k)'
      BY <3>2, <3>3 DEF Gains, IsOwed, InFlight, IsPending, IsRetried
    <3> QED
      BY <1>1, <1>2, <1>6, <2>2, <3>1, <3>4, LedgerTakes
         DEF StoreNeoRetry, nodeVars, NoFault, faultVars
  <2> QED
    BY <1>6, <2>1, <2>2 DEF StoreNeoRetry
<1>7. CASE Send
  <2>1. spc = "pay" /\ neoRetry' = neoRetry /\ dropped' = dropped
    BY <1>7 DEF Send, SendTx, NoFault, faultVars, neoStoreVars
  <2>2. PICK ins, ch : Submit("proof", key, signed, ins, ch)
    BY <1>7 DEF Send, SendTx
  <2> QED
    BY <1>1, <1>2, <2>1, <2>2, LedgerSends
<1>8. ASSUME NEW q \in todo, Visit(q)
      PROVE  LedgerStep
  <2>1. nodeVars' = nodeVars /\ neoRetry' = neoRetry /\ spc = "work"
    BY <1>8
       DEF Visit, TakeTransfer, SkipForeign, GetProofFails, AtWork, Pass,
           neoStoreVars
  <2>2. CASE dropped' = dropped
    BY <1>1, <2>1, <2>2, LedgerMemory
  <2>3. CASE /\ q \in TransfersOf[neoSyncHeight]
             /\ Loss("proof", KeyAt(neoSyncHeight, q))
    <3>1. /\ neoSyncHeight \in Heights /\ neoSyncHeight <= polyHeight
          /\ KeyAt(neoSyncHeight, q) \in KeysOf[neoSyncHeight]
      BY <1>1, <2>1, <2>3, HeightFacts DEF KeysOf, CoverInv, ScanCover
    <3>2. KeyAt(neoSyncHeight, q) \in Emits
      BY <3>1 DEF Emits, KeysUpTo
    <3> QED
      BY <1>1, <2>1, <2>3, <3>2, LedgerLoses
  <2> QED
    BY <1>8, <2>2, <2>3
       DEF Visit, TakeTransfer, SyncedRead, SkipForeign, GetProofFails, NoFault,
           Fault, faultVars
<1>9. CASE GetBlockHeight \/ EndScan \/ GetEvents \/ GetEventsFails
           \/ FinishBlock \/ GetBlockFails \/ FinishKeyBlock \/ Settled
           \/ KeepersRefused \/ KeepersChanged
  <2>1. nodeVars' = nodeVars /\ neoRetry' = neoRetry /\ dropped' = dropped
    BY <1>9
       DEF GetBlockHeight, EndScan, GetEvents, GetEventsFails, LeaveScan,
           FinishBlock, GetBlockFails, FinishKeyBlock, Settled, KeepersRefused,
           KeepersChanged, BlockGenerated, NoFault, Fault, faultVars,
           neoStoreVars
  <2> QED
    BY <1>1, <2>1, LedgerMemory
<1>10. CASE SendKeepers
  <2>1. PICK ins, ch : Submit("keepers", NoKey, neoSyncHeight, ins, ch)
    BY <1>10 DEF SendKeepers
  <2>2. /\ \A x \in DOMAIN neoTx' : x # Len(neoTx') => x \in DOMAIN neoTx
        /\ neoTx'[Len(neoTx')].key = NoKey
        /\ \A x \in DOMAIN neoTx : neoTx'[x] = neoTx[x]
    BY <2>1, SubmitSent DEF KeepInv, MarksInv
  <2>3. neoRetry' = neoRetry /\ dropped' = dropped
    BY <1>10 DEF SendKeepers, NoFault, faultVars, neoStoreVars
  <2>4. Gains({})
    BY <2>2, <2>3, NodeAssumption
       DEF Gains, IsOwed, InFlight, IsPending, IsRetried
  <2> QED
    BY <1>1, <2>1, <2>3, <2>4, LedgerQuiet DEF Submit
<1> QED
  BY <1>3, <1>4, <1>5, <1>6, <1>7, <1>8, <1>9, <1>10
     DEF Scanner, ScannerStep, SyncProof, EndBlock

LEMMA LedgerRetrier ==
    ASSUME Provable, KeepInv, Retrier
    PROVE  LedgerStep
<1>1. [Next]_vars /\ CoverInv
  BY DEF Next, KeepInv
<1>2. rpc = "pay" => cur.key \in Emits
  BY <1>1, CoveredEmits DEF CoverInv, RetryCover
<1>3. CASE RetryPay \/ RetryStays \/ RetryMark \/ RetryMarkEnds
  <2>1. dropped' = dropped
    BY <1>3, PayQuiet DEF RetryPay, RetryStays, RetryMark, RetryMarkEnds
  <2>2. nodeVars' = nodeVars /\ neoRetry' = neoRetry
    BY <1>3
       DEF RetryPay, MakeTx, GetUnspents, LookUp, ListUtxo, ChooseInputs,
           RetryStays, RetryMark, RetryMarkEnds, neoStoreVars
  <2> QED
    BY <1>1, <2>1, <2>2, LedgerMemory
<1>4. CASE RetryRefused
  <2>1. \E f : Loss(f, cur.key)
    BY <1>4 DEF RetryRefused, MakeTxFails
  <2> QED
    BY <1>1, <1>2, <1>4, <2>1, LedgerLoses DEF RetryRefused, neoStoreVars
<1>5. CASE Resend
  <2>1. rpc = "pay" /\ neoRetry' = neoRetry /\ dropped' = dropped
    BY <1>5 DEF Resend, SendTx, NoFault, faultVars, neoStoreVars
  <2>2. PICK ins, ch : Submit("proof", cur.key, curSigned, ins, ch)
    BY <1>5 DEF Resend, SendTx
  <2> QED
    BY <1>1, <1>2, <2>1, <2>2, LedgerSends
<1>6. CASE GetAllNeoRetry \/ (\E r \in retries : TakeRecord(r) \/ RetryLater(r))
           \/ DropRecord \/ DeleteRecord \/ EndRetry
  <2>1. nodeVars' = nodeVars /\ dropped' = dropped
    BY <1>6
       DEF GetAllNeoRetry, TakeRecord, SyncedRead, RetryLater, DropRecord,
           DeleteRecord, EndRetry, NoFault, Fault, faultVars
  <2>2. neoRetry' \subseteq neoRetry
    BY <1>6
       DEF GetAllNeoRetry, TakeRecord, RetryLater, DropRecord, DeleteRecord,
           DeleteNeoRetry, EndRetry, neoStoreVars
  <2> QED
    BY <1>1, <2>1, <2>2, LedgerMemory
<1> QED
  BY <1>3, <1>4, <1>5, <1>6 DEF Retrier, RetrierStep

LEMMA LedgerChains ==
    ASSUME Provable, KeepInv, Neo \/ NeoTrouble \/ PolyBlock
    PROVE  LedgerStep
<1>1. /\ [Next]_vars /\ CoverInv /\ TypeInv
      /\ neoRetry' = neoRetry
  BY DEF Next, KeepInv, Neo, NeoTrouble, PolyBlock, Relayer,
         neoStoreVars
<1>2. PICK K, S, I, C : neoTx \in Seq(TxOf(K, S, I, C))
  BY DEF KeepInv, MarksInv, Sent
<1>3. ASSUME NEW x \in DOMAIN neoTx, NEW s \in {"ok", "fault", "gone"},
             neoTx' = [neoTx EXCEPT ![x].status = s]
      PROVE  Gains({}) /\ (neoTx[x].kind = "proof" => neoTx[x].key \in Emits)
  <2>1. /\ DOMAIN neoTx' = DOMAIN neoTx /\ neoTx'[x].status # "pending"
        /\ \A y \in DOMAIN neoTx : y # x => neoTx'[y] = neoTx[y]
    <3> DEFINE tx == [neoTx[x] EXCEPT !.status = s]
    <3>1. tx.status = s
      <4>1. neoTx[x] \in TxOf(K, S, I, C)
        BY <1>2
      <4> QED
        BY <4>1 DEF TxOf
    <3>2. neoTx' = [neoTx EXCEPT ![x] = tx]
      BY <1>3
    <3> HIDE DEF tx
    <3> QED
      BY <1>2, <3>1, <3>2
  <2>2. Gains({})
    BY <1>1, <2>1 DEF Gains, IsOwed, InFlight, IsPending, IsRetried
  <2>3. neoTx[x].kind = "proof" => Covered(neoTx[x].key, neoTx[x].signed)
    BY <1>1, <1>3 DEF CoverInv, TxCover
  <2> QED
    BY <1>1, <2>2, <2>3, CoveredEmits
<1>4. CASE Neo
  <2>1. PICK x \in DOMAIN neoTx : NeoExecutes(x)
    BY <1>4 DEF Neo
  <2>2. Gains({}) /\ (neoTx[x].kind = "proof" => neoTx[x].key \in Emits)
    BY <1>3, <2>1 DEF NeoExecutes
  <2>3. UNCHANGED <<polyHeight, dropped>>
    BY <2>1 DEF NeoExecutes, NoFault, faultVars
  <2>4. \/ neoDone' = neoDone
        \/ neoTx[x].kind = "proof" /\ neoDone' = neoDone \cup {neoTx[x].key}
    BY <2>1 DEF NeoExecutes
  <2> QED
    BY <1>1, <2>2, <2>3, <2>4, LedgerQuiet, LedgerSettles
<1>5. CASE NeoTrouble
  <2>1. ASSUME NEW x \in DOMAIN neoTx, NeoEvicts(x)
        PROVE  LedgerStep
    <3>1. Gains({}) /\ (neoTx[x].kind = "proof" => neoTx[x].key \in Emits)
      BY <1>3, <2>1 DEF NeoEvicts
    <3>2. IF neoTx[x].kind = "proof" THEN dropped' = dropped \cup {neoTx[x].key}
                                     ELSE dropped' = dropped
      BY <2>1 DEF NeoEvicts, Loss, Fault
    <3> QED
      BY <1>1, <2>1, <3>1, <3>2, LedgerAbandons, LedgerQuiet DEF NeoEvicts
  <2>2. ASSUME NEW k \in Keys, OtherExecutes(k)
        PROVE  LedgerStep
    <3>1. k \in Emits
      BY <1>1, <2>2, HeightFacts DEF OtherExecutes, Emits, KeysUpTo, Heights
    <3>2. Gains({})
      BY <1>1, <2>2, GainsNothing DEF OtherExecutes
    <3> QED
      BY <1>1, <2>2, <3>1, <3>2, LedgerSettles DEF OtherExecutes, Fault
  <2> QED
    BY <1>5, <2>1, <2>2 DEF NeoTrouble
<1>6. CASE PolyBlock
  <2>1. /\ polyHeight' = polyHeight + 1 /\ polyHeight \in Nat
        /\ UNCHANGED <<neoTx, neoDone, dropped>>
    BY <1>1, <1>6, HeightFacts DEF PolyBlock, PolyGrow, faultVars
  <2>2. Closed' = Closed
    BY <2>1 DEF Closed
  <2>3. Owed' = Owed
    BY <1>1, <2>1, <2>2, GainsNothing, OwedNext DEF Owed
  <2>4. Emits' \in SUBSET Keys /\ Emits' = Emits \cup Emits'
    <3>1. Emits \subseteq Emits'
      BY <2>1 DEF Emits, KeysUpTo, Heights
    <3>2. Emits' \subseteq Keys
      <4>1. \A h \in Heights : KeysOf[h] \subseteq Keys
        BY KeysOfKeys
      <4> QED
        BY <4>1 DEF Emits, KeysUpTo
    <3> QED
      BY <3>1, <3>2
  <2>5. Ledger!Emit(Emits')
    BY <2>1, <2>3, <2>4 DEF Ledger!Emit, Owed, IsOwed, Emits
  <2> QED
    BY <2>4, <2>5 DEF LedgerStep, Ledger!Next
<1> QED
  BY <1>4, <1>5, <1>6

LEMMA LedgerNext ==
    ASSUME Provable, KeepInv, [Next]_vars
    PROVE  LedgerStep
<1>1. CASE Crash \/ UNCHANGED vars
  <2>1. nodeVars' = nodeVars /\ neoRetry' = neoRetry /\ dropped' = dropped
    BY <1>1 DEF Crash, Fault, vars, faultVars, neoStoreVars
  <2> QED
    BY <2>1, LedgerMemory
<1> QED
  BY <1>1, LedgerScanner, LedgerRetrier, LedgerChains DEF Next

(* As long as Neo can verify what is in its pool, the database and the     *)
(* pool keep the promise of the ledger: a transfer that was taken down or  *)
(* sent is owed until Neo has executed it or a failure that the code only  *)
(* logs hit it, and no step closes a transfer that was not emitted, or two *)
(* at once.                                                                *)
THEOREM ProvableLedger == Spec /\ []Provable => LedgerKept
<1>1. Init => Ledger!Init
  <2> SUFFICES ASSUME Init PROVE Ledger!Init
    OBVIOUS
  <2>1. Emits \subseteq Keys
    BY EmitsKeys
  <2>2. Owed = {} /\ neoDone = {} /\ dropped = {}
    BY DEF Init, NodeInit, NeoStoreInit, FailuresInit, Owed, IsOwed, InFlight,
           IsPending, IsRetried
  <2> QED
    BY <2>1, <2>2 DEF Ledger!Init, Owed, IsOwed, Emits
<1>2. Provable /\ KeepInv /\ [Next]_vars => [Ledger!Next]_(Ledger!vars)
  BY LedgerNext DEF LedgerStep
<1> QED
  BY <1>1, <1>2, KeepInit, KeepStep, PTL DEF Spec, LedgerKept, Ledger!Spec

-----------------------------------------------------------------------------
(* While Poly's peers do not change                                        *)

OneEpoch == \A h \in Heights : ~Poly[h].config

(* Neo knows the peers of the only epoch, and no block calls for others.   *)
EpochInv ==
    /\ synced = 0
    /\ \A x \in DOMAIN neoTx : neoTx[x].kind = "proof"
    /\ spc \notin {"settle", "change", "wait"}

(* Neo verifies whatever the peers of the only epoch have signed.          *)
LEMMA AlwaysVerifies ==
    ASSUME OneEpoch, EpochInv, NEW h
    PROVE  Verifies(h)
<1>1. KeyBlocks = {0}
  BY ChainAssumption DEF OneEpoch, KeyBlocks, Heights
<1>2. EpochOf(h) = 0
  BY <1>1 DEF EpochOf
<1> QED
  BY <1>2 DEF Verifies, EpochInv

LEMMA EpochSame ==
    ASSUME EpochInv, nodeVars' = nodeVars,
           spc' \notin {"settle", "change", "wait"}
    PROVE  EpochInv'
BY DEF EpochInv, nodeVars

LEMMA EpochSubmit ==
    ASSUME EpochInv, Sent, NEW k, NEW s, NEW ins, NEW ch,
           Submit("proof", k, s, ins, ch), spc' = spc
    PROVE  EpochInv'
<1>1. /\ \A x \in DOMAIN neoTx' : x # Len(neoTx') => x \in DOMAIN neoTx
      /\ neoTx'[Len(neoTx')].kind = "proof" /\ Grows /\ synced' = synced
  BY SubmitSent DEF Submit
<1> QED
  BY <1>1 DEF EpochInv, Grows, TxKept

LEMMA EpochStep ==
    ASSUME OneEpoch, EpochInv, CoverInv, [Next]_vars
    PROVE  EpochInv'
<1>1. CASE Scanner
  <2>1. CASE Send
    BY <2>1, EpochSubmit DEF Send, SendTx, scanVars, CoverInv
  <2>2. CASE Pay \/ PayFails \/ PutAside \/ StoreNeoRetry \/ Mark \/ MarkEnds
    <3>1. nodeVars' = nodeVars /\ spc' \notin {"settle", "change", "wait"}
      BY <2>2
         DEF EpochInv, Pay, PayFails, PutAside, StoreNeoRetry, Mark, MarkEnds,
             Return, scanVars
    <3> QED
      BY <3>1, EpochSame
  <2>3. CASE FinishKeyBlock
    BY <2>3, HeightFacts
       DEF FinishKeyBlock, BlockDone, ChangesKeepers, OneEpoch
  <2>4. CASE GetBlockHeight \/ EndScan \/ GetEvents \/ GetEventsFails
             \/ (\E p \in todo : Visit(p)) \/ FinishBlock \/ GetBlockFails
    <3>1. nodeVars' = nodeVars /\ spc' \notin {"settle", "change", "wait"}
      BY <2>4
         DEF EpochInv, GetBlockHeight, EndScan, GetEvents, GetEventsFails,
             LeaveScan, Visit, TakeTransfer, SkipForeign, GetProofFails, Pass,
             FinishBlock, GetBlockFails, Advance
    <3> QED
      BY <3>1, EpochSame
  <2>5. ~(Settled \/ SendKeepers \/ KeepersRefused \/ KeepersChanged)
    BY DEF EpochInv, Settled, SendKeepers, KeepersRefused, KeepersChanged
  <2> QED
    BY <1>1, <2>1, <2>2, <2>3, <2>4, <2>5
       DEF Scanner, ScannerStep, SyncProof, EndBlock
<1>2. CASE Retrier
  <2>1. spc' = spc
    BY <1>2 DEF Retrier, scanVars
  <2>2. CASE Resend
    BY <2>1, <2>2, EpochSubmit DEF Resend, SendTx, CoverInv
  <2>3. CASE ~Resend
    <3>1. nodeVars' = nodeVars
      BY <1>2, <2>3
         DEF Retrier, RetrierStep, GetAllNeoRetry, TakeRecord, RetryLater,
             RetryPay, RetryStays, RetryRefused, DropRecord, RetryMark,
             RetryMarkEnds, DeleteRecord, EndRetry
    <3> QED
      BY <2>1, <3>1, EpochSame DEF EpochInv
  <2> QED
    BY <2>2, <2>3
<1>3. CASE Neo \/ NeoTrouble \/ PolyBlock
  <2>1. Grows /\ spc' = spc
    BY <1>3, ChainsSent
       DEF CoverInv, Neo, NeoTrouble, PolyBlock, Relayer, scanVars
  <2>2. DOMAIN neoTx' = DOMAIN neoTx
    <3>1. PICK K, S, I, C : neoTx \in Seq(TxOf(K, S, I, C))
      BY DEF CoverInv, Sent
    <3> QED
      BY <1>3, <3>1
         DEF Neo, NeoTrouble, PolyBlock, NeoExecutes, NeoEvicts, OtherExecutes,
             PolyGrow
  <2>3. synced' = synced
    BY <1>3
       DEF EpochInv, Neo, NeoTrouble, PolyBlock, NeoExecutes, NeoEvicts,
           OtherExecutes, PolyGrow
  <2> QED
    BY <2>1, <2>2, <2>3 DEF EpochInv, Grows, TxKept
<1>4. CASE Crash
  BY <1>4, EpochSame DEF Crash, ScannerReset
<1>5. CASE UNCHANGED vars
  BY <1>5, EpochSame DEF EpochInv, vars, scanVars
<1> QED
  BY <1>1, <1>2, <1>3, <1>4, <1>5 DEF Next

(* A chain whose peers never change is always provable.                    *)
LEMMA EpochProvable ==
    ASSUME OneEpoch
    PROVE  Spec => []Provable
<1>1. Init => EpochInv
  <2> SUFFICES ASSUME Init PROVE EpochInv
    OBVIOUS
  <2>1. neoTx = <<>>
    BY DEF Init, NodeInit
  <2> QED
    BY <2>1 DEF Init, NodeInit, ScannerInit, EpochInv
<1>2. CoverInv /\ EpochInv => Provable
  <2> SUFFICES ASSUME CoverInv, EpochInv PROVE Provable
    OBVIOUS
  <2>1. spc = "work" => SignedHeader(neoSyncHeight, LastSynced) <= polyHeight
    BY HeightFacts DEF EpochInv, LastSynced, SignedHeader, CoverInv, ScanCover
  <2> QED
    BY <2>1, AlwaysVerifies DEF Provable, ProofsVerify
<1> QED
  BY <1>1, <1>2, EpochStep, CoverInit, CoverStep, PTL DEF Spec

(* While Poly's peers do not change, no transfer is forgotten, whatever    *)
(* fails.                                                                  *)
THEOREM TransfersKept ==
    ASSUME OneEpoch
    PROVE  Spec => []NothingForgotten
BY EpochProvable, ProvableKept, PTL

(* While Poly's peers do not change, the ledger's promise is kept, whatever*)
(* fails.                                                                  *)
THEOREM LedgerImplemented ==
    ASSUME OneEpoch
    PROVE  Spec => LedgerKept
BY EpochProvable, ProvableLedger, PTL

-----------------------------------------------------------------------------
(* The changes of Poly's peers, for any number of them.                    *)

(* KeepersSynced                                                           *)

(* A change of keepers is not lost: the relayer makes it, waits for it and *)
(* does not crash, and the pool does not drop it.  A block that changes    *)
(* the peers is signed by those of the change before it.                   *)
KeepersAssumption ==
    /\ ChangeBookkeeper
    /\ \A b, c \in KeyBlocks : b # 0 /\ b < c => b + 2 <= c
    /\ Faults \cap {"crash", "late", "evict"} = {}

PendingKeepers ==
    { x \in DOMAIN neoTx : IsPending(x) /\ neoTx[x].kind = "keepers" }

(* Neo knows the keepers of the last key block behind the cursor.          *)
SyncedInv ==
    /\ neoSyncHeight \in Heights /\ synced \in KeyBlocks
    /\ \A b \in KeyBlocks : b < neoSyncHeight => b <= synced
    /\ synced < neoSyncHeight \/ (synced = neoSyncHeight /\ spc = "wait")

(* A change that is not executed is the one the scanner waits for.         *)
ChangeInv ==
    /\ spc \in {"settle", "change", "wait"} => neoSyncHeight \in KeyBlocks
    /\ \A x \in PendingKeepers :
           /\ spc = "wait" /\ x \in 1..waited
           /\ neoTx[x].signed = neoSyncHeight /\ synced < neoSyncHeight
    /\ \A x, y \in PendingKeepers : x = y
    /\ spc = "wait" => PendingKeepers # {} \/ synced = neoSyncHeight

KeyInv == SyncedInv /\ ChangeInv

LEMMA KeyBlocksInt ==
    /\ KeyBlocks \subseteq Heights /\ 0 \in KeyBlocks
    /\ \A b \in KeyBlocks : b \in Nat
BY ChainAssumption DEF KeyBlocks, Heights

(* A key block is signed by the keepers of the key block before it.        *)
LEMMA KeyBlockVerifies ==
    ASSUME KeepersAssumption, NEW h \in KeyBlocks, synced \in KeyBlocks,
           synced < h, \A b \in KeyBlocks : b < h => b <= synced
    PROVE  Verifies(h)
<1> DEFINE Signs(b) == /\ b = 0 \/ b + 2 <= h
                       /\ \A c \in KeyBlocks : c + 2 <= h => c <= b
<1>1. Signs(synced)
  <2>1. synced = 0 \/ synced + 2 <= h
    BY DEF KeepersAssumption
  <2>2. \A c \in KeyBlocks : c + 2 <= h => c <= synced
    BY KeyBlocksInt
  <2> QED
    BY <2>1, <2>2
<1>2. ASSUME NEW b \in KeyBlocks, Signs(b)
      PROVE  b = synced
  <2>1. b < h
    BY <1>2, KeyBlocksInt
  <2>2. b <= synced
    BY <2>1
  <2>3. synced = 0 \/ synced <= b
    BY <1>1, <1>2
  <2> QED
    BY <2>2, <2>3, KeyBlocksInt
<1>3. EpochOf(h) = CHOOSE b \in KeyBlocks : Signs(b)
  BY DEF EpochOf
<1> HIDE DEF Signs
<1>4. (CHOOSE b \in KeyBlocks : Signs(b)) = synced
  BY <1>1, <1>2
<1> QED
  BY <1>3, <1>4 DEF Verifies

LEMMA ProofPends ==
    ASSUME Sent, NEW k, NEW s, NEW ins, NEW ch,
           Submit("proof", k, s, ins, ch)
    PROVE  /\ PendingKeepers' = PendingKeepers /\ synced' = synced
           /\ \A x \in PendingKeepers : neoTx'[x] = neoTx[x]
<1>1. /\ DOMAIN neoTx' = DOMAIN neoTx \cup {Len(neoTx')}
      /\ neoTx'[Len(neoTx')].kind = "proof"
      /\ \A x \in DOMAIN neoTx : neoTx'[x] = neoTx[x]
  BY SubmitSent
<1>2. Len(neoTx') \in DOMAIN neoTx =>
          neoTx[Len(neoTx')].kind = "proof"
  BY <1>1
<1> QED
  BY <1>1, <1>2 DEF PendingKeepers, IsPending, Submit

(* A step that neither concerns a change of keepers nor moves on.          *)
LEMMA KeyQuiet ==
    ASSUME KeyInv, UNCHANGED <<synced, neoSyncHeight>>,
           PendingKeepers' = PendingKeepers,
           \A x \in PendingKeepers : neoTx'[x] = neoTx[x],
           \/ UNCHANGED <<spc, waited>>
           \/ spc # "wait" /\ spc' \notin {"settle", "change", "wait"}
    PROVE  KeyInv'
<1>1. SyncedInv'
  BY DEF KeyInv, SyncedInv
<1>2. ChangeInv'
  BY DEF KeyInv, ChangeInv
<1> QED
  BY <1>1, <1>2 DEF KeyInv

LEMMA KeyAdvance ==
    ASSUME CoverInv, KeyInv, spc \in {"work", "wait"}, Advance,
           UNCHANGED nodeVars, PendingKeepers = {},
           neoSyncHeight \in KeyBlocks => synced = neoSyncHeight
    PROVE  KeyInv'
<1>1. neoSyncHeight \in Nat
  BY HeightFacts
<1>2. neoSyncHeight + 1 \in Heights
  BY <1>1, ChainAssumption DEF CoverInv, ChainsCover, ScanCover, Heights
<1>3. SyncedInv'
  BY <1>1, <1>2, KeyBlocksInt DEF Advance, KeyInv, SyncedInv, nodeVars
<1>4. ChangeInv'
  BY DEF Advance, ChangeInv, PendingKeepers, IsPending, nodeVars
<1> QED
  BY <1>3, <1>4 DEF KeyInv

LEMMA KeyScanner ==
    ASSUME CoverInv, KeepersAssumption, KeyInv, Scanner, ~KeepersRefused
    PROVE  KeyInv'
<1>1. spc # "wait" => PendingKeepers = {} /\ synced < neoSyncHeight
  BY DEF KeyInv, SyncedInv, ChangeInv
<1>2. ASSUME UNCHANGED nodeVars
      PROVE  /\ synced' = synced /\ PendingKeepers' = PendingKeepers
             /\ \A x \in PendingKeepers : neoTx'[x] = neoTx[x]
  BY <1>2 DEF nodeVars, PendingKeepers, IsPending
<1>3. CASE Send
  <2>1. Submit("proof", key, signed, left["scanner"],
               Worth(left["scanner"]) - Fee)
    BY <1>3 DEF Send, SendTx
  <2>2. UNCHANGED <<spc, waited, neoSyncHeight>>
    BY <1>3 DEF Send, scanVars
  <2> QED
    BY <2>1, <2>2, ProofPends, KeyQuiet DEF CoverInv
<1>4. CASE \/ GetBlockHeight \/ EndScan \/ GetEvents \/ GetEventsFails
           \/ GetBlockFails \/ (\E p \in todo : Visit(p))
           \/ Pay \/ PayFails \/ PutAside \/ StoreNeoRetry \/ Mark \/ MarkEnds
  <2>1. /\ UNCHANGED <<nodeVars, neoSyncHeight>>
        /\ \/ UNCHANGED <<spc, waited>>
           \/ spc # "wait" /\ spc' \notin {"settle", "change", "wait"}
    BY <1>4
       DEF GetBlockHeight, EndScan, GetEvents, GetEventsFails, GetBlockFails,
           LeaveScan, BlockDone, Visit, TakeTransfer, SkipForeign,
           GetProofFails, Pass, AtWork, Pay, PayFails, PutAside, StoreNeoRetry,
           Mark, MarkEnds, Return, scanVars
  <2> QED
    BY <1>2, <2>1, KeyQuiet
<1>5. CASE FinishBlock
  <2>1. neoSyncHeight \notin KeyBlocks
    <3>1. synced >= 0 /\ neoSyncHeight # 0
      BY <1>1, <1>5, KeyBlocksInt
         DEF KeyInv, SyncedInv, FinishBlock, BlockDone
    <3> QED
      BY <1>5, <3>1
         DEF FinishBlock, ChangesKeepers, KeepersAssumption, KeyBlocks
  <2> QED
    BY <1>1, <1>5, <2>1, KeyAdvance DEF FinishBlock, BlockDone
<1>6. CASE FinishKeyBlock \/ Settled
  <2>1. /\ UNCHANGED <<nodeVars, neoSyncHeight>>
        /\ spc # "wait" /\ spc' \in {"settle", "change"}
        /\ neoSyncHeight \in KeyBlocks
    BY <1>6, HeightFacts
       DEF FinishKeyBlock, Settled, BlockDone, ChangesKeepers, KeyBlocks,
           KeyInv, ChangeInv
  <2>2. SyncedInv'
    BY <1>1, <1>2, <2>1 DEF KeyInv, SyncedInv
  <2>3. ChangeInv'
    BY <1>1, <1>2, <2>1 DEF ChangeInv
  <2> QED
    BY <2>2, <2>3 DEF KeyInv
<1>7. CASE SendKeepers
  <2>1. PICK ins : Submit("keepers", NoKey, neoSyncHeight, ins,
                          Worth(ins) - Fee)
    BY <1>7 DEF SendKeepers
  <2>2. /\ spc = "change" /\ spc' = "wait" /\ waited' = Len(neoTx')
        /\ neoSyncHeight' = neoSyncHeight /\ synced' = synced
        /\ neoSyncHeight \in KeyBlocks
    BY <1>7, <2>1 DEF SendKeepers, Submit, KeyInv, ChangeInv
  <2>3. /\ DOMAIN neoTx' = DOMAIN neoTx \cup {Len(neoTx')}
        /\ neoTx'[Len(neoTx')].kind = "keepers"
        /\ neoTx'[Len(neoTx')].signed = neoSyncHeight
        /\ neoTx'[Len(neoTx')].status = "pending"
        /\ \A x \in DOMAIN neoTx : neoTx'[x] = neoTx[x]
        /\ Len(neoTx') \in Nat
        /\ \A x \in DOMAIN neoTx' : x \in 1..Len(neoTx')
    BY <2>1, SubmitSent DEF CoverInv
  <2>4. PendingKeepers = {} /\ synced < neoSyncHeight
    BY <1>1, <2>2
  <2>5. PendingKeepers' = {Len(neoTx')}
    BY <2>3, <2>4 DEF PendingKeepers, IsPending
  <2>6. SyncedInv'
    BY <2>2, <2>4 DEF KeyInv, SyncedInv
  <2>7. ChangeInv'
    BY <2>2, <2>3, <2>4, <2>5 DEF ChangeInv
  <2> QED
    BY <2>6, <2>7 DEF KeyInv
<1>8. CASE KeepersChanged
  <2>1. /\ spc = "wait" /\ Advance /\ UNCHANGED nodeVars
        /\ \A x \in 1..waited : ~IsPending(x)
    BY <1>8
       DEF KeepersChanged, BlockGenerated, Fault, Fails, KeepersAssumption
  <2>2. PendingKeepers = {} /\ synced = neoSyncHeight
    BY <2>1 DEF KeyInv, ChangeInv, PendingKeepers
  <2> QED
    BY <2>1, <2>2, KeyAdvance
<1> QED
  BY <1>3, <1>4, <1>5, <1>6, <1>7, <1>8
     DEF Scanner, ScannerStep, SyncProof, EndBlock

LEMMA KeyRetrier ==
    ASSUME CoverInv, KeyInv, Retrier
    PROVE  KeyInv'
<1>1. UNCHANGED <<spc, waited, neoSyncHeight>>
  BY DEF Retrier, scanVars
<1>2. CASE Resend
  <2>1. Submit("proof", cur.key, curSigned, left["retrier"],
               Worth(left["retrier"]) - Fee)
    BY <1>2 DEF Resend, SendTx
  <2>2. /\ PendingKeepers' = PendingKeepers /\ synced' = synced
        /\ \A x \in PendingKeepers : neoTx'[x] = neoTx[x]
    BY <2>1, ProofPends DEF CoverInv
  <2> QED
    BY <1>1, <2>2, KeyQuiet
<1>3. CASE UNCHANGED nodeVars
  <2>1. /\ synced' = synced /\ PendingKeepers' = PendingKeepers
        /\ \A x \in PendingKeepers : neoTx'[x] = neoTx[x]
    BY <1>3 DEF nodeVars, PendingKeepers, IsPending
  <2> QED
    BY <1>1, <2>1, KeyQuiet
<1> QED
  BY <1>2, <1>3
     DEF Retrier, RetrierStep, GetAllNeoRetry, TakeRecord, RetryLater,
         RetryPay, RetryStays, RetryRefused, DropRecord, RetryMark,
         RetryMarkEnds, DeleteRecord, EndRetry

LEMMA KeyExecuted ==
    ASSUME CoverInv, KeepersAssumption, KeyInv, UNCHANGED scanVars,
           NEW x \in DOMAIN neoTx, NeoExecutes(x)
    PROVE  KeyInv'
<1> DEFINE done == IF Executable(neoTx[x]) THEN "ok" ELSE "fault"
<1>1. PICK K, S, I, C : neoTx \in Seq(TxOf(K, S, I, C))
  BY DEF CoverInv, Sent
<1>2. neoTx' = [neoTx EXCEPT ![x].status = done] /\ done # "pending"
  BY DEF NeoExecutes
<1> HIDE DEF done
<1>3. neoTx[x] \in TxOf(K, S, I, C)
  BY <1>1
<1>4. /\ DOMAIN neoTx' = DOMAIN neoTx /\ neoTx'[x].status = done
      /\ \A y \in DOMAIN neoTx : y # x => neoTx'[y] = neoTx[y]
  BY <1>1, <1>2, <1>3 DEF TxOf
<1>5. PendingKeepers' = PendingKeepers \ {x}
  BY <1>2, <1>4 DEF PendingKeepers, IsPending
<1>6. CASE x \in PendingKeepers
  <2>1. /\ PendingKeepers' = {} /\ spc = "wait" /\ neoSyncHeight \in KeyBlocks
        /\ neoTx[x].kind = "keepers" /\ neoTx[x].signed = neoSyncHeight
        /\ synced < neoSyncHeight
    BY <1>5, <1>6 DEF KeyInv, ChangeInv, PendingKeepers
  <2>2. Executable(neoTx[x])
    <3>1. Verifies(neoSyncHeight)
      BY <2>1, KeyBlockVerifies DEF KeyInv, SyncedInv
    <3> QED
      BY <2>1, <3>1, KeyBlocksInt DEF Executable, KeyInv, SyncedInv
  <2>3. synced' = neoSyncHeight
    BY <2>1, <2>2 DEF NeoExecutes
  <2>4. UNCHANGED <<spc, waited, neoSyncHeight>>
    BY DEF scanVars
  <2>5. SyncedInv'
    BY <2>1, <2>3, <2>4, KeyBlocksInt DEF SyncedInv
  <2>6. ChangeInv'
    BY <2>1, <2>3, <2>4 DEF ChangeInv
  <2> QED
    BY <2>5, <2>6 DEF KeyInv
<1>7. CASE x \notin PendingKeepers
  <2>1. neoTx[x].kind # "keepers"
    BY <1>7 DEF NeoExecutes, PendingKeepers
  <2>2. synced' = synced
    BY <2>1 DEF NeoExecutes
  <2>3. PendingKeepers' = PendingKeepers
        /\ \A y \in PendingKeepers : neoTx'[y] = neoTx[y]
    BY <1>4, <1>5, <1>7 DEF PendingKeepers
  <2> QED
    BY <2>2, <2>3, KeyQuiet DEF scanVars
<1> QED
  BY <1>6, <1>7

LEMMA KeyStep ==
    ASSUME CoverInv, KeepersAssumption, KeyInv, [Next]_vars,
           [~KeepersRefused]_vars
    PROVE  KeyInv'
<1>1. CASE Scanner
  <2>1. CASE vars' = vars
    BY <2>1
       DEF vars, nodeVars, scanVars, KeyInv, SyncedInv, ChangeInv,
           PendingKeepers, IsPending
  <2> QED
    BY <1>1, <2>1, KeyScanner
<1>2. CASE Neo
  BY <1>2, KeyExecuted DEF Neo, Relayer
<1>3. CASE NeoTrouble \/ PolyBlock \/ UNCHANGED vars
  <2>1. UNCHANGED <<neoTx, synced, scanVars>>
    BY <1>3
       DEF NeoTrouble, NeoEvicts, OtherExecutes, Loss, Fault, Fails,
           KeepersAssumption, PolyBlock, PolyGrow, Relayer, vars, nodeVars
  <2>2. /\ PendingKeepers' = PendingKeepers
        /\ \A x \in PendingKeepers : neoTx'[x] = neoTx[x]
    BY <2>1 DEF PendingKeepers, IsPending
  <2> QED
    BY <2>1, <2>2, KeyQuiet DEF scanVars
<1>4. CASE Crash
  BY <1>4 DEF Crash, Fault, Fails, KeepersAssumption
<1> QED
  BY <1>1, <1>2, <1>3, <1>4, KeyRetrier DEF Next

LEMMA KeyInit == Init => KeyInv
<1> SUFFICES ASSUME Init PROVE KeyInv
  OBVIOUS
<1>1. PendingKeepers = {}
  BY DEF Init, NodeInit, PendingKeepers
<1> QED
  BY <1>1, KeyBlocksInt, StartAssumption, NodeAssumption, ChainAssumption
     DEF Init, NodeInit, ScannerInit, KeyInv, SyncedInv, ChangeInv, Heights

(* However often Poly changes its peers, Neo knows the keepers of every    *)
(* block behind the cursor, as long as the address of the relayer can pay  *)
(* for each change: while transfers that another goroutine sends get into  *)
(* blocks before and after the change, and blocks and proofs fail.         *)
THEOREM KeepersReach ==
    ASSUME KeepersAssumption
    PROVE  Spec /\ [][~KeepersRefused]_vars => []KeepersSynced
<1>1. CoverInv /\ KeyInv /\ [Next]_vars /\ [~KeepersRefused]_vars
        => CoverInv' /\ KeyInv'
  BY CoverStep, KeyStep
<1>2. CoverInv /\ KeyInv => KeepersSynced
  <2> SUFFICES ASSUME CoverInv, KeyInv,
                      NEW h \in PolyStartHeight..(neoSyncHeight - 1),
                      Poly[h].config
               PROVE  synced >= h
    BY DEF KeepersSynced
  <2>1. h \in KeyBlocks /\ h < neoSyncHeight
    BY StartAssumption, NodeAssumption, ChainAssumption
       DEF KeyInv, SyncedInv, KeyBlocks, Heights
  <2> QED
    BY <2>1, KeyBlocksInt DEF KeyInv, SyncedInv
<1> QED
  BY <1>1, <1>2, CoverInit, KeyInit, PTL DEF Spec

-----------------------------------------------------------------------------
(* ProofsVerify                                                            *)

PendingProofs ==
    { x \in DOMAIN neoTx : IsPending(x) /\ neoTx[x].kind = "proof" }

(* Nothing is left to retry, and a proof is signed by the successor of its *)
(* block.  The scanner has waited for every proof when it changes keepers. *)
SignedInv ==
    /\ neoRetry = {} /\ retries = {}
    /\ rpc \in {"idle", "loop"} /\ spc # "putRetry"
    /\ spc = "pay" => signed = neoSyncHeight + 1
    /\ spc = "settle" => waited = Len(neoTx)
    /\ spc \in {"change", "wait"} => PendingProofs = {}
    /\ ProofsVerify

(* The successor of a block is signed by the keepers Neo knows.            *)
LEMMA SuccessorVerifies ==
    ASSUME KeyInv, synced < neoSyncHeight
    PROVE  Verifies(neoSyncHeight + 1)
<1> DEFINE h == neoSyncHeight
           Signs(b) == /\ b = 0 \/ b + 2 <= h + 1
                       /\ \A c \in KeyBlocks : c + 2 <= h + 1 => c <= b
<1>1. /\ h \in Nat /\ synced \in KeyBlocks /\ synced \in Nat /\ synced < h
      /\ \A b \in KeyBlocks : b \in Nat /\ (b < h => b <= synced)
  BY HeightsNat, KeyBlocksInt DEF KeyInv, SyncedInv
<1> HIDE DEF h
<1>2. Signs(synced)
  <2>1. synced + 2 <= h + 1
    BY <1>1
  <2>2. \A c \in KeyBlocks : c + 2 <= h + 1 => c <= synced
    BY <1>1
  <2> QED
    BY <2>1, <2>2
<1>3. ASSUME NEW b \in KeyBlocks, Signs(b)
      PROVE  b = synced
  <2>1. b < h /\ b <= synced
    BY <1>1, <1>3
  <2>2. synced + 2 <= h + 1
    BY <1>1
  <2>3. synced <= b
    BY <1>1, <1>3, <2>2
  <2> QED
    BY <1>1, <2>1, <2>3
<1>4. EpochOf(h + 1) = CHOOSE b \in KeyBlocks : Signs(b)
  BY DEF EpochOf
<1> HIDE DEF Signs
<1>5. (CHOOSE b \in KeyBlocks : Signs(b)) = synced
  BY <1>1, <1>2, <1>3
<1> QED
  BY <1>4, <1>5 DEF Verifies, h

(* The header to be signed is the successor of the block at hand, and it   *)
(* exists.                                                                 *)
LEMMA SignedNext ==
    ASSUME TypeInv, CoverInv, KeyInv, spc = "work", NEW last \in {0, LastSynced}
    PROVE  /\ SignedHeader(neoSyncHeight, last) = neoSyncHeight + 1
           /\ neoSyncHeight + 1 <= polyHeight
<1>1. synced < neoSyncHeight /\ synced \in Nat /\ neoSyncHeight \in Nat
  BY HeightsNat, KeyBlocksInt DEF KeyInv, SyncedInv
<1>2. last <= neoSyncHeight /\ last \in Nat
  BY <1>1 DEF LastSynced
<1>3. neoSyncHeight < n /\ n <= polyHeight /\ n \in Nat /\ polyHeight \in Nat
  BY HeightFacts DEF CoverInv, ScanCover
<1> QED
  BY <1>1, <1>2, <1>3 DEF SignedHeader

(* What Neo knows and what is on its way do not change.                    *)
LEMMA VerifySame ==
    ASSUME ProofsVerify, UNCHANGED <<neoTx, synced>>
    PROVE  ProofsVerify' /\ PendingProofs' = PendingProofs
BY DEF ProofsVerify, PendingProofs, IsPending, Verifies

LEMMA SignedScanner ==
    ASSUME TypeInv, CoverInv, KeepersAssumption, KeyInv, SignedInv, Scanner,
           ~KeepersRefused, ~PutAside
    PROVE  SignedInv'
<1>1. neoRetry' = {} /\ UNCHANGED <<retries, rpc>>
  <2>1. ~StoreNeoRetry
    BY DEF StoreNeoRetry, SignedInv
  <2>2. neoRetry' = neoRetry
    BY <2>1
       DEF Scanner, ScannerStep, Visit, SyncProof, EndBlock, GetBlockHeight,
           EndScan, GetEvents, GetEventsFails, LeaveScan, TakeTransfer,
           SkipForeign, GetProofFails, Pass, Pay, MakeTx, GetUnspents, LookUp,
           ListUtxo, ChooseInputs, PayFails, PutAside, Send, Mark, MarkEnds,
           FinishBlock, GetBlockFails, FinishKeyBlock, Settled, SendKeepers,
           KeepersRefused, KeepersChanged, neoStoreVars
  <2> QED
    BY <2>2 DEF Scanner, retrierVars, SignedInv
<1>2. spc # "wait" => synced < neoSyncHeight
  BY DEF KeyInv, SyncedInv
<1>3. CASE Send
  <2>1. Submit("proof", key, signed, left["scanner"],
               Worth(left["scanner"]) - Fee)
    BY <1>3 DEF Send, SendTx
  <2>2. /\ spc = "pay" /\ UNCHANGED <<spc, neoSyncHeight, signed, waited>>
        /\ synced' = synced
    BY <1>3, <2>1 DEF Send, scanVars, Submit
  <2>3. /\ \A x \in DOMAIN neoTx' : x # Len(neoTx') => x \in DOMAIN neoTx
        /\ neoTx'[Len(neoTx')].signed = signed
        /\ \A x \in DOMAIN neoTx : neoTx'[x] = neoTx[x]
    BY <2>1, SubmitSent DEF CoverInv
  <2>4. Verifies(signed)
    BY <1>2, <2>2, SuccessorVerifies DEF SignedInv
  <2>5. ProofsVerify'
    BY <2>2, <2>3, <2>4 DEF SignedInv, ProofsVerify, IsPending, Verifies
  <2> QED
    BY <1>1, <2>2, <2>5 DEF SignedInv
<1>4. ASSUME NEW p \in todo, Visit(p)
      PROVE  SignedInv'
  <2>1. UNCHANGED <<nodeVars, neoSyncHeight>>
    BY <1>4 DEF Visit, TakeTransfer, SkipForeign, GetProofFails, Pass
  <2>2. ProofsVerify'
    BY <2>1, VerifySame DEF SignedInv, nodeVars
  <2>3. CASE TakeTransfer(p)
    <3>1. spc = "work" /\ spc' = "pay"
      BY <2>3 DEF TakeTransfer, AtWork
    <3>2. PICK last \in {0, LastSynced} :
              signed' = SignedHeader(neoSyncHeight, last)
      BY <2>3 DEF TakeTransfer
    <3> QED
      BY <1>1, <2>1, <2>2, <3>1, <3>2, SignedNext DEF SignedInv
  <2>4. CASE SkipForeign(p) \/ GetProofFails(p)
    <3>1. spc = "work" /\ spc' = "work"
      BY <2>4 DEF SkipForeign, GetProofFails, AtWork, Pass
    <3> QED
      BY <1>1, <2>2, <3>1 DEF SignedInv
  <2> QED
    BY <1>4, <2>3, <2>4 DEF Visit
<1>5. CASE Pay \/ PayFails \/ Mark \/ MarkEnds
  <2>1. /\ UNCHANGED nodeVars /\ spc = "pay"
        /\ UNCHANGED scanVars \/ spc' = "work"
    BY <1>5 DEF Pay, PayFails, Mark, MarkEnds, Return
  <2>2. ProofsVerify'
    BY <2>1, VerifySame DEF SignedInv, nodeVars
  <2> QED
    BY <1>1, <2>1, <2>2 DEF SignedInv, scanVars
<1>6. CASE GetBlockHeight \/ EndScan \/ GetEvents \/ GetEventsFails
           \/ FinishBlock \/ GetBlockFails \/ KeepersChanged
  <2>1. UNCHANGED nodeVars /\ spc' \in {"count", "block", "work"}
    BY <1>6
       DEF GetBlockHeight, EndScan, GetEvents, GetEventsFails, FinishBlock,
           GetBlockFails, KeepersChanged, LeaveScan, Advance
  <2>2. ProofsVerify'
    BY <2>1, VerifySame DEF SignedInv, nodeVars
  <2> QED
    BY <1>1, <2>1, <2>2 DEF SignedInv
<1>7. CASE FinishKeyBlock
  <2>1. ProofsVerify'
    BY <1>7, VerifySame DEF FinishKeyBlock, SignedInv, nodeVars
  <2> QED
    BY <1>1, <1>7, <2>1 DEF FinishKeyBlock, SignedInv, nodeVars
<1>8. CASE Settled
  <2>1. ProofsVerify' /\ PendingProofs' = PendingProofs
    BY <1>8, VerifySame DEF Settled, SignedInv, nodeVars
  <2>2. \A x \in 1..waited : ~IsPending(x)
    BY <1>8 DEF Settled, BlockGenerated, Fault, Fails, KeepersAssumption
  <2>3. waited = Len(neoTx) /\ DOMAIN neoTx = 1..Len(neoTx)
    BY <1>8 DEF Settled, SignedInv, TypeInv, TypeOK, NodeTypeOK
  <2>4. PendingProofs = {}
    BY <2>2, <2>3 DEF PendingProofs
  <2> QED
    BY <1>1, <1>8, <2>1, <2>4 DEF Settled, SignedInv
<1>9. CASE SendKeepers
  <2>1. PICK ins, ch : Submit("keepers", NoKey, neoSyncHeight, ins, ch)
    BY <1>9 DEF SendKeepers
  <2>2. /\ \A x \in DOMAIN neoTx' : x # Len(neoTx') => x \in DOMAIN neoTx
        /\ neoTx'[Len(neoTx')].kind = "keepers"
        /\ \A x \in DOMAIN neoTx : neoTx'[x] = neoTx[x]
    BY <2>1, SubmitSent DEF CoverInv
  <2>3. PendingProofs = {} /\ spc' = "wait"
    BY <1>9 DEF SendKeepers, SignedInv
  <2>4. PendingProofs' = {}
    BY <2>2, <2>3 DEF PendingProofs, IsPending
  <2>5. ProofsVerify'
    BY <2>4 DEF PendingProofs, ProofsVerify
  <2> QED
    BY <1>1, <2>3, <2>4, <2>5 DEF SignedInv
<1>10. ~StoreNeoRetry
  BY DEF StoreNeoRetry, SignedInv
<1> QED
  BY <1>3, <1>4, <1>5, <1>6, <1>7, <1>8, <1>9, <1>10
     DEF Scanner, ScannerStep, SyncProof, EndBlock

LEMMA SignedRetrier ==
    ASSUME SignedInv, Retrier
    PROVE  SignedInv'
<1>1. GetAllNeoRetry \/ EndRetry
  BY DEF SignedInv, Retrier, RetrierStep, RetryPay, RetryStays, RetryRefused,
         DropRecord, Resend, RetryMark, RetryMarkEnds, DeleteRecord
<1>2. /\ UNCHANGED <<nodeVars, neoStoreVars, scanVars>>
      /\ retries' = {} /\ rpc' \in {"idle", "loop"}
  BY <1>1 DEF GetAllNeoRetry, EndRetry, Retrier, SignedInv
<1>3. ProofsVerify' /\ PendingProofs' = PendingProofs
  BY <1>2, VerifySame DEF SignedInv, nodeVars
<1> QED
  BY <1>2, <1>3 DEF SignedInv, nodeVars, neoStoreVars, scanVars

LEMMA SignedExecuted ==
    ASSUME TypeInv, KeyInv, SignedInv, UNCHANGED Relayer,
           NEW x \in DOMAIN neoTx, NeoExecutes(x)
    PROVE  SignedInv'
<1> DEFINE done == IF Executable(neoTx[x]) THEN "ok" ELSE "fault"
           tx == [neoTx[x] EXCEPT !.status = done]
<1>1. neoTx \in Seq(NeoTx) /\ neoTx[x] \in NeoTx
  BY DEF TypeInv, TypeOK, NodeTypeOK
<1>2. tx.status = done /\ done # "pending"
  BY <1>1 DEF NeoTx
<1>3. neoTx' = [neoTx EXCEPT ![x] = tx]
  BY DEF NeoExecutes
<1> HIDE DEF tx, done
<1>4. /\ DOMAIN neoTx' = DOMAIN neoTx /\ neoTx'[x].status # "pending"
      /\ \A y \in DOMAIN neoTx : y # x => neoTx'[y] = neoTx[y]
      /\ Len(neoTx') = Len(neoTx)
  BY <1>1, <1>2, <1>3
<1>5. PendingProofs' \subseteq PendingProofs
  BY <1>4 DEF PendingProofs, IsPending
<1>6. ProofsVerify'
  <2>1. CASE neoTx[x].kind = "keepers"
    <3>1. spc = "wait"
      BY <2>1 DEF NeoExecutes, KeyInv, ChangeInv, PendingKeepers
    <3>2. PendingProofs' = {}
      BY <1>5, <3>1 DEF SignedInv
    <3> QED
      BY <3>2 DEF PendingProofs, ProofsVerify
  <2>2. CASE neoTx[x].kind # "keepers"
    <3>1. synced' = synced
      BY <2>2 DEF NeoExecutes
    <3> QED
      BY <1>4, <3>1 DEF SignedInv, ProofsVerify, IsPending, Verifies
  <2> QED
    BY <2>1, <2>2
<1> QED
  BY <1>4, <1>5, <1>6
     DEF SignedInv, Relayer, neoStoreVars, scanVars, retrierVars

LEMMA SignedInit == Init => SignedInv
<1> SUFFICES ASSUME Init PROVE SignedInv
  OBVIOUS
<1>1. DOMAIN neoTx = {}
  BY DEF Init, NodeInit
<1> QED
  BY <1>1
     DEF Init, NeoStoreInit, ScannerInit, RetrierInit, SignedInv, ProofsVerify

LEMMA SignedStep ==
    ASSUME TypeInv, CoverInv, KeepersAssumption, KeyInv, SignedInv,
           [Next]_vars, [~KeepersRefused]_vars, [~PutAside]_vars
    PROVE  SignedInv'
<1>1. CASE UNCHANGED vars
  BY <1>1, VerifySame
     DEF vars, nodeVars, neoStoreVars, scanVars, retrierVars, SignedInv
<1>2. CASE Scanner /\ vars' # vars
  BY <1>2, SignedScanner
<1>3. CASE Neo
  BY <1>3, SignedExecuted DEF Neo
<1>4. CASE NeoTrouble \/ PolyBlock
  <2>1. UNCHANGED <<neoTx, synced, Relayer>>
    BY <1>4
       DEF NeoTrouble, NeoEvicts, OtherExecutes, Loss, Fault, Fails,
           KeepersAssumption, PolyBlock, PolyGrow
  <2> QED
    BY <2>1, VerifySame
       DEF Relayer, neoStoreVars, scanVars, retrierVars, SignedInv
<1>5. ~Crash
  BY DEF Crash, Fault, Fails, KeepersAssumption
<1> QED
  BY <1>1, <1>2, <1>3, <1>4, <1>5, SignedRetrier DEF Next

(* As long as no transfer is put aside and every change of keepers is      *)
(* sent, Neo can verify the proofs in its pool however often Poly changes  *)
(* its peers.                                                              *)
LEMMA EpochsProvable ==
    ASSUME KeepersAssumption
    PROVE  Spec /\ [][~KeepersRefused]_vars /\ [][~PutAside]_vars
               => []Provable
<1> DEFINE Inv == TypeInv /\ CoverInv /\ KeyInv /\ SignedInv
<1>1. Init => Inv
  BY TypeInit, CoverInit, KeyInit, SignedInit
<1>2. Inv /\ [Next]_vars /\ [~KeepersRefused]_vars /\ [~PutAside]_vars => Inv'
  BY TypeStep, CoverStep, KeyStep, SignedStep
<1>3. Inv => Provable
  BY SignedNext DEF Provable, SignedInv
<1> QED
  BY <1>1, <1>2, <1>3, PTL DEF Spec

(* Every proof in Neo's pool is signed by the peers Neo knows, through any *)
(* number of changes of Poly's peers: the scanner waits for the proofs of  *)
(* the epoch before it changes the keepers, and for the new keepers before *)
(* it sends another.  Blocks, events and proofs fail meanwhile, the sync   *)
(* height cannot be read, and other relayers are faster.                   *)
THEOREM ProofsVerified ==
    ASSUME KeepersAssumption
    PROVE  Spec /\ [][~KeepersRefused]_vars /\ [][~PutAside]_vars
               => []ProofsVerify
<1>1. Provable => ProofsVerify
  BY DEF Provable
<1> QED
  BY <1>1, EpochsProvable, PTL

(* So no transfer is forgotten, in any epoch.                              *)
THEOREM EpochsKept ==
    ASSUME KeepersAssumption
    PROVE  Spec /\ [][~KeepersRefused]_vars /\ [][~PutAside]_vars
               => []NothingForgotten
BY EpochsProvable, ProvableKept, PTL

(* And the ledger's promise is kept.                                       *)
THEOREM EpochsLedger ==
    ASSUME KeepersAssumption
    PROVE  Spec /\ [][~KeepersRefused]_vars /\ [][~PutAside]_vars
               => LedgerKept
BY EpochsProvable, ProvableLedger, PTL

-----------------------------------------------------------------------------
(* A purse that lasts                                                      *)

(* The address starts with more utxos than the relayer sends transactions, *)
(* each of them pays for one, and what the relayer sends or writes to the  *)
(* database arrives.                                                       *)
PurseAssumption ==
    /\ MaxTxs < Cardinality(Coins)
    /\ \A c \in Coins : c.value >= Fee
    /\ Faults \cap {"db", "send", "keepers"} = {}

(* Of the utxos it starts with.                                            *)
Unused(c) == c \in Coins /\ \A x \in DOMAIN neoTx : c \notin neoTx[x].inputs

(* The pool accepts a transaction that spends c.                           *)
Free(c) ==
    /\ c \in unspent
    /\ \A x \in DOMAIN neoTx : IsPending(x) => c \notin neoTx[x].inputs

Marked(c) == IsListed(c) /\ utxo[c]

(* Every transaction spends one utxo, and only transactions spend them.    *)
SpentInv ==
    /\ \A x \in DOMAIN neoTx : \E c : neoTx[x].inputs = {c}
    /\ \A c : Unused(c) => c \in unspent

(* The utxos in the pool are marked, but for the one about to be marked.   *)
PoolInv ==
    \A x \in PendingProofs : \A c \in neoTx[x].inputs :
        Marked(c) \/ (step["scanner"] = "mark" /\ c \in left["scanner"])

(* GetBalance finds what is free, and all that was never used.             *)
WalkInv ==
    /\ step["scanner"] \in {"walk", "list"} =>
           /\ \A c \in left["scanner"] : Marked(c) \/ Free(c)
           /\ \A c \in avail["scanner"] : Free(c)
           /\ \A c : Unused(c) => c \in left["scanner"] \cup avail["scanner"]
    /\ step["scanner"] = "list" =>
           \A c : IsNextToWalk(c, "scanner") => ~IsListed(c)

(* What is chosen is one free utxo.                                        *)
ChosenInv ==
    /\ spc # "pay" => step["scanner"] = "none"
    /\ step["scanner"] \in {"send", "mark"} => \E c : left["scanner"] = {c}
    /\ step["scanner"] = "send" => \A c \in left["scanner"] : Free(c)

PurseInv == SpentInv /\ PoolInv /\ WalkInv /\ ChosenInv

(* One utxo that is worth the fee makes the rest superfluous.              *)
LEMMA OneInput ==
    ASSUME NEW S \in SUBSET Coin, IsFiniteSet(S), NEW b \in S, b.value >= Fee
    PROVE  /\ Worth(S) \in Int /\ Worth(S) >= Fee
           /\ \E c \in S : InputsOf(S) = {c}
<1> DEFINE v == Value(S)
           P == OrderOf(S)
           F == Fitting(S, v, P, Fee)
           rest == Rest(S, v, P, Fee)
<1>1. \A c \in S : v[c] = c.value /\ v[c] \in Nat /\ v[c] > 0 /\ v[c] \in Int
  BY NodeAssumption DEF Value, Coin
<1>2. InOrder(S, v, P) /\ Fee \in Nat /\ Fee > 0
  BY LargerOrders, NodeAssumption
<1> HIDE DEF v, P
<1>3. ASSUME NEW T \in SUBSET S, NEW c \in T
      PROVE  /\ Total(v, {c}) = v[c] /\ Total(v, T) \in Int
             /\ v[c] <= Total(v, T)
             /\ \A d \in T : c # d => v[c] < Total(v, T)
  <2>1. IsFiniteSet(T) /\ \A x \in T : v[x] \in Nat \ {0}
    BY <1>1, FS_Subset
  <2> QED
    BY <2>1, TotalOne
<1>4. Worth(S) \in Int /\ Worth(S) >= Fee
  <2>1. Worth(S) = Total(v, S)
    BY DEF Worth, v
  <2>2. v[b] <= Total(v, S) /\ Total(v, S) \in Int /\ v[b] \in Nat /\ v[b] >= Fee
    BY <1>1, <1>3
  <2> QED
    BY <1>2, <2>1, <2>2
<1>5. /\ F \subseteq S /\ rest \in Nat /\ Total(v, F) = Fee - rest
      /\ \A c \in F : P[c] \subseteq F
      /\ \/ rest = 0 /\ InputsOf(S) = F
         \/ /\ rest > 0
            /\ \E c \in S : /\ IsNearest(c, S, v, P, rest)
                           /\ InputsOf(S) = F \cup {c}
  BY <1>2, <1>4, InputsAre, FittingFits DEF F, rest, v, P
<1> HIDE DEF F, rest
<1>6. CASE F = {}
  <2>1. rest = Fee
    BY <1>2, <1>5, <1>6, TotalEmpty
  <2> QED
    BY <1>2, <1>4, <1>5, <1>6, <2>1
<1>7. CASE F # {}
  <2>1. PICK m \in F : F \cap P[m] = {m}
    BY <1>2, <1>5, <1>7, FirstInOrder
  <2>2. m \in S /\ P[m] = {m}
    BY <1>2, <1>5, <2>1 DEF InOrder
  <2>3. v[m] >= v[b]
    BY <1>2, <2>2 DEF InOrder
  <2>4. v[m] >= Fee /\ v[m] \in Int /\ Fee \in Int
    BY <1>1, <1>2, <2>2, <2>3
  <2>5. F \in SUBSET S /\ m \in F /\ Total(v, F) = Fee - rest
    BY <1>5, <2>1
  <2>6. /\ Total(v, F) \in Int /\ v[m] <= Total(v, F)
        /\ \A d \in F : m # d => v[m] < Total(v, F)
    BY <1>3, <2>5
  <2>7. rest = 0 /\ F = {m}
    BY <1>5, <2>4, <2>5, <2>6
  <2> QED
    BY <1>4, <1>5, <2>2, <2>7
<1> QED
  BY <1>6, <1>7

(* There is a utxo that no transaction has used.                           *)
LEMMA OneLeft ==
    ASSUME PurseAssumption, TypeInv, SpentInv
    PROVE  \E c : Unused(c) /\ c \in Coin /\ c.value >= Fee /\ c \in unspent
<1>1. Len(neoTx) \in Nat /\ Len(neoTx) <= MaxTxs /\ DOMAIN neoTx = 1..Len(neoTx)
  BY DEF TypeInv, TypeOK, NodeTypeOK
<1>2. /\ IsFiniteSet(1..Len(neoTx)) /\ Cardinality(1..Len(neoTx)) = Len(neoTx)
      /\ IsFiniteSet(Coins) /\ Cardinality(Coins) \in Nat /\ MaxTxs \in Nat
  <2>1. IsFiniteSet(Coins) /\ MaxTxs \in Nat
    BY NodeAssumption
  <2>2. Cardinality(Coins) \in Nat
    BY <2>1, FS_CardinalityType
  <2>3. IsFiniteSet(1..Len(neoTx)) /\ Cardinality(1..Len(neoTx)) = Len(neoTx)
    <3>1. 1 \in Int /\ Len(neoTx) \in Int /\ (1 > Len(neoTx) <=> Len(neoTx) = 0)
      BY <1>1
    <3> QED
      BY <1>1, <3>1, FS_Interval
  <2> QED
    BY <2>1, <2>2, <2>3
<1>3. \E c \in Coins : Unused(c)
  <2> SUFFICES ASSUME \A c \in Coins : ~Unused(c) PROVE FALSE
    OBVIOUS
  <2> DEFINE f == [c \in Coins |-> CHOOSE x \in 1..Len(neoTx) : neoTx[x].inputs = {c}]
  <2>1. \A c \in Coins : \E x \in 1..Len(neoTx) : neoTx[x].inputs = {c}
    BY <1>1 DEF Unused, SpentInv
  <2>2. \A c \in Coins : f[c] \in 1..Len(neoTx) /\ neoTx[f[c]].inputs = {c}
    BY <2>1
  <2>3. f \in [Coins -> 1..Len(neoTx)]
    BY <2>2
  <2> HIDE DEF f
  <2>4. Cardinality(1..Len(neoTx)) < Cardinality(Coins)
    BY <1>1, <1>2 DEF PurseAssumption
  <2>5. PICK c, d \in Coins : c # d /\ f[c] = f[d]
    BY <1>2, <2>3, <2>4, FS_PigeonHole
  <2> QED
    BY <2>2, <2>5
<1>4. Coins \subseteq Coin
  BY NodeAssumption DEF Coin
<1> QED
  BY <1>3, <1>4 DEF PurseAssumption, SpentInv

LEMMA PurseInit == Init => PurseInv
<1> SUFFICES ASSUME Init PROVE PurseInv
  OBVIOUS
<1>1. /\ DOMAIN neoTx = {} /\ unspent = Coins /\ step["scanner"] = "none"
  BY DEF Init, NodeInit, PaymentsInit, Payer
<1> QED
  BY <1>1
     DEF PurseInv, SpentInv, Unused, PoolInv, PendingProofs, WalkInv, ChosenInv

LEMMA TxKinds ==
    ASSUME TypeInv
    PROVE  \A x \in DOMAIN neoTx : neoTx[x].kind \in {"proof", "keepers"}
BY DEF TypeInv, TypeOK, NodeTypeOK, NeoTx

(* No transfer is put aside and every change of keepers is sent.           *)
LEMMA PurseSuffices ==
    ASSUME PurseAssumption, TypeInv, KeyInv, SignedInv, PurseInv
    PROVE  ~PutAside /\ ~KeepersRefused
<1>1. PICK b : /\ Unused(b) /\ b \in Coin /\ b.value >= Fee /\ b \in unspent
  BY OneLeft DEF PurseInv
<1>2. Fee \in Nat
  BY NodeAssumption
<1>3. ASSUME NotEnough("scanner") PROVE FALSE
  <2>1. b \in avail["scanner"] /\ Worth(avail["scanner"]) < Fee
    BY <1>1, <1>3 DEF NotEnough, PurseInv, WalkInv
  <2>2. avail["scanner"] \in SUBSET Coin /\ IsFiniteSet(avail["scanner"])
    BY DEF TypeInv, PayersInv, TypeOK, PaymentsTypeOK, Payer
  <2>3. Worth(avail["scanner"]) \in Int /\ Worth(avail["scanner"]) >= Fee
    BY <1>1, <2>1, <2>2, OneInput
  <2> QED
    BY <1>2, <2>1, <2>3
<1>4. ASSUME TxRefused("scanner") PROVE FALSE
  BY <1>4 DEF TxRefused, PurseInv, ChosenInv, Free, Acceptable
<1>5. ~PutAside
  BY <1>3, <1>4 DEF PutAside, Fault, Fails, PurseAssumption
<1>6. ASSUME KeepersRefused PROVE FALSE
  <2>1. spc = "change" /\ ~(Affordable /\ Acceptable(InputsOf(unspent)))
    BY <1>6 DEF KeepersRefused, Fault, Fails, PurseAssumption
  <2>2. unspent \in SUBSET Coin /\ IsFiniteSet(unspent)
    BY DEF TypeInv, TypeOK, NodeTypeOK
  <2>3. Affordable /\ InputsOf(unspent) \subseteq unspent
    BY <1>1, <2>2, OneInput DEF Affordable
  <2>4. \A x \in DOMAIN neoTx : ~IsPending(x)
    BY <2>1, TxKinds
       DEF SignedInv, KeyInv, ChangeInv, PendingProofs, PendingKeepers
  <2> QED
    BY <2>1, <2>3, <2>4 DEF Acceptable
<1> QED
  BY <1>5, <1>6

LEMMA AtScanner ==
    ASSUME TypeInv, NEW s, NEW l, NEW a, At("scanner", s, l, a)
    PROVE  step'["scanner"] = s /\ left'["scanner"] = l /\ avail'["scanner"] = a
BY DEF TypeInv, TypeOK, PaymentsTypeOK, Payer, At

(* What the chain and the pool do not change.                              *)
LEMMA FreeSame ==
    ASSUME UNCHANGED <<unspent, neoTx>>
    PROVE  /\ \A c : Free(c)' <=> Free(c)
           /\ \A c : Unused(c)' <=> Unused(c)
           /\ PendingProofs' = PendingProofs
           /\ SpentInv => SpentInv'
BY DEF Free, Unused, PendingProofs, IsPending, SpentInv

LEMMA PurseQuiet ==
    ASSUME PurseInv, UNCHANGED <<unspent, neoTx, utxo, payVars>>,
           spc' # "pay" => step["scanner"] = "none"
    PROVE  PurseInv'
<1>1. \A c : Marked(c)' <=> Marked(c)
  BY DEF Marked, IsListed
<1>2. /\ PoolInv' /\ WalkInv' /\ ChosenInv'
  BY <1>1, FreeSame
     DEF PurseInv, payVars, PoolInv, WalkInv, ChosenInv, IsNextToWalk, IsListed
<1> QED
  BY <1>2, FreeSame DEF PurseInv

(* The scanner stops paying, or goes on outside of the marks.              *)
LEMMA PurseStop ==
    ASSUME TypeInv, PurseInv, step["scanner"] # "mark", StopPaying("scanner"),
           UNCHANGED <<unspent, neoTx, utxo>>
    PROVE  PurseInv'
<1>1. step'["scanner"] = "none"
  BY AtScanner DEF StopPaying
<1>2. \A c : Marked(c)' <=> Marked(c)
  BY DEF Marked, IsListed
<1> QED
  BY <1>1, <1>2, FreeSame DEF PurseInv, PoolInv, WalkInv, ChosenInv

(* What is marked was spent.                                               *)
LEMMA MarkedUsed ==
    ASSUME MarksInv, NEW c, Marked(c)
    PROVE  ~Unused(c)
BY DEF MarksInv, MarksJustified, Marked, IsListed, Unused

LEMMA PursePay ==
    ASSUME PurseAssumption, TypeInv, KeyInv, MarksInv, PurseInv,
           Pay
    PROVE  PurseInv'
<1> DEFINE g == "scanner"
<1>1. /\ UNCHANGED <<unspent, neoTx>> /\ spc = "pay" /\ spc' = "pay"
  BY DEF Pay, nodeVars, scanVars
<1>2. /\ \A c : Free(c)' <=> Free(c)
      /\ \A c : Unused(c)' <=> Unused(c)
      /\ PendingProofs' = PendingProofs /\ SpentInv'
      /\ \A x \in DOMAIN neoTx : neoTx'[x] = neoTx[x]
  BY <1>1, FreeSame DEF PurseInv
<1>3. CASE GetUnspents(g)
  <2>1. /\ step[g] = "none" /\ step'[g] = "walk" /\ left'[g] = unspent
        /\ avail'[g] = {} /\ UNCHANGED utxo
    BY <1>3, AtScanner DEF GetUnspents, neoStoreVars
  <2>2. \A c : Marked(c)' <=> Marked(c)
    BY <2>1 DEF Marked, IsListed
  <2>3. PendingKeepers = {}
    BY <1>1 DEF KeyInv, ChangeInv
  <2>4. \A x \in DOMAIN neoTx : IsPending(x) => x \in PendingProofs
    BY <2>3, TxKinds DEF PendingProofs, PendingKeepers
  <2>5. \A c \in unspent : Marked(c) \/ Free(c)
    BY <2>1, <2>4 DEF PurseInv, PoolInv, Free
  <2>6. PoolInv'
    BY <1>2, <2>1, <2>2 DEF PurseInv, PoolInv, PendingProofs
  <2>7. WalkInv'
    BY <1>2, <2>1, <2>2, <2>5 DEF PurseInv, WalkInv, SpentInv
  <2> QED
    BY <1>1, <1>2, <2>1, <2>6, <2>7 DEF PurseInv, ChosenInv
<1>4. CASE LookUp(g)
  <2>1. PICK c \in left[g] :
            /\ IsNextToWalk(c, g)
            /\ IF ~IsListed(c) THEN At(g, "list", left[g], avail[g])
                 ELSE At(g, "walk", left[g] \ {c},
                         IF utxo[c] THEN avail[g] ELSE avail[g] \cup {c})
    BY <1>4 DEF LookUp
  <2>2. step[g] = "walk" /\ UNCHANGED utxo
    BY <1>4 DEF LookUp, neoStoreVars
  <2>3. \A d : /\ Marked(d)' <=> Marked(d)
               /\ IsListed(d)' <=> IsListed(d)
    BY <2>2 DEF Marked, IsListed
  <2>4. CASE ~IsListed(c)
    <3>1. step'[g] = "list" /\ left'[g] = left[g] /\ avail'[g] = avail[g]
      BY <2>1, <2>4, AtScanner
    <3>2. \A d : IsNextToWalk(d, g) => d = c
      <4>1. ASSUME NEW d, IsNextToWalk(d, g), d # c PROVE FALSE
        <5>1. Earlier(c, d) /\ Earlier(d, c) /\ c \in Coin /\ d \in Coin
          BY <2>1, <4>1 DEF IsNextToWalk, TypeInv, TypeOK, PaymentsTypeOK, Payer
        <5> QED
          BY <5>1, NodeAssumption DEF Earlier, Coin
      <4> QED
        BY <4>1
    <3>3. \A d : IsNextToWalk(d, g)' => IsNextToWalk(d, g)
      BY <3>1 DEF IsNextToWalk
    <3>4. PoolInv'
      BY <1>2, <2>2, <2>3, <3>1 DEF PurseInv, PoolInv, PendingProofs
    <3>5. WalkInv'
      BY <1>2, <2>2, <2>3, <2>4, <3>1, <3>2, <3>3 DEF PurseInv, WalkInv
    <3> QED
      BY <1>1, <1>2, <3>1, <3>4, <3>5 DEF PurseInv, ChosenInv
  <2>5. CASE IsListed(c)
    <3>1. /\ step'[g] = "walk" /\ left'[g] = left[g] \ {c}
          /\ avail'[g] = IF utxo[c] THEN avail[g] ELSE avail[g] \cup {c}
      BY <2>1, <2>5, AtScanner
    <3>2. ~utxo[c] => Free(c)
      BY <2>1, <2>2 DEF PurseInv, WalkInv, Marked
    <3>3. utxo[c] => ~Unused(c)
      BY <2>5, MarkedUsed DEF Marked
    <3>4. PoolInv'
      BY <1>2, <2>2, <2>3, <3>1 DEF PurseInv, PoolInv, PendingProofs
    <3>5. WalkInv'
      BY <1>2, <2>2, <2>3, <3>1, <3>2, <3>3 DEF PurseInv, WalkInv
    <3> QED
      BY <1>1, <1>2, <3>1, <3>4, <3>5 DEF PurseInv, ChosenInv
  <2> QED
    BY <2>4, <2>5
<1>5. CASE ListUtxo(g)
  <2>1. PICK c \in left[g] :
            /\ IsNextToWalk(c, g)
            /\ PutUtxo(c, FALSE)
            /\ At(g, "walk", left[g] \ {c}, avail[g] \cup {c})
    BY <1>5 DEF ListUtxo
  <2>2. /\ step[g] = "list" /\ step'[g] = "walk"
        /\ left'[g] = left[g] \ {c} /\ avail'[g] = avail[g] \cup {c}
    BY <1>5, <2>1, AtScanner DEF ListUtxo
  <2>3. ~IsListed(c) /\ ~Marked(c)
    BY <2>1, <2>2 DEF PurseInv, WalkInv, Marked
  <2>4. \A d : Marked(d) => Marked(d)'
    BY <2>1, <2>3 DEF Marked, IsListed, PutUtxo
  <2>5. Free(c)
    BY <2>1, <2>2, <2>3 DEF PurseInv, WalkInv
  <2>6. PoolInv'
    BY <1>2, <2>2, <2>4 DEF PurseInv, PoolInv, PendingProofs
  <2>7. WalkInv'
    BY <1>2, <2>2, <2>4, <2>5 DEF PurseInv, WalkInv
  <2> QED
    BY <1>1, <1>2, <2>2, <2>6, <2>7 DEF PurseInv, ChosenInv
<1>6. CASE ChooseInputs(g)
  <2>1. /\ step[g] = "walk" /\ left[g] = {} /\ UNCHANGED utxo
        /\ step'[g] = "send" /\ left'[g] = InputsOf(avail[g])
    BY <1>6, AtScanner DEF ChooseInputs, neoStoreVars
  <2>2. \A c : Marked(c)' <=> Marked(c)
    BY <2>1 DEF Marked, IsListed
  <2>3. PICK b : Unused(b) /\ b.value >= Fee
    BY OneLeft DEF PurseInv
  <2>4. b \in avail[g] /\ avail[g] \in SUBSET Coin /\ IsFiniteSet(avail[g])
    BY <2>1, <2>3
       DEF PurseInv, WalkInv, TypeInv, PayersInv, TypeOK, PaymentsTypeOK, Payer
  <2>5. PICK c \in avail[g] : InputsOf(avail[g]) = {c}
    BY <2>3, <2>4, OneInput
  <2>6. Free(c)
    BY <2>1, <2>5 DEF PurseInv, WalkInv
  <2>7. PoolInv'
    BY <1>2, <2>1, <2>2 DEF PurseInv, PoolInv, PendingProofs
  <2>8. ChosenInv'
    BY <1>1, <1>2, <2>1, <2>5, <2>6 DEF ChosenInv
  <2> QED
    BY <1>2, <2>1, <2>7, <2>8 DEF PurseInv, WalkInv
<1> QED
  BY <1>3, <1>4, <1>5, <1>6 DEF Pay, MakeTx

(* A transaction that spends one free utxo is added to the pool.           *)
LEMMA PurseSubmit ==
    ASSUME TypeInv, Sent, SpentInv, NEW kind \in {"proof", "keepers"}, NEW k,
           NEW s, NEW c, NEW ch, Submit(kind, k, s, {c}, ch)
    PROVE  /\ SpentInv'
           /\ \A x \in PendingProofs' :
                  \/ x \in PendingProofs /\ neoTx'[x].inputs = neoTx[x].inputs
                  \/ kind = "proof" /\ neoTx'[x].inputs = {c}
<1>1. /\ DOMAIN neoTx' = DOMAIN neoTx \cup {Len(neoTx')}
      /\ neoTx'[Len(neoTx')].kind = kind
      /\ neoTx'[Len(neoTx')].inputs = {c}
      /\ \A x \in DOMAIN neoTx' : x # Len(neoTx') => x \in DOMAIN neoTx
      /\ \A x \in DOMAIN neoTx : neoTx'[x] = neoTx[x]
  BY SubmitSent
<1>2. unspent' = unspent
  BY DEF Submit
<1>3. \A d : Unused(d)' => Unused(d)
  BY <1>1 DEF Unused
<1>4. SpentInv'
  <2>1. \A x \in DOMAIN neoTx' : \E d : neoTx'[x].inputs = {d}
    BY <1>1 DEF SpentInv
  <2> QED
    BY <1>2, <1>3, <2>1 DEF SpentInv
<1>5. ASSUME NEW x \in PendingProofs'
      PROVE  \/ x \in PendingProofs /\ neoTx'[x].inputs = neoTx[x].inputs
             \/ kind = "proof" /\ neoTx'[x].inputs = {c}
  <2>1. CASE x = Len(neoTx')
    BY <1>1, <1>5, <2>1 DEF PendingProofs
  <2>2. CASE x # Len(neoTx')
    <3>1. x \in DOMAIN neoTx /\ neoTx'[x] = neoTx[x]
      BY <1>1, <1>5, <2>2 DEF PendingProofs
    <3> QED
      BY <1>5, <3>1 DEF PendingProofs, IsPending
  <2> QED
    BY <2>1, <2>2
<1> QED
  BY <1>4, <1>5

LEMMA PurseSend ==
    ASSUME TypeInv, CoverInv, PurseInv, Send
    PROVE  PurseInv'
<1> DEFINE g == "scanner"
<1>1. /\ step[g] = "send" /\ At(g, "mark", left[g], {})
      /\ Submit("proof", key, signed, left[g], Worth(left[g]) - Fee)
      /\ UNCHANGED <<utxo, spc>> /\ spc = "pay"
  BY DEF Send, SendTx, neoStoreVars, scanVars
<1>2. step'[g] = "mark" /\ left'[g] = left[g]
  BY <1>1, AtScanner
<1>3. PICK c : left[g] = {c}
  BY <1>1 DEF PurseInv, ChosenInv
<1>4. /\ SpentInv'
      /\ \A x \in PendingProofs' :
             \/ x \in PendingProofs /\ neoTx'[x].inputs = neoTx[x].inputs
             \/ neoTx'[x].inputs = {c}
  <2> DEFINE ch == Worth(left[g]) - Fee
  <2>1. Submit("proof", key, signed, {c}, ch)
    BY <1>1, <1>3
  <2>2. Sent /\ SpentInv
    BY DEF CoverInv, PurseInv
  <2> HIDE DEF ch
  <2> QED
    BY <2>1, <2>2, PurseSubmit
<1>5. \A d : Marked(d)' <=> Marked(d)
  BY <1>1 DEF Marked, IsListed
<1>6. \A x \in PendingProofs : \A d \in neoTx[x].inputs : Marked(d)
  BY <1>1 DEF PurseInv, PoolInv
<1>7. PoolInv'
  BY <1>2, <1>3, <1>4, <1>5, <1>6 DEF PoolInv
<1> QED
  BY <1>1, <1>2, <1>3, <1>4, <1>7 DEF PurseInv, WalkInv, ChosenInv

LEMMA PurseMark ==
    ASSUME TypeInv, PurseInv, Mark
    PROVE  PurseInv'
<1> DEFINE g == "scanner"
<1>1. step[g] = "mark" /\ UNCHANGED <<unspent, neoTx>>
  BY DEF Mark, MarkOne, MarkLast, MarkSpent, nodeVars
<1>2. PICK c : left[g] = {c}
  BY <1>1 DEF PurseInv, ChosenInv
<1>3. MarkLast(g)
  BY <1>2 DEF Mark, MarkOne
<1>4. PutUtxo(c, TRUE) /\ StopPaying(g)
  BY <1>2, <1>3 DEF MarkLast, MarkSpent
<1>5. step'[g] = "none"
  BY <1>4, AtScanner DEF StopPaying
<1>6. Marked(c)' /\ \A d : Marked(d) => Marked(d)'
  BY <1>4 DEF Marked, IsListed, PutUtxo
<1>7. PoolInv'
  BY <1>1, <1>2, <1>6, FreeSame DEF PurseInv, PoolInv
<1> QED
  BY <1>1, <1>5, <1>7, FreeSame DEF PurseInv, WalkInv, ChosenInv

LEMMA PurseKeepers ==
    ASSUME PurseAssumption, TypeInv, CoverInv, PurseInv, SendKeepers
    PROVE  PurseInv'
<1>1. /\ spc = "change" /\ spc' = "wait" /\ UNCHANGED <<utxo, step, left, avail>>
      /\ Submit("keepers", NoKey, neoSyncHeight, InputsOf(unspent),
                Worth(InputsOf(unspent)) - Fee)
  BY DEF SendKeepers, neoStoreVars, payVars
<1>2. PICK c : InputsOf(unspent) = {c}
  <2>1. unspent \in SUBSET Coin /\ IsFiniteSet(unspent)
    BY DEF TypeInv, TypeOK, NodeTypeOK
  <2> QED
    BY <2>1, OneLeft, OneInput DEF PurseInv
<1>3. /\ SpentInv'
      /\ \A x \in PendingProofs' :
             x \in PendingProofs /\ neoTx'[x].inputs = neoTx[x].inputs
  <2> DEFINE ch == Worth(InputsOf(unspent)) - Fee
  <2>1. Submit("keepers", NoKey, neoSyncHeight, {c}, ch)
    BY <1>1, <1>2
  <2>2. Sent /\ SpentInv
    BY DEF CoverInv, PurseInv
  <2> HIDE DEF ch
  <2> QED
    BY <2>1, <2>2, PurseSubmit
<1>4. \A d : Marked(d)' <=> Marked(d)
  BY <1>1 DEF Marked, IsListed
<1>5. step["scanner"] = "none"
  BY <1>1 DEF PurseInv, ChosenInv
<1>6. PoolInv'
  BY <1>1, <1>3, <1>4, <1>5 DEF PurseInv, PoolInv
<1> QED
  BY <1>1, <1>3, <1>5, <1>6 DEF PurseInv, WalkInv, ChosenInv

LEMMA PurseScanner ==
    ASSUME PurseAssumption, TypeInv, CoverInv, KeyInv, SignedInv, MarksInv,
           PurseInv, Scanner
    PROVE  PurseInv'
<1>1. ~PutAside /\ ~KeepersRefused
  BY PurseSuffices
<1>2. ~StoreNeoRetry /\ ~MarkEnds
  BY DEF StoreNeoRetry, SignedInv, MarkEnds, MarkFails, Fault, Fails,
         PurseAssumption
<1>3. CASE PayFails
  <2>1. step["scanner"] = "none" /\ StopPaying("scanner")
    BY <1>3 DEF PayFails, MakeTxFails, Loss, Fails, PurseAssumption
  <2> QED
    BY <1>3, <2>1, PurseStop DEF PayFails, nodeVars, neoStoreVars
<1>4. CASE \/ GetBlockHeight \/ EndScan \/ GetEvents \/ GetEventsFails
           \/ \E p \in todo : Visit(p)
           \/ FinishBlock \/ GetBlockFails \/ FinishKeyBlock \/ Settled
           \/ KeepersChanged
  <2>1. UNCHANGED <<nodeVars, neoStoreVars, payVars>> /\ spc # "pay"
    BY <1>4
       DEF GetBlockHeight, EndScan, GetEvents, GetEventsFails, LeaveScan,
           Visit, TakeTransfer, SkipForeign, GetProofFails, Pass, AtWork,
           FinishBlock, GetBlockFails, FinishKeyBlock, Settled, KeepersChanged,
           BlockDone
  <2> QED
    BY <2>1, PurseQuiet DEF PurseInv, ChosenInv, nodeVars, neoStoreVars
<1> QED
  BY <1>1, <1>2, <1>3, <1>4, PursePay, PurseSend, PurseMark, PurseKeepers
     DEF Scanner, ScannerStep, SyncProof, EndBlock

LEMMA PurseExecuted ==
    ASSUME TypeInv, CoverInv, PurseInv, UNCHANGED Relayer,
           NEW x \in DOMAIN neoTx, NeoExecutes(x)
    PROVE  PurseInv'
<1> DEFINE done == IF Executable(neoTx[x]) THEN "ok" ELSE "fault"
           tx == [neoTx[x] EXCEPT !.status = done]
<1>1. neoTx \in Seq(NeoTx) /\ neoTx[x] \in NeoTx
  BY DEF TypeInv, TypeOK, NodeTypeOK
<1>2. tx.status = done /\ done # "pending" /\ tx.inputs = neoTx[x].inputs
      /\ tx.kind = neoTx[x].kind
  BY <1>1 DEF NeoTx
<1>3. neoTx' = [neoTx EXCEPT ![x] = tx]
  BY DEF NeoExecutes
<1> HIDE DEF tx, done
<1>4. /\ DOMAIN neoTx' = DOMAIN neoTx /\ neoTx'[x].status # "pending"
      /\ \A y \in DOMAIN neoTx : y # x => neoTx'[y] = neoTx[y]
      /\ \A y \in DOMAIN neoTx : neoTx'[y].inputs = neoTx[y].inputs
  BY <1>1, <1>2, <1>3
<1>5. IsPending(x) /\ \A c : c \in unspent /\ c \notin neoTx[x].inputs => c \in unspent'
  BY DEF NeoExecutes
<1>6. \A y \in DOMAIN neoTx' : IsPending(y)' => IsPending(y)
  BY <1>4 DEF IsPending
<1>7. PendingProofs' \subseteq PendingProofs
  BY <1>4 DEF PendingProofs, IsPending
<1>8. \A c : Unused(c)' <=> Unused(c)
  BY <1>4 DEF Unused
<1>9. \A c : Free(c) => Free(c)'
  BY <1>4, <1>5, <1>6 DEF Free
<1>10. \A c : Unused(c) => c \notin neoTx[x].inputs
  BY DEF Unused
<1>11. SpentInv'
  BY <1>4, <1>5, <1>8, <1>10 DEF PurseInv, SpentInv
<1>12. UNCHANGED <<utxo, step, left, avail, spc>>
  BY DEF Relayer, neoStoreVars, payVars, scanVars
<1>13. \A c : Marked(c)' <=> Marked(c)
  BY <1>12 DEF Marked, IsListed
<1>14. PoolInv'
  BY <1>4, <1>7, <1>12, <1>13 DEF PurseInv, PoolInv, PendingProofs
<1>15. WalkInv'
  BY <1>8, <1>9, <1>12, <1>13 DEF PurseInv, WalkInv, IsNextToWalk, IsListed
<1>16. ChosenInv'
  BY <1>9, <1>12 DEF PurseInv, ChosenInv
<1> QED
  BY <1>11, <1>14, <1>15, <1>16 DEF PurseInv

LEMMA PurseStep ==
    ASSUME PurseAssumption, KeepersAssumption, TypeInv, CoverInv, KeyInv,
           SignedInv, MarksInv, PurseInv, [Next]_vars
    PROVE  PurseInv'
<1>1. CASE UNCHANGED vars
  <2>1. UNCHANGED <<unspent, neoTx, utxo, payVars, spc>>
    BY <1>1 DEF vars, nodeVars, neoStoreVars, payVars, scanVars
  <2> QED
    BY <2>1, PurseQuiet DEF PurseInv, ChosenInv
<1>2. CASE Retrier
  <2>1. GetAllNeoRetry \/ EndRetry
    BY <1>2
       DEF SignedInv, Retrier, RetrierStep, RetryPay, RetryStays, RetryRefused,
           DropRecord, Resend, RetryMark, RetryMarkEnds, DeleteRecord
  <2>2. UNCHANGED <<unspent, neoTx, utxo, payVars, spc>>
    BY <1>2, <2>1
       DEF GetAllNeoRetry, EndRetry, Retrier, nodeVars, neoStoreVars, scanVars
  <2> QED
    BY <2>2, PurseQuiet DEF PurseInv, ChosenInv
<1>3. CASE NeoTrouble \/ PolyBlock
  <2>1. UNCHANGED <<unspent, neoTx, Relayer>>
    BY <1>3
       DEF NeoTrouble, NeoEvicts, OtherExecutes, Loss, Fault, Fails,
           KeepersAssumption, PolyBlock, PolyGrow
  <2>2. UNCHANGED <<unspent, neoTx, utxo, payVars, spc>>
    BY <2>1 DEF Relayer, neoStoreVars, scanVars
  <2> QED
    BY <2>2, PurseQuiet DEF PurseInv, ChosenInv
<1>4. ~Crash
  BY DEF Crash, Fault, Fails, KeepersAssumption
<1> QED
  BY <1>1, <1>2, <1>3, <1>4, PurseScanner, PurseExecuted DEF Next, Neo

(* With such a purse no transfer ever waits for a utxo and every change of *)
(* keepers is sent: the utxos GetBalance returns, and those the SDK finds  *)
(* for the change, include one that pays and that no transaction spends,   *)
(* although the node still lists what the pool has spent.                  *)
THEOREM PurseLasts ==
    ASSUME PurseAssumption, KeepersAssumption
    PROVE  Spec => [][~KeepersRefused]_vars /\ [][~PutAside]_vars
<1> DEFINE Inv == /\ TypeInv /\ CoverInv /\ KeyInv
                  /\ SignedInv /\ MarksInv /\ PurseInv
<1>1. Init => Inv
  BY TypeInit, CoverInit, KeyInit, SignedInit, MarksInit, PurseInit
<1>2. Inv => [~KeepersRefused]_vars /\ [~PutAside]_vars
  BY PurseSuffices
<1>3. Inv /\ [Next]_vars => Inv'
  <2> SUFFICES ASSUME Inv, [Next]_vars PROVE Inv'
    OBVIOUS
  <2>1. [~KeepersRefused]_vars /\ [~PutAside]_vars
    BY <1>2
  <2> QED
    BY <2>1, TypeStep, CoverStep, KeyStep, SignedStep, MarksStep, PurseStep
<1> QED
  BY <1>1, <1>2, <1>3, PTL DEF Spec

(* So Neo knows the keepers of the blocks behind the cursor,               *)
THEOREM PurseKeepersReach ==
    ASSUME PurseAssumption, KeepersAssumption
    PROVE  Spec => []KeepersSynced
BY PurseLasts, KeepersReach, PTL

(* every proof in its pool is signed by the keepers it knows,              *)
THEOREM PurseProofsVerified ==
    ASSUME PurseAssumption, KeepersAssumption
    PROVE  Spec => []ProofsVerify
BY PurseLasts, ProofsVerified, PTL

(* no transfer is forgotten, whatever changes of the peers it meets,       *)
THEOREM PurseEpochsKept ==
    ASSUME PurseAssumption, KeepersAssumption
    PROVE  Spec => []NothingForgotten
BY PurseLasts, EpochsKept, PTL

(* and the relayer keeps the promise of the ledger.                        *)
THEOREM PurseEpochsLedger ==
    ASSUME PurseAssumption, KeepersAssumption
    PROVE  Spec => LedgerKept
BY PurseLasts, EpochsLedger, PTL

=============================================================================
