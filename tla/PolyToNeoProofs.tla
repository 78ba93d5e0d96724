-------------------------- MODULE PolyToNeoProofs ---------------------------
(***************************************************************************)
(* Safety of PolyToNeo, proved for every Poly chain, every purse, every    *)
(* bound and every set of failures the theorem does not exclude.           *)
(***************************************************************************)
EXTENDS PolyToNeo, CoinChoiceProofs, TLAPS

(* neoTx is a list of transactions.  Nothing is said here of their fields, *)
(* for the change depends on a sum over a set.                             *)
TxOf(K, S, I, C) ==
    [kind : {"proof", "keepers"}, key : K, signed : S, inputs : I, change : C,
     status : Status]

Sent == \E K, S, I, C : neoTx \in Seq(TxOf(K, S, I, C))

(* What was sent is never taken back, and only its status changes.         *)
TxKept(x) ==
    /\ x \in DOMAIN neoTx'
    /\ neoTx'[x].kind = neoTx[x].kind
    /\ neoTx'[x].key = neoTx[x].key
    /\ neoTx'[x].signed = neoTx[x].signed
    /\ neoTx'[x].inputs = neoTx[x].inputs

Grows == \A x \in DOMAIN neoTx : TxKept(x)

LEMMA SeqLarger ==
    ASSUME NEW A, NEW B, A \subseteq B, NEW s \in Seq(A)
    PROVE  s \in Seq(B)
OBVIOUS

LEMMA SubmitSent ==
    ASSUME Sent, NEW kind \in {"proof", "keepers"}, NEW k, NEW s, NEW ins,
           NEW ch, Submit(kind, k, s, ins, ch)
    PROVE  /\ Sent' /\ Grows
           /\ DOMAIN neoTx' = DOMAIN neoTx \cup {Len(neoTx')}
           /\ neoTx'[Len(neoTx')].kind = kind
           /\ neoTx'[Len(neoTx')].key = k
           /\ neoTx'[Len(neoTx')].signed = s
           /\ neoTx'[Len(neoTx')].inputs = ins
           /\ \A x \in DOMAIN neoTx' : x # Len(neoTx') => x \in DOMAIN neoTx
           /\ neoTx'[Len(neoTx')].status = "pending"
           /\ \A x \in DOMAIN neoTx : neoTx'[x] = neoTx[x]
           /\ Len(neoTx') \in Nat
           /\ \A x \in DOMAIN neoTx' : x \in 1..Len(neoTx')
           /\ Len(neoTx') \notin DOMAIN neoTx
<1> DEFINE tx == [kind |-> kind, key |-> k, signed |-> s, inputs |-> ins,
                  change |-> ch, status |-> "pending"]
<1>1. PICK K, S, I, C : neoTx \in Seq(TxOf(K, S, I, C))
  BY DEF Sent
<1> DEFINE T == TxOf(K \cup {k}, S \cup {s}, I \cup {ins}, C \cup {ch})
<1>2. tx \in T
  BY DEF TxOf, Status
<1>3. TxOf(K, S, I, C) \subseteq T
  BY DEF TxOf
<1>4. neoTx \in Seq(T)
  <2> HIDE DEF T
  <2> QED
    BY <1>1, <1>3, SeqLarger
<1>5. neoTx' = Append(neoTx, tx)
  BY DEF Submit
<1> HIDE DEF T, tx
<1>6. /\ neoTx' \in Seq(T) /\ Len(neoTx') = Len(neoTx) + 1
      /\ DOMAIN neoTx' = 1..(Len(neoTx) + 1) /\ DOMAIN neoTx = 1..Len(neoTx)
      /\ \A x \in DOMAIN neoTx : neoTx'[x] = neoTx[x]
      /\ neoTx'[Len(neoTx')] = tx
      /\ Len(neoTx) \in Nat
  BY <1>2, <1>4, <1>5
<1>7. Sent'
  BY <1>6 DEF Sent, T
<1>8. Grows
  BY <1>6 DEF Grows, TxKept
<1>9. DOMAIN neoTx' = DOMAIN neoTx \cup {Len(neoTx')}
  BY <1>6
<1> QED
  BY <1>6, <1>7, <1>8, <1>9 DEF tx

LEMMA StatusSent ==
    ASSUME Sent, NEW x \in DOMAIN neoTx, NEW s \in Status,
           neoTx' = [neoTx EXCEPT ![x].status = s]
    PROVE  Sent' /\ Grows
<1>1. PICK K, S, I, C : neoTx \in Seq(TxOf(K, S, I, C))
  BY DEF Sent
<1> DEFINE T == TxOf(K, S, I, C)
           tx == [neoTx[x] EXCEPT !.status = s]
<1>2. neoTx[x] \in T
  BY <1>1
<1>3. /\ tx \in T
      /\ tx.kind = neoTx[x].kind /\ tx.key = neoTx[x].key
      /\ tx.signed = neoTx[x].signed /\ tx.inputs = neoTx[x].inputs
  BY <1>2 DEF TxOf
<1>4. neoTx' = [neoTx EXCEPT ![x] = tx]
  OBVIOUS
<1> HIDE DEF T, tx
<1>5. /\ neoTx' \in Seq(T) /\ DOMAIN neoTx' = DOMAIN neoTx
      /\ neoTx'[x] = tx
      /\ \A y \in DOMAIN neoTx : y # x => neoTx'[y] = neoTx[y]
  BY <1>1, <1>3, <1>4 DEF T
<1>6. Sent'
  BY <1>5 DEF Sent, T
<1>7. Grows
  BY <1>3, <1>5 DEF Grows, TxKept
<1> QED
  BY <1>6, <1>7

LEMMA SameSent ==
    ASSUME Sent, neoTx' = neoTx
    PROVE  Sent' /\ Grows
BY DEF Sent, Grows, TxKept

-----------------------------------------------------------------------------
(* MarksJustified                                                          *)

PayersKnown == DOMAIN step = Payer /\ DOMAIN left = Payer

(* The utxos that are still to be marked are inputs of what was sent.      *)
MarkingInv ==
    \A g \in Payer : step[g] = "mark" =>
        \E x \in DOMAIN neoTx : left[g] \subseteq neoTx[x].inputs

MarksInv == Sent /\ PayersKnown /\ MarkingInv /\ MarksJustified

LEMMA MarksQuiet ==
    ASSUME MarksInv, UNCHANGED <<step, left, utxo>>, Sent', Grows
    PROVE  MarksInv'
BY DEF MarksInv, PayersKnown, MarkingInv, MarksJustified, Grows, TxKept

(* A step that ends outside of the marks.                                  *)
LEMMA MarksStop ==
    ASSUME MarksInv, NEW g \in Payer, NEW s, NEW coins, NEW seen, s # "mark",
           At(g, s, coins, seen), neoTx' = neoTx, MarksJustified'
    PROVE  MarksInv'
<1>1. Sent'
  BY SameSent DEF MarksInv
<1>2. PayersKnown'
  BY DEF MarksInv, PayersKnown, At
<1>3. MarkingInv'
  BY DEF MarksInv, PayersKnown, MarkingInv, At
<1> QED
  BY <1>1, <1>2, <1>3 DEF MarksInv

LEMMA MarksSame ==
    ASSUME MarksJustified, utxo' = utxo, neoTx' = neoTx
    PROVE  MarksJustified'
BY DEF MarksJustified

LEMMA MarksPay ==
    ASSUME MarksInv, NEW g \in Payer, MakeTx(g), neoTx' = neoTx
    PROVE  MarksInv'
<1>1. CASE GetUnspents(g)
  BY <1>1, MarksStop, MarksSame DEF GetUnspents, MarksInv, neoStoreVars
<1>2. CASE LookUp(g)
  <2>1. MarksJustified'
    BY <1>2, MarksSame DEF LookUp, MarksInv, neoStoreVars
  <2>. QED
    BY <1>2, <2>1, MarksStop DEF LookUp
<1>3. CASE ListUtxo(g)
  <2>1. PICK c : PutUtxo(c, FALSE) /\ At(g, "walk", left[g] \ {c}, avail[g] \cup {c})
    BY <1>3 DEF ListUtxo
  <2>2. MarksJustified'
    BY <2>1 DEF MarksInv, MarksJustified, PutUtxo
  <2>. QED
    BY <2>1, <2>2, MarksStop
<1>4. CASE ChooseInputs(g)
  BY <1>4, MarksStop, MarksSame DEF ChooseInputs, MarksInv, neoStoreVars
<1> QED
  BY <1>1, <1>2, <1>3, <1>4 DEF MakeTx

LEMMA MarksEnd ==
    ASSUME MarksInv, NEW g \in Payer, StopPaying(g), utxo' = utxo,
           neoTx' = neoTx
    PROVE  MarksInv'
BY MarksStop, MarksSame DEF StopPaying, MarksInv

LEMMA MarksSend ==
    ASSUME MarksInv, NEW g \in Payer, NEW k, NEW s, SendTx(g, k, s),
           utxo' = utxo
    PROVE  MarksInv'
<1> DEFINE ch == Worth(left[g]) - Fee
<1>1. Submit("proof", k, s, left[g], ch) /\ At(g, "mark", left[g], {})
  BY DEF SendTx
<1> HIDE DEF ch
<1>2. /\ Sent' /\ Grows /\ Len(neoTx') \in DOMAIN neoTx'
      /\ neoTx'[Len(neoTx')].inputs = left[g]
  BY <1>1, SubmitSent DEF MarksInv
<1>3. PayersKnown'
  BY <1>1 DEF MarksInv, PayersKnown, At
<1>4. MarkingInv'
  <2> SUFFICES ASSUME NEW f \in Payer, step'[f] = "mark"
               PROVE  \E x \in DOMAIN neoTx' : left'[f] \subseteq neoTx'[x].inputs
    BY DEF MarkingInv
  <2>1. CASE f = g
    <3>1. left'[f] = left[g]
      BY <1>1, <2>1 DEF MarksInv, PayersKnown, At
    <3> QED
      BY <1>2, <3>1
  <2>2. CASE f # g
    <3>1. left'[f] = left[f] /\ step[f] = "mark"
      BY <1>1, <2>2 DEF MarksInv, PayersKnown, At
    <3> QED
      BY <1>2, <3>1 DEF MarksInv, MarkingInv, Grows, TxKept
  <2> QED
    BY <2>1, <2>2
<1>5. MarksJustified'
  BY <1>2 DEF MarksInv, MarksJustified, Grows, TxKept
<1> QED
  BY <1>2, <1>3, <1>4, <1>5 DEF MarksInv

LEMMA MarksMark ==
    ASSUME MarksInv, NEW g \in Payer, MarkOne(g) \/ MarkLast(g), neoTx' = neoTx
    PROVE  MarksInv'
<1>1. PICK c \in left[g] : MarkSpent(g, c)
  BY DEF MarkOne, MarkLast
<1>2. PICK x \in DOMAIN neoTx : left[g] \subseteq neoTx[x].inputs
  BY <1>1 DEF MarkSpent, MarksInv, MarkingInv
<1>3. MarksJustified'
  <2> SUFFICES ASSUME NEW d \in DOMAIN utxo', utxo'[d]
               PROVE  \E y \in DOMAIN neoTx : d \in neoTx[y].inputs
    BY DEF MarksJustified
  <2>1. CASE d = c
    BY <1>1, <1>2, <2>1
  <2>2. CASE d # c
    BY <1>1, <2>2 DEF MarkSpent, PutUtxo, MarksInv, MarksJustified
  <2> QED
    BY <2>1, <2>2
<1>4. CASE MarkLast(g)
  BY <1>3, <1>4, MarksStop DEF MarkLast, StopPaying
<1>5. CASE MarkOne(g)
  <2>1. PICK d \in left[g] : At(g, "mark", left[g] \ {d}, {})
    BY <1>5 DEF MarkOne
  <2>2. Sent'
    BY SameSent DEF MarksInv
  <2>3. PayersKnown'
    BY <2>1 DEF MarksInv, PayersKnown, At
  <2>4. MarkingInv'
    BY <1>2, <2>1 DEF MarksInv, PayersKnown, MarkingInv, At
  <2> QED
    BY <1>3, <2>2, <2>3, <2>4 DEF MarksInv
<1> QED
  BY <1>4, <1>5

LEMMA MarksScanner ==
    ASSUME MarksInv, ScannerStep
    PROVE  MarksInv'
<1> DEFINE g == "scanner"
<1>1. g \in Payer
  BY DEF Payer
<1>2. CASE Pay
  BY <1>1, <1>2, MarksPay DEF Pay, nodeVars
<1>3. CASE PayFails \/ PutAside \/ MarkEnds
  BY <1>1, <1>3, MarksEnd
     DEF PayFails, PutAside, MarkEnds, MakeTxFails, NotEnough, TxRefused,
         SendFails, MarkFails, nodeVars, neoStoreVars
<1>4. CASE Send
  BY <1>1, <1>4, MarksSend DEF Send, neoStoreVars
<1>5. CASE Mark
  BY <1>1, <1>5, MarksMark DEF Mark, nodeVars
<1>6. CASE SendKeepers
  <2>1. PICK ins : Submit("keepers", NoKey, neoSyncHeight, ins,
                          Worth(ins) - Fee)
    BY <1>6 DEF SendKeepers
  <2>2. Sent' /\ Grows
    BY <2>1, SubmitSent DEF MarksInv
  <2> QED
    BY <1>6, <2>2, MarksQuiet DEF SendKeepers, neoStoreVars, payVars
<1>7. CASE GetBlockHeight \/ EndScan \/ GetEvents \/ GetEventsFails
           \/ (\E p \in todo : Visit(p)) \/ StoreNeoRetry
           \/ FinishBlock \/ GetBlockFails \/ FinishKeyBlock \/ Settled
           \/ KeepersRefused \/ KeepersChanged
  <2>1. UNCHANGED <<nodeVars, payVars, utxo>>
    BY <1>7
       DEF GetBlockHeight, EndScan, GetEvents, GetEventsFails, LeaveScan, Visit,
           TakeTransfer, SkipForeign, GetProofFails, Pass, StoreNeoRetry,
           FinishBlock, GetBlockFails, FinishKeyBlock, Settled, KeepersRefused,
           KeepersChanged, neoStoreVars
  <2> QED
    BY <2>1, MarksQuiet, SameSent DEF MarksInv, nodeVars, payVars
<1> QED
  BY <1>2, <1>3, <1>4, <1>5, <1>6, <1>7 DEF ScannerStep, SyncProof, EndBlock

LEMMA MarksRetrier ==
    ASSUME MarksInv, RetrierStep
    PROVE  MarksInv'
<1> DEFINE g == "retrier"
<1>1. g \in Payer
  BY DEF Payer
<1>2. CASE RetryPay
  BY <1>1, <1>2, MarksPay DEF RetryPay, nodeVars
<1>3. CASE RetryStays \/ RetryRefused \/ RetryMarkEnds
  BY <1>1, <1>3, MarksEnd
     DEF RetryStays, RetryRefused, RetryMarkEnds, MakeTxFails, NotEnough,
         TxRefused, SendFails, MarkFails, nodeVars, neoStoreVars
<1>4. CASE Resend
  BY <1>1, <1>4, MarksSend DEF Resend, neoStoreVars
<1>5. CASE RetryMark
  BY <1>1, <1>5, MarksMark DEF RetryMark, nodeVars
<1>6. CASE GetAllNeoRetry \/ (\E r \in retries : TakeRecord(r) \/ RetryLater(r))
           \/ DropRecord \/ DeleteRecord \/ EndRetry
  <2>1. UNCHANGED <<nodeVars, payVars, utxo>>
    BY <1>6
       DEF GetAllNeoRetry, TakeRecord, RetryLater, DropRecord, DeleteRecord,
           EndRetry, neoStoreVars
  <2> QED
    BY <2>1, MarksQuiet, SameSent DEF MarksInv, nodeVars, payVars
<1> QED
  BY <1>2, <1>3, <1>4, <1>5, <1>6 DEF RetrierStep

(* The chains keep what was sent.                                          *)
LEMMA ChainsSent ==
    ASSUME Sent, Neo \/ NeoTrouble \/ PolyBlock
    PROVE  Sent' /\ Grows
<1>1. CASE Neo
  BY <1>1, StatusSent DEF Neo, NeoExecutes, Status
<1>2. CASE NeoTrouble
  BY <1>2, StatusSent, SameSent DEF NeoTrouble, NeoEvicts, OtherExecutes, Status
<1>3. CASE PolyBlock
  BY <1>3, SameSent DEF PolyBlock, PolyGrow
<1> QED
  BY <1>1, <1>2, <1>3

LEMMA MarksStep ==
    ASSUME MarksInv, [Next]_vars
    PROVE  MarksInv'
<1>1. CASE Scanner
  BY <1>1, MarksScanner DEF Scanner
<1>2. CASE Retrier
  BY <1>2, MarksRetrier DEF Retrier
<1>3. CASE Neo \/ NeoTrouble \/ PolyBlock
  BY <1>3, ChainsSent, MarksQuiet
     DEF MarksInv, Neo, NeoTrouble, PolyBlock, Relayer, neoStoreVars, payVars
<1>4. CASE Crash
  <2>1. Sent' /\ neoTx' = neoTx /\ utxo' = utxo
    BY <1>4, SameSent DEF Crash, MarksInv, nodeVars, neoStoreVars
  <2>2. PayersKnown' /\ MarkingInv'
    BY <1>4 DEF Crash, PayersKnown, MarkingInv
  <2> QED
    BY <2>1, <2>2, MarksSame DEF MarksInv
<1>5. CASE UNCHANGED vars
  BY <1>5, SameSent, MarksQuiet
     DEF vars, nodeVars, neoStoreVars, payVars, MarksInv
<1> QED
  BY <1>1, <1>2, <1>3, <1>4, <1>5 DEF Next

LEMMA MarksInit == Init => MarksInv
<1> SUFFICES ASSUME Init PROVE MarksInv
  OBVIOUS
<1>1. neoTx \in Seq(TxOf({}, {}, {}, {}))
  BY DEF Init, NodeInit
<1> QED
  BY <1>1
     DEF Init, NodeInit, NeoStoreInit, PaymentsInit, MarksInv, Sent,
         PayersKnown, MarkingInv, MarksJustified

(* Whatever fails and however the two goroutines interleave, a utxo that   *)
(* bucket Utxo calls spent is an input of a transaction the relayer sent.  *)
THEOREM MarksCorrect == Spec => []MarksJustified
<1>1. MarksInv => MarksJustified
  BY DEF MarksInv
<1> QED
  BY <1>1, MarksInit, MarksStep, PTL DEF Spec

-----------------------------------------------------------------------------
(* ProofsCover                                                             *)

Emitted(k, h) == h \in Heights /\ k \in KeysOf[h]

Covered(k, h) == h \in Int /\ h <= polyHeight /\ k \in KeysUpTo(h - 1)

ChainsCover == polyHeight \in Heights /\ synced \in Int

(* The scan stays below the height of the chain, and the proof at hand     *)
(* covers the transfer at hand.                                            *)
ScanCover ==
    /\ neoSyncHeight \in Nat
    /\ n \in Nat /\ n <= polyHeight
    /\ spc \notin {"count", "block"} => neoSyncHeight < n
    /\ spc \in {"pay", "putRetry"} =>
           Emitted(key, neoSyncHeight) /\ Covered(key, signed)

RetryCover ==
    /\ \A r \in neoRetry \cup retries : Emitted(r.key, r.height)
    /\ rpc = "pay" => Covered(cur.key, curSigned)

TxCover ==
    \A x \in DOMAIN neoTx :
        /\ neoTx[x].signed \in Int
        /\ neoTx[x].kind = "proof" => Covered(neoTx[x].key, neoTx[x].signed)

CoverInv == Sent /\ ChainsCover /\ ScanCover /\ RetryCover /\ TxCover

LEMMA HeightFacts ==
    ASSUME CoverInv
    PROVE  /\ polyHeight \in Nat /\ synced \in Int
           /\ neoSyncHeight \in Nat /\ n \in Nat
           /\ spc \notin {"count", "block"} => neoSyncHeight \in Heights
BY ChainAssumption DEF CoverInv, ChainsCover, ScanCover, Heights

LEMMA SignedCovers ==
    ASSUME NEW h \in Heights, NEW k \in KeysOf[h], NEW last \in Int,
           polyHeight \in Int, SignedHeader(h, last) <= polyHeight
    PROVE  Covered(k, SignedHeader(h, last))
<1> DEFINE sg == SignedHeader(h, last)
<1>1. sg \in Int /\ h <= sg - 1
  BY ChainAssumption DEF SignedHeader, Heights
<1>2. k \in KeysUpTo(sg - 1)
  BY <1>1 DEF KeysUpTo
<1> QED
  BY <1>1, <1>2 DEF Covered

(* What is covered stays so when the chains grow.                          *)
LEMMA TxCoverStays ==
    ASSUME TxCover, Grows, polyHeight \in Int, polyHeight' \in Int,
           polyHeight <= polyHeight', DOMAIN neoTx' = DOMAIN neoTx
    PROVE  TxCover'
BY DEF TxCover, Grows, TxKept, Covered

LEMMA TxCoverSame ==
    ASSUME TxCover, UNCHANGED <<neoTx, polyHeight>>
    PROVE  TxCover'
BY DEF TxCover, Covered

LEMMA TxCoverSubmit ==
    ASSUME CoverInv, NEW kind \in {"proof", "keepers"}, NEW k, NEW s \in Int,
           NEW ins, NEW ch, Submit(kind, k, s, ins, ch),
           kind = "proof" => Covered(k, s)
    PROVE  Sent' /\ ChainsCover' /\ TxCover' /\ polyHeight' = polyHeight
<1>1. /\ Sent' /\ Grows /\ UNCHANGED <<polyHeight, synced>>
      /\ neoTx'[Len(neoTx')].kind = kind /\ neoTx'[Len(neoTx')].key = k
      /\ neoTx'[Len(neoTx')].signed = s
      /\ \A x \in DOMAIN neoTx' : x # Len(neoTx') => x \in DOMAIN neoTx
  BY SubmitSent DEF CoverInv, Submit
<1>2. ASSUME NEW x \in DOMAIN neoTx'
      PROVE  /\ neoTx'[x].signed \in Int
             /\ neoTx'[x].kind = "proof" =>
                    Covered(neoTx'[x].key, neoTx'[x].signed)
  <2>1. CASE x = Len(neoTx')
    BY <1>1, <2>1
  <2>2. CASE x # Len(neoTx')
    BY <1>1, <2>2 DEF CoverInv, TxCover, Grows, TxKept
  <2> QED
    BY <2>1, <2>2
<1> QED
  BY <1>1, <1>2 DEF CoverInv, ChainsCover, TxCover, Covered

(* A step of a goroutine that sends nothing.                               *)
LEMMA QuietCover ==
    ASSUME CoverInv, nodeVars' = nodeVars
    PROVE  Sent' /\ ChainsCover' /\ TxCover' /\ polyHeight' = polyHeight
BY SameSent, TxCoverSame DEF CoverInv, ChainsCover, nodeVars

LEMMA CoverScanner ==
    ASSUME CoverInv, Scanner
    PROVE  CoverInv'
<1> DEFINE Chains == Sent' /\ ChainsCover' /\ TxCover' /\ polyHeight' = polyHeight
<1>1. UNCHANGED retrierVars
  BY DEF Scanner
<1>3. ASSUME polyHeight' = polyHeight, neoRetry' = neoRetry
      PROVE  RetryCover'
  BY <1>1, <1>3 DEF CoverInv, RetryCover, retrierVars, Covered, Emitted
<1>4. CASE GetBlockHeight
  <2>1. Chains
    BY <1>4, QuietCover DEF GetBlockHeight
  <2>2. ScanCover'
    BY <1>4, <2>1, HeightFacts DEF GetBlockHeight, CoverInv, ScanCover
  <2> QED
    BY <1>3, <1>4, <2>1, <2>2 DEF GetBlockHeight, CoverInv, neoStoreVars
<1>5. CASE EndScan \/ GetEventsFails \/ GetBlockFails
  <2>1. Chains /\ neoRetry' = neoRetry /\ LeaveScan
    BY <1>5, QuietCover
       DEF EndScan, GetEventsFails, GetBlockFails, LeaveScan, neoStoreVars
  <2>2. ScanCover'
    BY <2>1, HeightFacts DEF LeaveScan, CoverInv, ScanCover
  <2> QED
    BY <1>3, <2>1, <2>2 DEF CoverInv
<1>6. CASE GetEvents
  <2>1. Chains
    BY <1>6, QuietCover DEF GetEvents
  <2>2. ScanCover'
    BY <1>6, <2>1 DEF GetEvents, CoverInv, ScanCover
  <2> QED
    BY <1>3, <1>6, <2>1, <2>2 DEF GetEvents, CoverInv, neoStoreVars
<1>7. ASSUME NEW p \in todo, TakeTransfer(p)
      PROVE  CoverInv'
  <2>1. Chains
    BY <1>7, QuietCover DEF TakeTransfer
  <2>2. neoSyncHeight \in Heights /\ key' \in KeysOf[neoSyncHeight]
    BY <1>7, HeightFacts DEF TakeTransfer, AtWork, KeysOf
  <2>3. Covered(key', signed')
    <3>1. PICK last \in {0, LastSynced} : signed' = SignedHeader(neoSyncHeight, last)
      BY <1>7 DEF TakeTransfer
    <3>2. last \in Int
      BY HeightFacts DEF LastSynced
    <3> QED
      BY <1>7, <2>2, <3>1, <3>2, SignedCovers, HeightFacts DEF TakeTransfer
  <2>4. ScanCover'
    BY <1>7, <2>1, <2>2, <2>3
       DEF TakeTransfer, AtWork, CoverInv, ScanCover, Emitted, Covered
  <2> QED
    BY <1>3, <1>7, <2>1, <2>4 DEF TakeTransfer, CoverInv, neoStoreVars
<1>8. CASE (\E p \in todo : SkipForeign(p) \/ GetProofFails(p)) \/ Pay
  <2>1. /\ Chains /\ neoRetry' = neoRetry
        /\ UNCHANGED <<spc, neoSyncHeight, n, key, signed>>
    BY <1>8, QuietCover
       DEF SkipForeign, GetProofFails, Pass, Pay, MakeTx, GetUnspents, LookUp,
           ListUtxo, ChooseInputs, neoStoreVars, scanVars
  <2>2. ScanCover'
    BY <2>1 DEF CoverInv, ScanCover, Covered, Emitted
  <2> QED
    BY <1>3, <2>1, <2>2 DEF CoverInv
<1>9. CASE PayFails \/ MarkEnds \/ Mark
  <2>1. /\ Chains /\ neoRetry' = neoRetry
        /\ UNCHANGED scanVars \/ (spc = "pay" /\ Return)
    BY <1>9, QuietCover DEF PayFails, MarkEnds, Mark, neoStoreVars
  <2>2. ScanCover'
    BY <2>1 DEF Return, scanVars, CoverInv, ScanCover, Covered, Emitted
  <2> QED
    BY <1>3, <2>1, <2>2 DEF CoverInv
<1>10. CASE PutAside
  <2>1. Chains /\ neoRetry' = neoRetry
    BY <1>10, QuietCover DEF PutAside, neoStoreVars
  <2>2. ScanCover'
    BY <1>10, <2>1 DEF PutAside, CoverInv, ScanCover, Covered, Emitted
  <2> QED
    BY <1>3, <2>1, <2>2 DEF CoverInv
<1>11. CASE StoreNeoRetry
  <2>1. Chains
    BY <1>11, QuietCover DEF StoreNeoRetry
  <2>2. ScanCover'
    BY <1>11, <2>1 DEF StoreNeoRetry, Return, CoverInv, ScanCover
  <2>3. neoRetry' \subseteq neoRetry \cup {[height |-> neoSyncHeight, key |-> key]}
    BY <1>11 DEF StoreNeoRetry, PutNeoRetry
  <2>4. RetryCover'
    BY <1>1, <1>11, <2>1, <2>3
       DEF StoreNeoRetry, CoverInv, ScanCover, RetryCover, retrierVars, Covered,
           Emitted
  <2> QED
    BY <2>1, <2>2, <2>4 DEF CoverInv
<1>12. CASE Send
  <2>1. Submit("proof", key, signed, left["scanner"],
               Worth(left["scanner"]) - Fee)
    BY <1>12 DEF Send, SendTx
  <2>2. Covered(key, signed) /\ signed \in Int
    BY <1>12 DEF Send, CoverInv, ScanCover, Covered
  <2>3. Chains
    BY <2>1, <2>2, TxCoverSubmit
  <2>4. ScanCover'
    BY <1>12, <2>3 DEF Send, scanVars, CoverInv, ScanCover, Covered, Emitted
  <2> QED
    BY <1>3, <1>12, <2>3, <2>4 DEF Send, CoverInv, neoStoreVars
<1>13. CASE SendKeepers
  <2>1. PICK ins : Submit("keepers", NoKey, neoSyncHeight, ins,
                          Worth(ins) - Fee)
    BY <1>13 DEF SendKeepers
  <2>2. neoSyncHeight \in Int
    BY HeightFacts
  <2>3. Chains
    BY <2>1, <2>2, TxCoverSubmit
  <2>4. ScanCover'
    BY <1>13, <2>3 DEF SendKeepers, CoverInv, ScanCover
  <2> QED
    BY <1>3, <1>13, <2>3, <2>4 DEF SendKeepers, CoverInv, neoStoreVars
<1>14. CASE FinishKeyBlock \/ Settled
  <2>1. Chains /\ neoRetry' = neoRetry
    BY <1>14, QuietCover DEF FinishKeyBlock, Settled, neoStoreVars
  <2>2. ScanCover'
    BY <1>14, <2>1 DEF FinishKeyBlock, Settled, BlockDone, CoverInv, ScanCover
  <2> QED
    BY <1>3, <2>1, <2>2 DEF CoverInv
<1>15. CASE FinishBlock \/ KeepersRefused \/ KeepersChanged
  <2>1. Chains /\ neoRetry' = neoRetry /\ Advance
    BY <1>15, QuietCover
       DEF FinishBlock, KeepersRefused, KeepersChanged, neoStoreVars
  <2>2. ScanCover'
    BY <2>1 DEF Advance, CoverInv, ScanCover
  <2> QED
    BY <1>3, <2>1, <2>2 DEF CoverInv
<1> QED
  BY <1>4, <1>5, <1>6, <1>7, <1>8, <1>9, <1>10, <1>11, <1>12, <1>13, <1>14,
     <1>15
     DEF Scanner, ScannerStep, Visit, SyncProof, EndBlock

LEMMA CoverRetrier ==
    ASSUME CoverInv, Retrier
    PROVE  CoverInv'
<1> DEFINE Chains == Sent' /\ ChainsCover' /\ TxCover' /\ polyHeight' = polyHeight
<1>1. UNCHANGED scanVars
  BY DEF Retrier
<1>2. ASSUME polyHeight' = polyHeight
      PROVE  ScanCover'
  BY <1>1, <1>2 DEF CoverInv, ScanCover, scanVars, Covered, Emitted
<1>3. ASSUME polyHeight' = polyHeight, neoRetry' \subseteq neoRetry,
             retries' \subseteq neoRetry \cup retries,
             rpc' = "pay" => rpc = "pay" /\ UNCHANGED <<cur, curSigned>>
      PROVE  RetryCover'
  BY <1>3 DEF CoverInv, RetryCover, Covered, Emitted
<1>4. CASE GetAllNeoRetry
  <2>1. Chains
    BY <1>4, QuietCover DEF GetAllNeoRetry
  <2>2. retries' \subseteq neoRetry /\ neoRetry' = neoRetry /\ rpc' = "loop"
    BY <1>4 DEF GetAllNeoRetry, neoStoreVars
  <2> QED
    BY <1>2, <1>3, <2>1, <2>2 DEF CoverInv
<1>5. ASSUME NEW r \in retries, TakeRecord(r)
      PROVE  CoverInv'
  <2>1. Chains /\ neoRetry' = neoRetry /\ retries' \subseteq retries
    BY <1>5, QuietCover DEF TakeRecord, neoStoreVars
  <2>2. r.height \in Heights /\ r.key \in KeysOf[r.height]
    BY DEF CoverInv, RetryCover, Emitted
  <2>3. PICK last \in {0, LastSynced} : curSigned' = SignedHeader(r.height, last)
    BY <1>5 DEF TakeRecord
  <2>4. last \in Int
    BY HeightFacts DEF LastSynced
  <2>5. Covered(r.key, curSigned')
    BY <1>5, <2>2, <2>3, <2>4, SignedCovers, HeightFacts DEF TakeRecord
  <2>6. RetryCover'
    BY <1>5, <2>1, <2>5
       DEF TakeRecord, CoverInv, RetryCover, Covered, Emitted
  <2> QED
    BY <1>2, <2>1, <2>6 DEF CoverInv
<1>6. CASE Resend
  <2>1. Submit("proof", cur.key, curSigned, left["retrier"],
               Worth(left["retrier"]) - Fee)
    BY <1>6 DEF Resend, SendTx
  <2>2. Covered(cur.key, curSigned) /\ curSigned \in Int
    BY <1>6 DEF Resend, CoverInv, RetryCover, Covered
  <2>3. Chains
    BY <2>1, <2>2, TxCoverSubmit
  <2> QED
    BY <1>2, <1>3, <1>6, <2>3 DEF Resend, CoverInv, neoStoreVars, retrierVars
<1>7. CASE (\E r \in retries : RetryLater(r)) \/ RetryPay \/ RetryStays
           \/ RetryRefused \/ RetryMark \/ RetryMarkEnds \/ EndRetry
  <2>1. Chains
    BY <1>7, QuietCover
       DEF RetryLater, RetryPay, RetryStays, RetryRefused, RetryMark,
           RetryMarkEnds, EndRetry
  <2>2. neoRetry' = neoRetry
    BY <1>7
       DEF RetryLater, RetryPay, MakeTx, GetUnspents, LookUp, ListUtxo,
           ChooseInputs, RetryStays, RetryRefused, RetryMark, RetryMarkEnds,
           EndRetry, neoStoreVars
  <2>3. /\ retries' \subseteq retries
        /\ rpc' = "pay" => rpc = "pay" /\ UNCHANGED <<cur, curSigned>>
    BY <1>7
       DEF RetryLater, RetryPay, RetryStays, RetryRefused, RetryMark,
           RetryMarkEnds, EndRetry, Continue, retrierVars
  <2> QED
    BY <1>2, <1>3, <2>1, <2>2, <2>3 DEF CoverInv
<1>8. CASE DropRecord \/ DeleteRecord
  <2>1. Chains
    BY <1>8, QuietCover DEF DropRecord, DeleteRecord
  <2>2. neoRetry' \subseteq neoRetry /\ retries' = retries /\ rpc' = "loop"
    BY <1>8 DEF DropRecord, DeleteRecord, DeleteNeoRetry, Continue
  <2> QED
    BY <1>2, <1>3, <2>1, <2>2 DEF CoverInv
<1> QED
  BY <1>4, <1>5, <1>6, <1>7, <1>8 DEF Retrier, RetrierStep

(* The chains grow, and what is covered stays so.                          *)
LEMMA CoverChains ==
    ASSUME CoverInv, Neo \/ NeoTrouble \/ PolyBlock
    PROVE  CoverInv'
<1>1. Sent' /\ Grows
  BY ChainsSent DEF CoverInv
<1>2. UNCHANGED <<neoRetry, scanVars, retrierVars>>
  BY DEF Neo, NeoTrouble, PolyBlock, Relayer, neoStoreVars
<1>3. /\ polyHeight' \in Heights /\ polyHeight <= polyHeight'
      /\ polyHeight \in Int /\ polyHeight' \in Int
  BY HeightFacts, ChainAssumption
     DEF Neo, NeoTrouble, PolyBlock, NeoExecutes, NeoEvicts, OtherExecutes,
         PolyGrow, Heights, CoverInv, ChainsCover
<1>4. synced' \in Int
  <2>1. CASE Neo
    <3>1. PICK x \in DOMAIN neoTx : NeoExecutes(x)
      BY <2>1 DEF Neo
    <3>2. neoTx[x].signed \in Int /\ synced \in Int
      BY HeightFacts DEF CoverInv, TxCover
    <3> QED
      BY <3>1, <3>2 DEF NeoExecutes
  <2>2. CASE NeoTrouble \/ PolyBlock
    BY <2>2, HeightFacts
       DEF NeoTrouble, PolyBlock, NeoEvicts, OtherExecutes, PolyGrow
  <2> QED
    BY <2>1, <2>2
<1>5. DOMAIN neoTx' = DOMAIN neoTx
  <2>1. PICK K, S, I, C : neoTx \in Seq(TxOf(K, S, I, C))
    BY DEF CoverInv, Sent
  <2> QED
    BY <2>1
       DEF Neo, NeoTrouble, PolyBlock, NeoExecutes, NeoEvicts, OtherExecutes,
           PolyGrow
<1>6. TxCover'
  BY <1>1, <1>3, <1>5, TxCoverStays DEF CoverInv
<1>7. ScanCover' /\ RetryCover'
  BY <1>2, <1>3, HeightFacts
     DEF CoverInv, ScanCover, RetryCover, Covered, Emitted, scanVars,
         retrierVars
<1> QED
  BY <1>1, <1>3, <1>4, <1>6, <1>7 DEF CoverInv, ChainsCover

(* After a crash only the chains and the bucket are left.                  *)
LEMMA CoverCrash ==
    ASSUME CoverInv, Crash
    PROVE  CoverInv'
<1>1. Sent' /\ ChainsCover' /\ TxCover' /\ polyHeight' = polyHeight
  BY QuietCover DEF Crash
<1>2. ScanCover'
  BY <1>1, HeightFacts, StartAssumption, NodeAssumption, ChainAssumption
     DEF Crash, ScannerReset, ScanCover, Heights
<1>3. RetryCover'
  BY DEF Crash, RetrierReset, neoStoreVars, CoverInv, RetryCover, Emitted
<1> QED
  BY <1>1, <1>2, <1>3 DEF CoverInv

LEMMA CoverStep ==
    ASSUME CoverInv, [Next]_vars
    PROVE  CoverInv'
<1>1. CASE UNCHANGED vars
  <2>1. Sent' /\ ChainsCover' /\ TxCover' /\ polyHeight' = polyHeight
    BY <1>1, QuietCover DEF vars
  <2>2. UNCHANGED <<neoRetry, scanVars, retrierVars>>
    BY <1>1 DEF vars, neoStoreVars
  <2>3. ScanCover' /\ RetryCover'
    BY <2>1, <2>2
       DEF CoverInv, ScanCover, RetryCover, Covered, Emitted, scanVars,
           retrierVars
  <2> QED
    BY <2>1, <2>3 DEF CoverInv
<1> QED
  BY <1>1, CoverScanner, CoverRetrier, CoverChains, CoverCrash DEF Next

LEMMA CoverInit == Init => CoverInv
<1> SUFFICES ASSUME Init PROVE CoverInv
  OBVIOUS
<1>1. neoTx = <<>> /\ neoTx \in Seq(TxOf({}, {}, {}, {}))
  BY DEF Init, NodeInit
<1>2. Sent /\ TxCover
  BY <1>1 DEF Sent, TxCover
<1>3. ChainsCover /\ ScanCover /\ RetryCover
  BY StartAssumption, NodeAssumption, ChainAssumption
     DEF Init, NodeInit, NeoStoreInit, ScannerInit, RetrierInit, ChainsCover,
         ScanCover, RetryCover, Heights
<1> QED
  BY <1>2, <1>3 DEF CoverInv

(* Whatever fails, the header a proof to Neo is checked against exists and *)
(* commits to the transfer: for the scanner, and for a record that is sent *)
(* again when Neo has come to know other keepers.                          *)
THEOREM ProofsCorrect == Spec => []ProofsCover
<1>1. CoverInv => ProofsCover
  BY DEF CoverInv, TxCover, ProofsCover, Covered
<1> QED
  BY <1>1, CoverInit, CoverStep, PTL DEF Spec

-----------------------------------------------------------------------------
(* SentOnce and SentPerFailure                                             *)

(* Every transfer has a key of its own.                                    *)
KeysDiffer ==
    \A g, h \in Heights : \A p \in TransfersOf[g], q \in TransfersOf[h] :
        KeyAt(g, p) = KeyAt(h, q) => g = h /\ p = q

(* The failures that make the relayer start a block or a record over.      *)
StartsOver == {"crash", "block", "db"}

(* No step of the relayer is repeated after a restart or for a block that  *)
(* cannot be had, and the database keeps and forgets what it is told to.   *)
PaidOnceAssumption == KeysDiffer /\ Faults \cap StartsOver = {}

(* The scan has visited the transfer.                                      *)
Passed(k) ==
    \E h \in Heights : \E p \in TransfersOf[h] :
        /\ k = KeyAt(h, p)
        /\ \/ h < neoSyncHeight
           \/ /\ h = neoSyncHeight /\ p \notin todo
              /\ spc \notin {"count", "block"}

(* The scanner may still pay for the transfer, or put it aside.            *)
ToCome(k) ==
    \/ ~Passed(k)
    \/ /\ k = key
       /\ spc = "putRetry" \/ (spc = "pay" /\ step["scanner"] # "mark")

(* The retrier has paid for the record at hand.                            *)
Resent == rpc = "delete" \/ (rpc = "pay" /\ step["retrier"] = "mark")

(* The retrier may still pay for a record of the transfer.                 *)
Waits(k) == \E r \in neoRetry : r.key = k /\ ~(r = cur /\ Resent)

Sents(k) == Cardinality(SentFor(k))

(* What has been paid for a transfer and what may still be.                *)
Debt(k) ==
    Sents(k) + (IF ToCome(k) THEN 1 ELSE 0) + (IF Waits(k) THEN 1 ELSE 0)

Cap == IF Faults \cap StartsOver = {} THEN 1 ELSE 1 + 2 * (MaxFaults - faults)

TakenInv ==
    /\ step["scanner"] # "none" => spc = "pay"
    /\ spc \in {"pay", "putRetry"} => Passed(key)

RecordsInv ==
    /\ step["retrier"] # "none" => rpc = "pay"
    /\ neoRetry \subseteq Record
    /\ retries \subseteq neoRetry
    /\ rpc \in {"pay", "drop", "delete"} => cur \in neoRetry \ retries

DebtInv ==
    FailuresTypeOK /\ TakenInv /\ RecordsInv /\ \A k \in Keys : Debt(k) <= Cap

(* How a step may change what is owed to Neo for a transfer: nothing is    *)
(* paid, the scanner pays or puts it aside, the retrier pays, or a failure *)
(* makes one of them start over.                                           *)
Rests(k) ==
    /\ Sents(k)' = Sents(k)
    /\ ToCome(k)' => ToCome(k)
    /\ Waits(k)' => Waits(k)

Puts(k) == Sents(k)' = Sents(k) /\ ToCome(k) /\ ~ToCome(k)'

Pays(k) ==
    /\ Sents(k)' = Sents(k) + 1
    /\ ToCome(k) /\ ~ToCome(k)'
    /\ Waits(k)' => Waits(k)

PaysAgain(k) ==
    /\ Sents(k)' = Sents(k) + 1
    /\ Waits(k) /\ ~Waits(k)'
    /\ ToCome(k)' => ToCome(k)

Restarts(k) ==
    /\ Sents(k)' = Sents(k)
    /\ faults' < faults /\ Faults \cap StartsOver # {}

Moves(k) == Rests(k) \/ Puts(k) \/ Pays(k) \/ PaysAgain(k) \/ Restarts(k)

Owes == \A k \in Keys : Moves(k)

LEMMA SentsType ==
    ASSUME Sent, NEW k
    PROVE  IsFiniteSet(SentFor(k)) /\ Sents(k) \in Nat
<1>1. PICK K, S, I, C : neoTx \in Seq(TxOf(K, S, I, C))
  BY DEF Sent
<1>2. DOMAIN neoTx = 1..Len(neoTx) /\ Len(neoTx) \in Nat
  BY <1>1
<1>3. IsFiniteSet(DOMAIN neoTx)
  BY <1>2, FS_Interval
<1>4. SentFor(k) \subseteq DOMAIN neoTx
  BY DEF SentFor
<1>5. IsFiniteSet(SentFor(k))
  BY <1>3, <1>4, FS_Subset
<1> QED
  BY <1>5, FS_CardinalityType DEF Sents

LEMMA DebtKept ==
    ASSUME Sent, FailuresTypeOK, FailuresTypeOK', faults' <= faults,
           NEW k, Debt(k) <= Cap, Moves(k)
    PROVE  Debt(k)' <= Cap'
<1>1. Sents(k) \in Nat
  BY SentsType
<1>2. faults \in Int /\ faults' \in Int /\ MaxFaults \in Int
  BY BudgetAssumption DEF FailuresTypeOK
<1> QED
  BY <1>1, <1>2
     DEF Debt, Cap, Moves, Rests, Puts, Pays, PaysAgain, Restarts

(* A step that sends nothing.                                              *)
LEMMA SentsQuiet ==
    ASSUME Grows, DOMAIN neoTx' = DOMAIN neoTx, NEW k
    PROVE  Sents(k)' = Sents(k)
<1>1. SentFor(k)' = SentFor(k)
  BY DEF SentFor, Grows, TxKept
<1> QED
  BY <1>1 DEF Sents

LEMMA SentsSame ==
    ASSUME neoTx' = neoTx, NEW k
    PROVE  Sents(k)' = Sents(k)
BY DEF Sents, SentFor

LEMMA SentsSubmit ==
    ASSUME Sent, NEW kind \in {"proof", "keepers"}, NEW j, NEW s, NEW ins,
           NEW ch, Submit(kind, j, s, ins, ch), NEW k
    PROVE  Sents(k)' = IF j = k THEN Sents(k) + 1 ELSE Sents(k)
<1>1. /\ Grows
      /\ DOMAIN neoTx' = DOMAIN neoTx \cup {Len(neoTx')}
      /\ Len(neoTx') \notin DOMAIN neoTx
      /\ neoTx'[Len(neoTx')].key = j
  BY SubmitSent
<1>2. CASE j = k
  <2>1. SentFor(k)' = SentFor(k) \cup {Len(neoTx')}
    BY <1>1, <1>2 DEF SentFor, Grows, TxKept
  <2>2. Len(neoTx') \notin SentFor(k)
    BY <1>1 DEF SentFor
  <2> QED
    BY <1>2, <2>1, <2>2, SentsType, FS_AddElement DEF Sents
<1>3. CASE j # k
  <2>1. SentFor(k)' = SentFor(k)
    BY <1>1, <1>3 DEF SentFor, Grows, TxKept
  <2> QED
    BY <1>3, <2>1 DEF Sents
<1> QED
  BY <1>2, <1>3

LEMMA KeysOfKeys ==
    ASSUME NEW h \in Heights
    PROVE  KeysOf[h] \subseteq Keys
<1> SUFFICES ASSUME NEW k \in KeysOf[h]
             PROVE  k \in Keys
  OBVIOUS
<1>1. PICK p \in TransfersOf[h] : k = Poly[h].events[p[1]][p[2]].key
  BY DEF KeysOf, KeyAt, NoteAt
<1>2. PICK e \in DOMAIN Poly[h].events :
          p \in {e} \X DOMAIN Poly[h].events[e]
  BY <1>1 DEF TransfersOf, WorkOf, Positions
<1>3. p[1] = e /\ p[2] \in DOMAIN Poly[h].events[e]
  BY <1>2
<1>4. Poly[h].events \in Seq(Seq(Note))
  BY ChainAssumption DEF Block
<1>5. Poly[h].events[e] \in Seq(Note)
  BY <1>4
<1>6. Poly[h].events[e][p[2]] \in Note
  BY <1>3, <1>5
<1> QED
  BY <1>1, <1>3, <1>6 DEF Note

LEMMA PassedKey ==
    ASSUME NEW k, Passed(k)
    PROVE  k \in Keys
<1>1. PICK h \in Heights : k \in KeysOf[h]
  BY DEF Passed, KeysOf
<1> QED
  BY <1>1, KeysOfKeys

(* The scan goes back only after a crash and for a block that cannot be    *)
(* had.                                                                    *)
LEMMA PassedStays ==
    ASSUME CoverInv, Scanner, ~GetBlockFails, NEW k, Passed(k)
    PROVE  Passed(k)'
<1> USE DEF Passed
<1>1. neoSyncHeight \in Nat /\ \A h \in Heights : h \in Int
  BY HeightFacts, ChainAssumption DEF Heights
<1>2. CASE FinishBlock \/ KeepersRefused \/ KeepersChanged
  <2>1. Advance
    BY <1>2 DEF FinishBlock, KeepersRefused, KeepersChanged
  <2> QED
    BY <1>1, <2>1 DEF Advance
<1>3. CASE EndScan \/ GetEventsFails \/ GetEvents \/ GetBlockHeight
  BY <1>3 DEF EndScan, GetEventsFails, GetEvents, GetBlockHeight, LeaveScan
<1>4. ASSUME spc \notin {"count", "block"}, spc' \notin {"count", "block"},
             neoSyncHeight' = neoSyncHeight, todo' \subseteq todo
      PROVE  Passed(k)'
  BY <1>4
<1>5. CASE SyncProof
  BY <1>4, <1>5
     DEF SyncProof, Pay, PayFails, PutAside, StoreNeoRetry, Send, Mark,
         MarkEnds, Return, scanVars
<1>6. CASE \E p \in todo : Visit(p)
  BY <1>4, <1>6
     DEF Visit, TakeTransfer, SkipForeign, GetProofFails, Pass, AtWork
<1>7. CASE FinishKeyBlock \/ Settled \/ SendKeepers
  BY <1>4, <1>7 DEF FinishKeyBlock, Settled, SendKeepers, BlockDone
<1> QED
  BY <1>2, <1>3, <1>5, <1>6, <1>7 DEF Scanner, ScannerStep, EndBlock

(* A transfer that is still to be visited has not been passed.             *)
LEMMA PassedBefore ==
    ASSUME CoverInv, KeysDiffer, spc = "work",
           NEW p \in TransfersOf[neoSyncHeight], p \in todo,
           NEW k, Passed(k)
    PROVE  k # KeyAt(neoSyncHeight, p)
<1>1. neoSyncHeight \in Heights /\ neoSyncHeight \in Nat
  BY HeightFacts
<1>2. PICK h \in Heights : \E q \in TransfersOf[h] :
            /\ k = KeyAt(h, q)
            /\ h < neoSyncHeight \/ (h = neoSyncHeight /\ q \notin todo)
  BY DEF Passed
<1> QED
  BY <1>1, <1>2 DEF KeysDiffer

(* A transfer has one record, with the height of its block.                *)
LEMMA OneRecord ==
    ASSUME CoverInv, KeysDiffer, neoRetry \subseteq Record,
           NEW r \in neoRetry, NEW s \in neoRetry, r.key = s.key
    PROVE  r = s
<1>1. Emitted(r.key, r.height) /\ Emitted(s.key, s.height)
  BY DEF CoverInv, RetryCover
<1>2. r.height = s.height
  BY <1>1 DEF Emitted, KeysOf, KeysDiffer
<1> QED
  BY <1>2 DEF Record

LEMMA MakeTxUnsent ==
    ASSUME NEW g, MakeTx(g)
    PROVE  /\ step[g] # "mark" /\ neoRetry' = neoRetry
           /\ \E s, coins, seen : At(g, s, coins, seen) /\ s # "mark"
<1>1. CASE GetUnspents(g)
  BY <1>1 DEF GetUnspents, neoStoreVars
<1>2. CASE LookUp(g)
  <2>1. PICK c \in left[g] :
            IF ~IsListed(c) THEN At(g, "list", left[g], avail[g])
              ELSE At(g, "walk", left[g] \ {c},
                      IF utxo[c] THEN avail[g] ELSE avail[g] \cup {c})
    BY <1>2 DEF LookUp
  <2>2. \E s, coins, seen : At(g, s, coins, seen) /\ s \in {"list", "walk"}
    <3>1. CASE IsListed(c)
      BY <2>1, <3>1, Zenon
    <3>2. CASE ~IsListed(c)
      BY <2>1, <3>2, Zenon
    <3> QED
      BY <3>1, <3>2
  <2> QED
    BY <1>2, <2>2 DEF LookUp, neoStoreVars
<1>3. CASE ListUtxo(g)
  BY <1>3 DEF ListUtxo
<1>4. CASE ChooseInputs(g)
  BY <1>4 DEF ChooseInputs, neoStoreVars
<1> QED
  BY <1>1, <1>2, <1>3, <1>4 DEF MakeTx

(* A step uses up a failure or none.                                       *)
Budget == faults' = faults \/ (faults > 0 /\ faults' = faults - 1)

LEMMA BudgetFacts ==
    /\ NoFault => Budget
    /\ \A f : Fault(f) => Budget
    /\ \A f, k : Loss(f, k) => Budget
BY DEF NoFault, Fault, Loss, Fails, Budget, faultVars

LEMMA BudgetPay ==
    /\ \A g : MakeTx(g) => Budget
    /\ \A g, k : MakeTxFails(g, k) => Budget
    /\ \A g, k, s : SendTx(g, k, s) => Budget
    /\ \A g : NotEnough(g) \/ TxRefused(g) => Budget
    /\ \A g : MarkOne(g) \/ MarkLast(g) \/ MarkFails(g) => Budget
BY BudgetFacts
   DEF MakeTx, GetUnspents, LookUp, ListUtxo, ChooseInputs, MakeTxFails, SendTx,
       NotEnough, TxRefused, MarkOne, MarkLast, MarkSpent, MarkFails

LEMMA BudgetStep ==
    ASSUME FailuresTypeOK, [Next]_vars
    PROVE  FailuresTypeOK' /\ faults' <= faults
<1>1. CASE Scanner
  <2>1. SyncProof => Budget
    BY BudgetFacts, BudgetPay
       DEF SyncProof, Pay, PayFails, PutAside, StoreNeoRetry, Send, Mark,
           MarkEnds
  <2>2. EndBlock => Budget
    BY BudgetFacts
       DEF EndBlock, FinishBlock, GetBlockFails, FinishKeyBlock, Settled,
           BlockGenerated, SendKeepers, KeepersRefused, KeepersChanged
  <2>3. (\E p \in todo : Visit(p)) => Budget
    BY BudgetFacts
       DEF Visit, TakeTransfer, SyncedRead, SkipForeign, GetProofFails
  <2>4. GetBlockHeight \/ EndScan \/ GetEvents \/ GetEventsFails => Budget
    BY BudgetFacts
       DEF GetBlockHeight, EndScan, GetEvents, GetEventsFails
  <2>5. Budget
    BY <1>1, <2>1, <2>2, <2>3, <2>4 DEF Scanner, ScannerStep
  <2> QED
    BY <2>5, BudgetAssumption DEF Budget, FailuresTypeOK
<1>2. CASE Retrier
  <2>1. RetryPay \/ RetryStays \/ RetryRefused \/ Resend \/ RetryMark
          \/ RetryMarkEnds => Budget
    BY BudgetFacts, BudgetPay
       DEF RetryPay, RetryStays, RetryRefused, Resend, RetryMark, RetryMarkEnds
  <2>2. GetAllNeoRetry \/ (\E r \in retries : TakeRecord(r) \/ RetryLater(r))
          \/ DropRecord \/ DeleteRecord \/ EndRetry => Budget
    BY BudgetFacts
       DEF GetAllNeoRetry, TakeRecord, RetryLater, SyncedRead, DropRecord,
           DeleteRecord, EndRetry
  <2>3. Budget
    BY <1>2, <2>1, <2>2 DEF Retrier, RetrierStep
  <2> QED
    BY <2>3, BudgetAssumption DEF Budget, FailuresTypeOK
<1>3. CASE Neo \/ NeoTrouble \/ PolyBlock \/ Crash \/ UNCHANGED vars
  <2>1. Budget
    BY <1>3, BudgetFacts
       DEF Neo, NeoExecutes, NeoTrouble, NeoEvicts, OtherExecutes, PolyBlock,
           PolyGrow, Crash, vars, faultVars, Budget
  <2> QED
    BY <2>1, BudgetAssumption DEF Budget, FailuresTypeOK
<1> QED
  BY <1>1, <1>2, <1>3 DEF Next

(* The scanner pays only for the transfer at hand.                         *)
LEMMA DebtScanner ==
    ASSUME MarksInv, CoverInv, KeysDiffer, TakenInv, RecordsInv,
           FailuresTypeOK, Scanner
    PROVE  TakenInv' /\ RecordsInv' /\ Owes
<1>1. ~GetBlockFails => \A k : Passed(k) => Passed(k)'
  BY PassedStays
<1>2. UNCHANGED <<rpc, retries, cur>>
  BY DEF Scanner, retrierVars
<1>3. ASSUME NEW s, NEW coins, NEW seen, At("scanner", s, coins, seen)
      PROVE  step'["retrier"] = step["retrier"] /\ step'["scanner"] = s
  BY <1>3 DEF At, MarksInv, PayersKnown, Payer
<1>4. spc # "pay" => step["scanner"] = "none"
  BY DEF TakenInv
<1>5. ASSUME neoRetry' = neoRetry, step'["retrier"] = step["retrier"]
      PROVE  RecordsInv' /\ \A k : Waits(k)' = Waits(k)
  BY <1>2, <1>5 DEF RecordsInv, Waits, Resent
<1>6. ASSUME neoTx' = neoTx, neoRetry' = neoRetry, step' = step,
             step["scanner"] = "none", ~GetBlockFails,
             spc' \notin {"pay", "putRetry"}
      PROVE  TakenInv' /\ RecordsInv' /\ Owes
  <2>1. \A k : Rests(k)
    BY <1>1, <1>5, <1>6, SentsSame DEF Rests, ToCome
  <2> QED
    BY <1>5, <1>6, <2>1 DEF TakenInv, Owes, Moves
<1>7. CASE GetBlockFails
  <2>1. TakenInv' /\ RecordsInv'
    BY <1>4, <1>5, <1>7
       DEF GetBlockFails, LeaveScan, BlockDone, TakenInv, neoStoreVars, payVars
  <2>2. \A k : Restarts(k)
    BY <1>7, SentsSame, BudgetAssumption
       DEF GetBlockFails, LeaveScan, Restarts, Fault, Fails, StartsOver,
           FailuresTypeOK, nodeVars
  <2> QED
    BY <2>1, <2>2 DEF Owes, Moves
<1>8. CASE GetBlockHeight \/ EndScan \/ GetEvents \/ GetEventsFails
           \/ FinishBlock \/ FinishKeyBlock \/ Settled \/ KeepersRefused
           \/ KeepersChanged
           \/ \E p \in todo : SkipForeign(p) \/ GetProofFails(p)
  <2>1. /\ spc # "pay" /\ spc' \notin {"pay", "putRetry"}
        /\ UNCHANGED <<neoTx, neoRetry, step>>
    BY <1>8
       DEF GetBlockHeight, EndScan, GetEvents, GetEventsFails, LeaveScan,
           FinishBlock, FinishKeyBlock, Settled, KeepersRefused,
           KeepersChanged, BlockDone, Advance, SkipForeign, GetProofFails, Pass,
           AtWork, payVars, nodeVars, neoStoreVars
  <2> QED
    BY <1>4, <1>6, <1>7, <2>1
<1>9. ASSUME NEW p \in todo, TakeTransfer(p)
      PROVE  TakenInv' /\ RecordsInv' /\ Owes
  <2>1. /\ p \in TransfersOf[neoSyncHeight] /\ spc = "work"
        /\ key' = KeyAt(neoSyncHeight, p)
        /\ UNCHANGED <<nodeVars, neoStoreVars, payVars, neoSyncHeight>>
        /\ spc' = "pay" /\ todo' = todo \ {p} /\ ~GetBlockFails
    BY <1>9 DEF TakeTransfer, AtWork, GetBlockFails, LeaveScan
  <2>2. ~Passed(key')
    BY <2>1, PassedBefore
  <2>3. Passed(key)'
    BY <2>1, HeightFacts DEF Passed
  <2>4. neoTx' = neoTx /\ neoRetry' = neoRetry /\ step' = step
    BY <2>1 DEF nodeVars, neoStoreVars, payVars
  <2>5. \A k : Rests(k)
    BY <1>1, <1>5, <2>1, <2>2, <2>4, SentsSame DEF Rests, ToCome
  <2> QED
    BY <1>5, <2>1, <2>3, <2>4, <2>5 DEF TakenInv, Owes, Moves
<1>10. ASSUME neoTx' = neoTx, neoRetry' = neoRetry, spc = "pay",
              step'["retrier"] = step["retrier"], ~GetBlockFails,
              \/ /\ spc' \in {"pay", "putRetry"} /\ key' = key
                 /\ step["scanner"] # "mark" \/ step'["scanner"] = "mark"
                 /\ step'["scanner"] = "none" \/ spc' = "pay"
                 /\ spc' = "pay" \/ step["scanner"] # "mark"
              \/ spc' = "work" /\ step'["scanner"] = "none"
       PROVE  TakenInv' /\ RecordsInv' /\ Owes
  <2>1. TakenInv'
    BY <1>1, <1>10 DEF TakenInv
  <2>2. \A k : ToCome(k)' => ToCome(k)
    BY <1>1, <1>10 DEF ToCome
  <2>3. \A k : Rests(k)
    BY <1>5, <1>10, <2>2, SentsSame DEF Rests
  <2> QED
    BY <1>5, <1>10, <2>1, <2>3 DEF Owes, Moves
<1>11. spc = "pay" => ~GetBlockFails
  BY DEF GetBlockFails, BlockDone
<1>12. CASE Pay
  <2>1. /\ neoTx' = neoTx /\ neoRetry' = neoRetry /\ spc = "pay"
        /\ UNCHANGED <<spc, key>>
        /\ step["scanner"] # "mark"
        /\ \E s, coins, seen : At("scanner", s, coins, seen) /\ s # "mark"
    BY <1>12, MakeTxUnsent DEF Pay, nodeVars, scanVars
  <2> QED
    BY <1>3, <1>10, <1>11, <2>1
<1>13. CASE PayFails \/ PutAside \/ MarkEnds
  <2>1. /\ neoTx' = neoTx /\ neoRetry' = neoRetry /\ spc = "pay"
        /\ StopPaying("scanner")
        /\ \/ spc' = "work"
           \/ spc' = "putRetry" /\ key' = key /\ step["scanner"] # "mark"
    BY <1>13
       DEF PayFails, PutAside, MarkEnds, MakeTxFails, NotEnough, TxRefused,
           SendFails, MarkFails, Return, nodeVars, neoStoreVars
  <2> QED
    BY <1>3, <1>10, <1>11, <2>1 DEF StopPaying
<1>14. CASE Mark
  <2>1. /\ neoTx' = neoTx /\ neoRetry' = neoRetry /\ spc = "pay"
        /\ step["scanner"] = "mark"
        /\ \/ /\ UNCHANGED <<spc, key>>
              /\ \E coins : At("scanner", "mark", coins, {})
           \/ spc' = "work" /\ StopPaying("scanner")
    BY <1>14
       DEF Mark, MarkOne, MarkLast, MarkSpent, Return, nodeVars, scanVars
  <2> QED
    BY <1>3, <1>10, <1>11, <2>1 DEF StopPaying
<1>15. CASE StoreNeoRetry
  <2> DEFINE rec == [height |-> neoSyncHeight, key |-> key]
  <2>1. /\ neoTx' = neoTx /\ step' = step
        /\ neoRetry' = neoRetry \cup {rec} \/ neoRetry' = neoRetry
        /\ spc' = "work" /\ spc = "putRetry" /\ ~GetBlockFails
    BY <1>15
       DEF StoreNeoRetry, PutNeoRetry, Return, GetBlockFails, BlockDone,
           nodeVars, payVars
  <2>2. TakenInv'
    BY <1>4, <2>1 DEF TakenInv
  <2>3. rec \in Record
    BY <2>1, HeightFacts, PassedKey DEF TakenInv, Record
  <2>4. rec.key = key
    OBVIOUS
  <2> HIDE DEF rec
  <2>5. RecordsInv'
    BY <1>2, <2>1, <2>3 DEF RecordsInv
  <2>6. ASSUME NEW k, k = key
        PROVE  Puts(k)
    BY <1>1, <2>1, <2>6, SentsSame DEF Puts, ToCome, TakenInv
  <2>7. ASSUME NEW k, k # key
        PROVE  Rests(k)
    <3>1. Waits(k)' => Waits(k)
      BY <1>2, <2>1, <2>4, <2>7 DEF Waits, Resent
    <3> QED
      BY <1>1, <2>1, <3>1, SentsSame DEF Rests, ToCome
  <2> QED
    BY <2>2, <2>5, <2>6, <2>7 DEF Owes, Moves
<1>16. CASE Send
  <2>1. /\ Submit("proof", key, signed, left["scanner"],
                  Worth(left["scanner"]) - Fee)
        /\ At("scanner", "mark", left["scanner"], {})
        /\ spc = "pay" /\ step["scanner"] = "send"
        /\ UNCHANGED <<spc, key, neoRetry>>
    BY <1>16 DEF Send, SendTx, neoStoreVars, scanVars
  <2>2. step'["scanner"] = "mark" /\ step'["retrier"] = step["retrier"]
    BY <1>3, <2>1
  <2>3. TakenInv'
    BY <1>1, <1>11, <2>1, <2>2 DEF TakenInv
  <2>4. ASSUME NEW k
        PROVE  Sents(k)' = IF key = k THEN Sents(k) + 1 ELSE Sents(k)
    BY <2>1, SentsSubmit DEF MarksInv
  <2>5. ASSUME NEW k
        PROVE  Pays(k) \/ Rests(k)
    <3>1. CASE k = key
      <4>1. ToCome(k) /\ ~ToCome(k)'
        BY <1>1, <1>11, <2>1, <2>2, <3>1 DEF ToCome, TakenInv
      <4> QED
        BY <1>5, <2>1, <2>2, <2>4, <3>1, <4>1 DEF Pays
    <3>2. CASE k # key
      <4>1. ToCome(k)' => ToCome(k)
        BY <1>1, <1>11, <2>1, <3>2 DEF ToCome
      <4> QED
        BY <1>5, <2>1, <2>2, <2>4, <3>2, <4>1 DEF Rests
    <3> QED
      BY <3>1, <3>2
  <2> QED
    BY <1>5, <2>1, <2>2, <2>3, <2>5 DEF Owes, Moves
<1>17. CASE SendKeepers
  <2>1. PICK ins : Submit("keepers", NoKey, neoSyncHeight, ins,
                          Worth(ins) - Fee)
    BY <1>17 DEF SendKeepers
  <2>2. /\ neoRetry' = neoRetry /\ step' = step
        /\ spc = "change" /\ spc' = "wait" /\ ~GetBlockFails
    BY <1>17
       DEF SendKeepers, neoStoreVars, payVars, GetBlockFails, BlockDone
  <2>3. ASSUME NEW k \in Keys
        PROVE  Sents(k)' = Sents(k)
    BY <2>1, SentsSubmit, NodeAssumption DEF MarksInv
  <2>4. \A k \in Keys : Rests(k)
    BY <1>1, <1>5, <2>2, <2>3 DEF Rests, ToCome
  <2>5. TakenInv'
    BY <1>4, <2>2 DEF TakenInv
  <2> QED
    BY <1>5, <2>2, <2>4, <2>5 DEF Owes, Moves
<1> QED
  BY <1>7, <1>8, <1>9, <1>12, <1>13, <1>14, <1>15, <1>16, <1>17
     DEF Scanner, ScannerStep, Visit, SyncProof, EndBlock

(* The retrier pays only for a record that waits.                          *)
LEMMA DebtRetrier ==
    ASSUME MarksInv, CoverInv, KeysDiffer, TakenInv, RecordsInv,
           FailuresTypeOK, Retrier
    PROVE  TakenInv' /\ RecordsInv' /\ Owes
<1>1. UNCHANGED <<spc, key, neoSyncHeight, todo>>
  BY DEF Retrier, scanVars
<1>2. \A k : Passed(k)' = Passed(k)
  BY <1>1 DEF Passed
<1>3. ASSUME NEW s, NEW coins, NEW seen, At("retrier", s, coins, seen)
      PROVE  step'["scanner"] = step["scanner"] /\ step'["retrier"] = s
  BY <1>3 DEF At, MarksInv, PayersKnown, Payer
<1>4. ASSUME step'["scanner"] = step["scanner"]
      PROVE  TakenInv' /\ \A k : ToCome(k)' = ToCome(k)
  BY <1>1, <1>2, <1>4 DEF TakenInv, ToCome
<1>5. rpc # "pay" => step["retrier"] = "none"
  BY DEF RecordsInv
<1>6. ASSUME neoTx' = neoTx, RecordsInv', step'["scanner"] = step["scanner"],
             \A k : Waits(k)' => Waits(k)
      PROVE  TakenInv' /\ RecordsInv' /\ Owes
  BY <1>4, <1>6, SentsSame DEF Rests, Owes, Moves
<1>7. CASE GetAllNeoRetry \/ EndRetry
           \/ \E r \in retries : TakeRecord(r) \/ RetryLater(r)
  <2>1. /\ neoTx' = neoTx /\ neoRetry' = neoRetry /\ step' = step
        /\ rpc \in {"idle", "loop"}
        /\ retries' \subseteq neoRetry
        /\ \/ rpc' \in {"idle", "loop"}
           \/ rpc' = "pay" /\ cur' \in neoRetry \ retries'
    BY <1>7
       DEF GetAllNeoRetry, EndRetry, TakeRecord, RetryLater, IsBatch, nodeVars,
           neoStoreVars, payVars, RecordsInv
  <2>2. RecordsInv'
    BY <1>5, <2>1 DEF RecordsInv
  <2>3. \A k : Waits(k)' => Waits(k)
    BY <2>1 DEF Waits, Resent
  <2> QED
    BY <1>6, <2>1, <2>2, <2>3
<1>8. CASE RetryPay
  <2>1. /\ neoTx' = neoTx /\ neoRetry' = neoRetry /\ rpc = "pay"
        /\ UNCHANGED <<rpc, retries, cur>>
        /\ step["retrier"] # "mark"
        /\ \E s, coins, seen : At("retrier", s, coins, seen) /\ s # "mark"
    BY <1>8, MakeTxUnsent DEF RetryPay, nodeVars, retrierVars
  <2>2. step'["retrier"] # "mark" /\ step'["scanner"] = step["scanner"]
    BY <1>3, <2>1
  <2>3. RecordsInv' /\ \A k : Waits(k)' => Waits(k)
    BY <2>1, <2>2 DEF RecordsInv, Waits, Resent
  <2> QED
    BY <1>6, <2>1, <2>2, <2>3
<1>9. CASE RetryStays \/ RetryRefused
  <2>1. /\ neoTx' = neoTx /\ neoRetry' = neoRetry /\ rpc = "pay"
        /\ UNCHANGED retries
        /\ rpc' = "loop" \/ (rpc' = "drop" /\ cur' = cur)
        /\ step["retrier"] # "mark" /\ StopPaying("retrier")
    BY <1>9
       DEF RetryStays, RetryRefused, Continue, MakeTxFails, NotEnough,
           TxRefused, SendFails, nodeVars, neoStoreVars
  <2>2. step'["retrier"] = "none" /\ step'["scanner"] = step["scanner"]
    BY <1>3, <2>1 DEF StopPaying
  <2>3. RecordsInv' /\ \A k : Waits(k)' => Waits(k)
    BY <2>1, <2>2 DEF RecordsInv, Waits, Resent
  <2> QED
    BY <1>6, <2>1, <2>2, <2>3
<1>10. ASSUME neoTx' = neoTx, RecordsInv', step'["scanner"] = step["scanner"],
              Fault("db")
       PROVE  TakenInv' /\ RecordsInv' /\ Owes
  <2>1. \A k : Restarts(k)
    BY <1>10, SentsSame, BudgetAssumption
       DEF Restarts, Fault, Fails, StartsOver, FailuresTypeOK
  <2> QED
    BY <1>4, <1>10, <2>1 DEF Owes, Moves
<1>11. CASE DropRecord \/ DeleteRecord
  <2>1. /\ neoTx' = neoTx /\ step' = step
        /\ neoRetry' = neoRetry \ {cur} \/ (neoRetry' = neoRetry /\ Fault("db"))
        /\ rpc \in {"drop", "delete"} /\ rpc' = "loop" /\ UNCHANGED retries
    BY <1>11
       DEF DropRecord, DeleteRecord, DeleteNeoRetry, Continue, nodeVars, payVars
  <2>2. RecordsInv'
    BY <1>5, <2>1 DEF RecordsInv
  <2>3. CASE neoRetry' = neoRetry \ {cur}
    <3>1. \A k : Waits(k)' => Waits(k)
      BY <2>1, <2>3 DEF Waits
    <3> QED
      BY <1>6, <2>1, <2>2, <3>1
  <2> QED
    BY <1>10, <2>1, <2>2, <2>3
<1>12. CASE RetryMarkEnds
  <2>1. /\ neoTx' = neoTx /\ neoRetry' = neoRetry /\ UNCHANGED retries
        /\ rpc' = "loop" /\ StopPaying("retrier") /\ Fault("db")
    BY <1>12 DEF RetryMarkEnds, MarkFails, Continue, nodeVars, neoStoreVars
  <2>2. step'["retrier"] = "none" /\ step'["scanner"] = step["scanner"]
    BY <1>3, <2>1 DEF StopPaying
  <2>3. RecordsInv'
    BY <2>1, <2>2 DEF RecordsInv
  <2> QED
    BY <1>10, <2>1, <2>2, <2>3
<1>13. CASE RetryMark
  <2>1. /\ neoTx' = neoTx /\ neoRetry' = neoRetry /\ rpc = "pay"
        /\ UNCHANGED <<retries, cur>>
        /\ step["retrier"] = "mark"
        /\ \/ rpc' = "pay" /\ \E coins : At("retrier", "mark", coins, {})
           \/ rpc' = "delete" /\ StopPaying("retrier")
    BY <1>13
       DEF RetryMark, MarkOne, MarkLast, MarkSpent, nodeVars, retrierVars
  <2>2. /\ step'["scanner"] = step["scanner"]
        /\ \/ rpc' = "pay" /\ step'["retrier"] = "mark"
           \/ rpc' = "delete" /\ step'["retrier"] = "none"
    BY <1>3, <2>1 DEF StopPaying
  <2>3. RecordsInv' /\ \A k : Waits(k)' => Waits(k)
    BY <2>1, <2>2 DEF RecordsInv, Waits, Resent
  <2> QED
    BY <1>6, <2>1, <2>2, <2>3
<1>14. CASE Resend
  <2>1. /\ Submit("proof", cur.key, curSigned, left["retrier"],
                  Worth(left["retrier"]) - Fee)
        /\ At("retrier", "mark", left["retrier"], {})
        /\ rpc = "pay" /\ step["retrier"] = "send"
        /\ UNCHANGED <<rpc, retries, cur, neoRetry>>
    BY <1>14 DEF Resend, SendTx, neoStoreVars, retrierVars
  <2>2. step'["retrier"] = "mark" /\ step'["scanner"] = step["scanner"]
    BY <1>3, <2>1
  <2>3. RecordsInv' /\ TakenInv'
    BY <1>4, <2>1, <2>2 DEF RecordsInv
  <2>4. ASSUME NEW k
        PROVE  Sents(k)' = IF cur.key = k THEN Sents(k) + 1 ELSE Sents(k)
    BY <2>1, SentsSubmit DEF MarksInv
  <2>5. cur \in neoRetry /\ \A r \in neoRetry : r.key = cur.key => r = cur
    BY <2>1, OneRecord DEF RecordsInv
  <2>6. ASSUME NEW k
        PROVE  PaysAgain(k) \/ Rests(k)
    <3>1. CASE k = cur.key
      <4>1. Waits(k)
        BY <2>1, <2>5, <3>1 DEF Waits, Resent
      <4>2. ~Waits(k)'
        BY <2>1, <2>2, <2>5, <3>1 DEF Waits, Resent
      <4> QED
        BY <1>4, <2>2, <2>4, <3>1, <4>1, <4>2 DEF PaysAgain
    <3>2. CASE k # cur.key
      <4>1. Waits(k)' => Waits(k)
        BY <2>1, <3>2 DEF Waits
      <4> QED
        BY <1>4, <2>2, <2>4, <3>2, <4>1 DEF Rests
    <3> QED
      BY <3>1, <3>2
  <2> QED
    BY <2>3, <2>6 DEF Owes, Moves
<1> QED
  BY <1>7, <1>8, <1>9, <1>11, <1>12, <1>13, <1>14 DEF Retrier, RetrierStep

LEMMA DebtStep ==
    ASSUME MarksInv, CoverInv, KeysDiffer, DebtInv, [Next]_vars
    PROVE  DebtInv'
<1>1. ASSUME Neo \/ NeoTrouble \/ PolyBlock \/ UNCHANGED vars
      PROVE  TakenInv' /\ RecordsInv' /\ Owes
  <2>1. UNCHANGED <<spc, key, neoSyncHeight, todo, rpc, retries, cur, neoRetry,
                    step>>
    BY <1>1
       DEF Neo, NeoTrouble, PolyBlock, vars, Relayer, neoStoreVars, payVars,
           scanVars, retrierVars
  <2>2. Grows
    BY <1>1, ChainsSent, SameSent DEF MarksInv, vars, nodeVars
  <2>3. DOMAIN neoTx' = DOMAIN neoTx
    <3>1. PICK K, S, I, C : neoTx \in Seq(TxOf(K, S, I, C))
      BY DEF MarksInv, Sent
    <3> QED
      BY <1>1, <3>1
         DEF Neo, NeoTrouble, PolyBlock, NeoExecutes, NeoEvicts, OtherExecutes,
             PolyGrow, vars, nodeVars
  <2>4. TakenInv' /\ RecordsInv'
    BY <2>1 DEF DebtInv, TakenInv, RecordsInv, Passed
  <2>5. \A k : Rests(k)
    BY <2>1, <2>2, <2>3, SentsQuiet DEF Rests, ToCome, Passed, Waits, Resent
  <2> QED
    BY <2>4, <2>5 DEF Owes, Moves
<1>2. ASSUME Crash
      PROVE  TakenInv' /\ RecordsInv' /\ Owes
  <2>1. TakenInv' /\ RecordsInv'
    BY <1>2
       DEF Crash, ScannerReset, RetrierReset, Payer, neoStoreVars, DebtInv,
           TakenInv, RecordsInv
  <2>2. \A k : Restarts(k)
    BY <1>2, SentsSame, BudgetAssumption
       DEF Crash, Restarts, Fault, Fails, StartsOver, FailuresTypeOK, nodeVars,
           DebtInv
  <2> QED
    BY <2>1, <2>2 DEF Owes, Moves
<1>3. TakenInv' /\ RecordsInv' /\ Owes
  BY <1>1, <1>2, DebtScanner, DebtRetrier DEF Next, DebtInv
<1>4. FailuresTypeOK' /\ faults' <= faults
  BY BudgetStep DEF DebtInv
<1>5. \A k \in Keys : Debt(k)' <= Cap'
  BY <1>3, <1>4, DebtKept DEF DebtInv, Owes, MarksInv
<1> QED
  BY <1>3, <1>4, <1>5 DEF DebtInv

LEMMA DebtInit == Init => DebtInv
<1> SUFFICES ASSUME Init PROVE DebtInv
  OBVIOUS
<1>1. \A k : SentFor(k) = {}
  BY DEF Init, NodeInit, SentFor
<1>2. \A k : Sents(k) = 0
  BY <1>1, FS_EmptySet DEF Sents
<1>3. FailuresTypeOK /\ TakenInv /\ RecordsInv
  BY BudgetAssumption
     DEF Init, NodeInit, FailuresInit, FailuresTypeOK, NeoStoreInit,
         PaymentsInit, ScannerInit, RetrierInit, Payer, TakenInv, RecordsInv
<1>4. \A k : ~Waits(k)
  BY DEF Init, NeoStoreInit, Waits
<1>5. Cap = 1
  BY BudgetAssumption DEF Init, NodeInit, FailuresInit, Cap
<1> QED
  BY <1>2, <1>3, <1>4, <1>5 DEF DebtInv, Debt

LEMMA DebtAlways ==
    ASSUME KeysDiffer
    PROVE  Spec => [](Sent /\ CoverInv /\ DebtInv)
<1>1. Init => MarksInv /\ CoverInv /\ DebtInv
  BY MarksInit, CoverInit, DebtInit
<1>2. MarksInv /\ CoverInv /\ DebtInv /\ [Next]_vars
        => MarksInv' /\ CoverInv' /\ DebtInv'
  BY MarksStep, CoverStep, DebtStep
<1>3. MarksInv => Sent
  BY DEF MarksInv
<1> QED
  BY <1>1, <1>2, <1>3, PTL DEF Spec

(* The number of payments is part of the debt.                             *)
LEMMA SentsCapped ==
    ASSUME Sent, DebtInv, NEW k \in Keys
    PROVE  Sents(k) <= Cap
<1>1. Sents(k) \in Nat /\ Debt(k) <= Cap
  BY SentsType DEF DebtInv
<1>2. Cap \in Int
  BY BudgetAssumption DEF Cap, DebtInv, FailuresTypeOK
<1> QED
  BY <1>1, <1>2 DEF Debt

(* Whatever fails, a transfer is paid for at most once, and twice more for *)
(* every failure: not by the scanner and the retrier that meet at the      *)
(* bucket, not after an input was refused, and not for a transaction that  *)
(* the pool dropped.                                                       *)
THEOREM PaymentsBounded ==
    ASSUME KeysDiffer
    PROVE  Spec => []SentPerFailure
<1>1. Sent /\ DebtInv => SentPerFailure
  <2> SUFFICES ASSUME Sent, DebtInv, NEW k \in Keys
               PROVE  Cardinality(SentFor(k)) <= 1 + 2 * (MaxFaults - faults)
    BY DEF SentPerFailure
  <2>1. Sents(k) <= Cap /\ Sents(k) \in Nat
    BY SentsCapped, SentsType
  <2>2. faults \in Int /\ faults <= MaxFaults /\ MaxFaults \in Int
    BY BudgetAssumption DEF DebtInv, FailuresTypeOK
  <2> QED
    BY <2>1, <2>2 DEF Sents, Cap
<1> QED
  BY <1>1, DebtAlways, PTL

(* While nothing makes the relayer start a block or a record over, no      *)
(* transfer is sent to Neo twice.                                          *)
THEOREM TransfersSentOnce ==
    ASSUME PaidOnceAssumption
    PROVE  Spec => []SentOnce
<1>1. CoverInv /\ Sent /\ DebtInv => SentOnce
  <2> SUFFICES ASSUME CoverInv, Sent, DebtInv,
                      NEW x \in DOMAIN neoTx, NEW y \in DOMAIN neoTx,
                      neoTx[x].kind = "proof", neoTx[x].key = neoTx[y].key,
                      x # y
               PROVE  FALSE
    BY DEF SentOnce
  <2> DEFINE k == neoTx[x].key
  <2>1. k \in Keys
    BY KeysOfKeys DEF CoverInv, TxCover, Covered, KeysUpTo
  <2>2. {x, y} \subseteq SentFor(k) /\ IsFiniteSet(SentFor(k))
    BY SentsType DEF SentFor
  <2>3. Cardinality({x, y}) = 2
    <3>1. IsFiniteSet({x}) /\ Cardinality({x}) = 1
      BY FS_Singleton
    <3>2. {x, y} = {x} \cup {y} /\ y \notin {x}
      OBVIOUS
    <3>3. Cardinality({x} \cup {y}) = Cardinality({x}) + 1
      BY ONLY <3>1, <3>2, FS_AddElement
    <3> QED
      BY ONLY <3>1, <3>2, <3>3
  <2>4. Sents(k) <= 1 /\ Sents(k) \in Nat
    BY <2>1, SentsCapped, SentsType DEF Cap, PaidOnceAssumption
  <2> QED
    BY <2>2, <2>3, <2>4, FS_Subset DEF Sents
<1> QED
  BY <1>1, DebtAlways, PTL DEF PaidOnceAssumption

-----------------------------------------------------------------------------
(* TypeOK.  The inputs of a transaction are never worth less than the fee. *)

(* The order of the sort.                                                  *)
OrderOf(S) == [c \in S |-> { d \in S : d = c \/ Larger(d, c) }]

LEMMA LargerOrders ==
    ASSUME NEW S \in SUBSET Coin
    PROVE  InOrder(S, Value(S), OrderOf(S))
<1>1. \A c \in S : c \in Coin /\ c.value \in Nat /\ c.tx \in Int /\ c.index \in Int
  BY NodeAssumption DEF Coin
<1>2. \A c, d \in S : c # d => Larger(c, d) \/ Larger(d, c)
  <2> TAKE c, d \in S
  <2>1. (c.tx = d.tx /\ c.index = d.index /\ c.value = d.value) => c = d
    BY DEF Coin
  <2> QED
    BY <1>1, <2>1 DEF Larger, Earlier
<1>3. \A c, d \in S : ~(Larger(c, d) /\ Larger(d, c))
  BY <1>1 DEF Larger, Earlier
<1>4. \A c, d, e \in S : Larger(c, d) /\ Larger(d, e) => Larger(c, e)
  BY <1>1 DEF Larger, Earlier
<1>5. \A c, d \in S : Larger(c, d) => c.value >= d.value
  BY <1>1 DEF Larger
<1>6. \A c \in S : OrderOf(S)[c] = { d \in S : d = c \/ Larger(d, c) }
  BY DEF OrderOf
<1>7. \A c \in S : Value(S)[c] = c.value
  BY DEF Value
<1> QED
  BY <1>1, <1>2, <1>3, <1>4, <1>5, <1>6, <1>7 DEF InOrder

(* GetTransactionInputs returns the utxos that fit into the fee, with the  *)
(* one that is nearest to the rest when there is a rest.                   *)
LEMMA InputsAre ==
    ASSUME NEW S \in SUBSET Coin, IsFiniteSet(S), Worth(S) >= Fee
    PROVE  LET v == Value(S)
               P == OrderOf(S)
               F == Fitting(S, v, P, Fee)
               rest == Rest(S, v, P, Fee)
           IN  /\ F \subseteq S /\ rest \in Nat /\ Total(v, F) = Fee - rest
               /\ \/ rest = 0 /\ InputsOf(S) = F
                  \/ /\ rest > 0
                     /\ \E c \in S : /\ IsNearest(c, S, v, P, rest)
                                    /\ InputsOf(S) = F \cup {c}
<1> DEFINE v == Value(S)
           P == OrderOf(S)
           F == Fitting(S, v, P, Fee)
           rest == Rest(S, v, P, Fee)
           D == DOMAIN v
           Fits == { c \in D : Total(v, { d \in D : d = c \/ Larger(d, c) }) <= Fee }
           Left == Fee - Total(v, Fits)
           Near(c) == /\ v[c] >= Left
                      /\ \A d \in D : Larger(c, d) => v[d] < Left
<1>1. D = S /\ \A c \in S : v[c] = c.value /\ v[c] \in Nat
  BY NodeAssumption DEF Value, Coin
<1>2. \A c \in S : P[c] = { d \in S : d = c \/ Larger(d, c) }
  BY DEF OrderOf
<1>3. Fits = F /\ Left = rest
  BY <1>1, <1>2 DEF Fitting, Rest
<1>4. InputsOf(S) = Fits \cup IF Left = 0 THEN {} ELSE { CHOOSE c \in D : Near(c) }
  BY Zenon DEF InputsOf, Chosen
<1>5. InOrder(S, v, P) /\ Fee \in Nat /\ Fee > 0
  BY LargerOrders, NodeAssumption
<1>6. \A c, d \in S : Larger(c, d) <=> c \in P[d] /\ c # d
  <2>1. \A c \in S : c.tx \in Int /\ c.index \in Int /\ c.value \in Int
    BY NodeAssumption DEF Coin
  <2>2. \A c \in S : ~Larger(c, c)
    BY <2>1 DEF Larger, Earlier
  <2> QED
    BY <1>2, <2>2
<1>7. Total(v, S) >= Fee
  BY DEF Worth
<1>8. \A c \in D : Near(c) <=> IsNearest(c, S, v, P, rest)
  BY <1>1, <1>3, <1>6 DEF IsNearest
<1> HIDE DEF v, P, F, rest, D, Fits, Left, Near
<1>9. /\ F \subseteq S /\ Total(v, F) \in Nat /\ rest \in Nat
      /\ rest = Fee - Total(v, F)
  BY <1>5, FittingFits DEF F, rest, Rest
<1>10. CASE rest = 0
  <2>1. InputsOf(S) = F
    BY <1>3, <1>4, <1>10
  <2> QED
    BY <1>5, <1>9, <1>10, <2>1 DEF F, rest, v, P
<1>11. CASE rest > 0
  <2>1. \E c \in S : IsNearest(c, S, v, P, rest)
    BY <1>5, <1>7, <1>11, NearestCovers DEF rest
  <2>2. PICK c \in D : c = (CHOOSE e \in D : Near(e)) /\ Near(c)
    BY <1>1, <1>8, <2>1
  <2>3. /\ c \in S /\ IsNearest(c, S, v, P, rest)
        /\ InputsOf(S) = F \cup {c}
    BY <1>1, <1>3, <1>4, <1>8, <1>11, <2>2
  <2> QED
    BY <1>5, <1>9, <1>11, <2>3 DEF F, rest, v, P
<1> QED
  BY <1>9, <1>10, <1>11

(* What GetTransactionInputs returns covers the fee and is not empty.      *)
LEMMA InputsPay ==
    ASSUME NEW S \in SUBSET Coin, IsFiniteSet(S), Worth(S) >= Fee
    PROVE  /\ InputsOf(S) \subseteq S /\ InputsOf(S) # {}
           /\ IsFiniteSet(InputsOf(S))
           /\ Worth(InputsOf(S)) \in Nat /\ Worth(InputsOf(S)) >= Fee
<1> DEFINE v == Value(S)
           P == OrderOf(S)
           F == Fitting(S, v, P, Fee)
           rest == Rest(S, v, P, Fee)
<1>1. \A c \in S : v[c] = c.value /\ v[c] \in Nat
  BY NodeAssumption DEF Value, Coin
<1>2. InOrder(S, v, P) /\ Fee \in Nat /\ Fee > 0 /\ Total(v, S) >= Fee
  BY LargerOrders, NodeAssumption DEF Worth
<1>3. /\ F \subseteq S /\ rest \in Nat /\ Total(v, F) = Fee - rest
      /\ \/ rest = 0 /\ InputsOf(S) = F
         \/ /\ rest > 0
            /\ \E c \in S : /\ IsNearest(c, S, v, P, rest)
                           /\ InputsOf(S) = F \cup {c}
  BY InputsAre
<1> HIDE DEF v, P, F, rest
<1>4. InputsOf(S) \subseteq S /\ Total(v, InputsOf(S)) >= Fee
  <2>1. CASE rest = 0 /\ InputsOf(S) = F
    BY <1>2, <1>3, <2>1
  <2>2. CASE rest > 0
    <3>1. PICK c \in S : IsNearest(c, S, v, P, rest) /\ InputsOf(S) = F \cup {c}
      BY <1>3, <2>2
    <3>2. Total(v, F \cup {c}) >= Fee
      BY <1>2, <2>2, <3>1, NearestCovers DEF rest, F
    <3> QED
      BY <1>3, <3>1, <3>2
  <2> QED
    BY <1>3, <2>1, <2>2
<1>5. IsFiniteSet(InputsOf(S))
  BY <1>4, FS_Subset
<1>6. Worth(InputsOf(S)) = Total(v, InputsOf(S))
  <2> DEFINE I == InputsOf(S)
  <2>1. \A c \in I : Value(I)[c] = v[c]
    BY <1>1, <1>4 DEF Value
  <2> HIDE DEF I
  <2> QED
    BY <1>5, <2>1, TotalSame DEF Worth, I
<1>7. Total(v, InputsOf(S)) \in Nat
  <2>1. \A x \in InputsOf(S) : v[x] \in Int /\ v[x] >= 0
    BY <1>1, <1>4
  <2>2. Total(v, InputsOf(S)) \in Int /\ Total(v, InputsOf(S)) >= 0
    BY <1>5, <2>1, TotalInt
  <2> QED
    BY <2>2
<1>8. InputsOf(S) # {}
  BY <1>2, <1>4, TotalEmpty
<1> QED
  BY <1>4, <1>5, <1>6, <1>7, <1>8

(* The sets of utxos are finite, and inputs cover the fee.                 *)
PayersInv ==
    \A g \in Payer :
        /\ IsFiniteSet(left[g]) /\ IsFiniteSet(avail[g])
        /\ step[g] = "send" => Worth(left[g]) \in Nat /\ Worth(left[g]) >= Fee

(* The visits of a block are over when it ends.                            *)
TypeInv ==
    /\ TypeOK
    /\ spc \in {"count", "block", "settle", "change", "wait"} => todo = {}
    /\ IsFiniteSet(unspent)
    /\ PayersInv

(* A goroutine that has stopped or gone on paying.                         *)
LEMMA AtTypes ==
    ASSUME TypeInv, NEW g \in Payer,
           NEW s \in {"none", "walk", "list", "send", "mark"},
           NEW l \in SUBSET Coin, IsFiniteSet(l),
           s \in {"list", "send", "mark"} => l # {},
           s = "send" => Worth(l) \in Nat /\ Worth(l) >= Fee,
           NEW a \in SUBSET Coin, IsFiniteSet(a),
           At(g, s, l, a)
    PROVE  PaymentsTypeOK' /\ PayersInv'
BY DEF At, TypeInv, TypeOK, PaymentsTypeOK, PayersInv

LEMMA StopTypes ==
    ASSUME TypeInv, NEW g \in Payer, StopPaying(g)
    PROVE  PaymentsTypeOK' /\ PayersInv'
BY AtTypes, FS_EmptySet DEF StopPaying

LEMMA PutTypes ==
    ASSUME TypeInv, NEW c \in Coin, NEW b \in BOOLEAN, PutUtxo(c, b),
           UNCHANGED neoRetry
    PROVE  NeoStoreTypeOK'
BY DEF TypeInv, TypeOK, NeoStoreTypeOK, PutUtxo

LEMMA MakeTxTypes ==
    ASSUME TypeInv, NEW g \in Payer, MakeTx(g)
    PROVE  NeoStoreTypeOK' /\ PaymentsTypeOK' /\ PayersInv' /\ NoFault
<1>1. /\ unspent \in SUBSET Coin /\ IsFiniteSet(unspent)
      /\ left[g] \in SUBSET Coin /\ IsFiniteSet(left[g])
      /\ avail[g] \in SUBSET Coin /\ IsFiniteSet(avail[g])
  BY DEF TypeInv, TypeOK, NodeTypeOK, PaymentsTypeOK, PayersInv
<1>2. \A c \in left[g] :
          /\ left[g] \ {c} \in SUBSET Coin /\ IsFiniteSet(left[g] \ {c})
          /\ avail[g] \cup {c} \in SUBSET Coin /\ IsFiniteSet(avail[g] \cup {c})
  BY <1>1, FS_AddElement, FS_RemoveElement
<1>3. CASE GetUnspents(g)
  BY <1>1, <1>3, AtTypes, FS_EmptySet
     DEF GetUnspents, neoStoreVars, TypeInv, TypeOK, NeoStoreTypeOK
<1>4. CASE LookUp(g)
  <2>1. PICK c \in left[g] :
            IF ~IsListed(c) THEN At(g, "list", left[g], avail[g])
                ELSE At(g, "walk", left[g] \ {c},
                        IF utxo[c] THEN avail[g] ELSE avail[g] \cup {c})
    BY <1>4 DEF LookUp
  <2>2. PaymentsTypeOK' /\ PayersInv'
    <3>1. CASE ~IsListed(c)
      BY <1>1, <2>1, <3>1, AtTypes
    <3>2. CASE IsListed(c) /\ utxo[c]
      <4>1. At(g, "walk", left[g] \ {c}, avail[g])
        BY <2>1, <3>2
      <4> QED
        BY <1>1, <1>2, <4>1, AtTypes
    <3>3. CASE IsListed(c) /\ ~utxo[c]
      <4>1. At(g, "walk", left[g] \ {c}, avail[g] \cup {c})
        BY <2>1, <3>3
      <4> QED
        BY <1>1, <1>2, <4>1, AtTypes
    <3> QED
      BY <3>1, <3>2, <3>3
  <2> QED
    BY <1>4, <2>2
       DEF LookUp, neoStoreVars, TypeInv, TypeOK, NeoStoreTypeOK
<1>5. CASE ListUtxo(g)
  <2>1. PICK c \in left[g] :
            PutUtxo(c, FALSE) /\ At(g, "walk", left[g] \ {c}, avail[g] \cup {c})
    BY <1>5 DEF ListUtxo
  <2>2. c \in Coin
    BY <1>1
  <2>3. NeoStoreTypeOK'
    BY <1>5, <2>1, <2>2, PutTypes DEF ListUtxo
  <2> QED
    BY <1>2, <1>5, <2>1, <2>3, AtTypes DEF ListUtxo
<1>6. CASE ChooseInputs(g)
  <2>1. /\ Worth(avail[g]) >= Fee /\ At(g, "send", InputsOf(avail[g]), {})
        /\ UNCHANGED neoStoreVars /\ NoFault
    BY <1>6 DEF ChooseInputs
  <2> DEFINE I == InputsOf(avail[g])
  <2>2. /\ I \in SUBSET Coin /\ IsFiniteSet(I) /\ I # {}
        /\ Worth(I) \in Nat /\ Worth(I) >= Fee
    BY <1>1, <2>1, InputsPay
  <2> HIDE DEF I
  <2>3. At(g, "send", I, {})
    BY <2>1 DEF I
  <2> QED
    BY <2>1, <2>2, <2>3, AtTypes, FS_EmptySet
       DEF neoStoreVars, TypeInv, TypeOK, NeoStoreTypeOK
<1> QED
  BY <1>3, <1>4, <1>5, <1>6 DEF MakeTx

LEMMA SubmitTypes ==
    ASSUME TypeInv, NEW kind, NEW k, NEW h, NEW ins, NEW ch,
           [kind |-> kind, key |-> k, signed |-> h, inputs |-> ins,
            change |-> ch, status |-> "pending"] \in NeoTx,
           Submit(kind, k, h, ins, ch), NoFault
    PROVE  NodeTypeOK' /\ IsFiniteSet(unspent') /\ Len(neoTx') \in 0..MaxTxs
<1> DEFINE tx == [kind |-> kind, key |-> k, signed |-> h, inputs |-> ins,
                  change |-> ch, status |-> "pending"]
<1>1. neoTx \in Seq(NeoTx) /\ neoTx' = Append(neoTx, tx) /\ Len(neoTx) < MaxTxs
  BY DEF Submit, TypeInv, TypeOK, NodeTypeOK
<1>2. tx \in NeoTx
  OBVIOUS
<1> HIDE DEF tx
<1>3. /\ neoTx' \in Seq(NeoTx) /\ Len(neoTx') = Len(neoTx) + 1
      /\ Len(neoTx) \in Nat /\ MaxTxs \in Nat
  BY <1>1, <1>2, NodeAssumption
<1>4. Len(neoTx') \in 0..MaxTxs /\ Len(neoTx') <= MaxTxs
  BY <1>1, <1>3
<1> QED
  BY <1>3, <1>4
     DEF Submit, NoFault, faultVars, FailuresTypeOK, TypeInv, TypeOK, NodeTypeOK

(* A transfer that is paid for.                                            *)
LEMMA SendTypes ==
    ASSUME TypeInv, NEW g \in Payer, NEW k \in Keys,
           NEW h \in 0..(MaxHeight + 2), SendTx(g, k, h)
    PROVE  /\ NodeTypeOK' /\ PaymentsTypeOK' /\ PayersInv'
           /\ IsFiniteSet(unspent')
<1>1. /\ left[g] \in SUBSET Coin /\ IsFiniteSet(left[g]) /\ left[g] # {}
      /\ Worth(left[g]) \in Nat /\ Worth(left[g]) >= Fee /\ Fee \in Nat
  BY NodeAssumption
     DEF SendTx, TypeInv, TypeOK, PaymentsTypeOK, PayersInv
<1>2. [kind |-> "proof", key |-> k, signed |-> h, inputs |-> left[g],
       change |-> Worth(left[g]) - Fee, status |-> "pending"] \in NeoTx
  BY <1>1 DEF NeoTx, Status
<1>3. NodeTypeOK' /\ IsFiniteSet(unspent')
  BY <1>2, SubmitTypes DEF SendTx
<1>4. PaymentsTypeOK' /\ PayersInv'
  BY <1>1, AtTypes, FS_EmptySet DEF SendTx
<1> QED
  BY <1>3, <1>4

LEMMA MarkTypes ==
    ASSUME TypeInv, NEW g \in Payer, MarkOne(g) \/ MarkLast(g),
           UNCHANGED neoRetry
    PROVE  NeoStoreTypeOK' /\ PaymentsTypeOK' /\ PayersInv' /\ NoFault
<1>1. left[g] \in SUBSET Coin /\ IsFiniteSet(left[g])
  BY DEF TypeInv, TypeOK, PaymentsTypeOK, PayersInv
<1>2. PICK c \in left[g] : MarkSpent(g, c)
  BY DEF MarkOne, MarkLast
<1>3. NeoStoreTypeOK' /\ NoFault
  BY <1>1, <1>2, PutTypes DEF MarkSpent
<1>4. CASE MarkOne(g)
  <2>1. PICK d \in left[g] : left[g] # {d} /\ At(g, "mark", left[g] \ {d}, {})
    BY <1>4 DEF MarkOne
  <2>2. /\ left[g] \ {d} \in SUBSET Coin /\ left[g] \ {d} # {}
        /\ IsFiniteSet(left[g] \ {d})
    BY <1>1, <2>1, FS_RemoveElement
  <2> QED
    BY <1>3, <2>1, <2>2, AtTypes, FS_EmptySet
<1>5. CASE MarkLast(g)
  BY <1>3, <1>5, StopTypes DEF MarkLast
<1> QED
  BY <1>4, <1>5

(* What fails uses up a failure, and a given-up transfer has a key.        *)
LEMMA FaultTypes ==
    ASSUME TypeInv, NEW f,
           Fault(f) \/ (\E k \in Keys : Loss(f, k))
    PROVE  FailuresTypeOK' /\ dropped' \subseteq Keys
BY BudgetAssumption
   DEF Fault, Loss, Fails, TypeInv, TypeOK, NodeTypeOK, FailuresTypeOK

LEMMA HeightsNat ==
    /\ MaxHeight \in Nat /\ Heights = 0..MaxHeight
    /\ \A h \in Heights : h \in Nat /\ h <= MaxHeight
BY ChainAssumption DEF Heights

(* The header to be signed comes at most two after the last block.         *)
LEMMA SignedType ==
    ASSUME TypeInv, NEW h \in Heights, NEW last \in {0, LastSynced}
    PROVE  SignedHeader(h, last) \in 0..(MaxHeight + 2)
BY HeightsNat DEF SignedHeader, LastSynced, TypeInv, TypeOK, NodeTypeOK

LEMMA KeyAtKeys ==
    ASSUME NEW h \in Heights, NEW p \in TransfersOf[h]
    PROVE  KeyAt(h, p) \in Keys
BY KeysOfKeys DEF KeysOf

(* Nothing but the scanner's own variables and the failures.               *)
LEMMA OnlyFaults ==
    ASSUME TypeInv, UNCHANGED nodeVars,
           NoFault \/ (FailuresTypeOK' /\ dropped' \subseteq Keys)
    PROVE  NodeTypeOK' /\ IsFiniteSet(unspent')
BY DEF nodeVars, NoFault, faultVars, TypeInv, TypeOK, NodeTypeOK, FailuresTypeOK

(* What a step leaves alone keeps its type.                                *)
LEMMA QuietTypes ==
    ASSUME TypeInv
    PROVE  /\ UNCHANGED neoStoreVars => NeoStoreTypeOK'
           /\ UNCHANGED payVars => PaymentsTypeOK' /\ PayersInv'
           /\ UNCHANGED retrierVars => RetrierTypeOK'
           /\ UNCHANGED scanVars => ScannerTypeOK' /\
                 (spc' \in {"count", "block", "settle", "change", "wait"}
                    => todo' = {})
BY DEF TypeInv, TypeOK, neoStoreVars, payVars, retrierVars, scanVars,
       NeoStoreTypeOK, PaymentsTypeOK, PayersInv, RetrierTypeOK, ScannerTypeOK

ScanTypes ==
    /\ ScannerTypeOK
    /\ spc \in {"count", "block", "settle", "change", "wait"} => todo = {}

LEMMA LeaveScanTypes ==
    ASSUME TypeInv, LeaveScan, NoFault \/ \E f : Fault(f)
    PROVE  ScanTypes' /\ NodeTypeOK' /\ NeoStoreTypeOK' /\ PaymentsTypeOK'
             /\ PayersInv' /\ IsFiniteSet(unspent')
<1>1. UNCHANGED <<nodeVars, neoStoreVars, payVars>>
  BY DEF LeaveScan
<1>2. ScanTypes'
  BY HeightsNat DEF LeaveScan, ScanTypes, TypeInv, TypeOK, ScannerTypeOK
<1> QED
  BY <1>1, <1>2, FaultTypes, OnlyFaults, QuietTypes

LEMMA AdvanceTypes ==
    ASSUME TypeInv, Advance, spc \notin {"count", "block"}, todo = {},
           UNCHANGED <<nodeVars, neoStoreVars, payVars>>,
           NoFault \/ \E f : Fault(f)
    PROVE  ScanTypes' /\ NodeTypeOK' /\ NeoStoreTypeOK' /\ PaymentsTypeOK'
             /\ PayersInv' /\ IsFiniteSet(unspent')
<1>1. ScanTypes'
  BY HeightsNat, NodeAssumption
     DEF Advance, ScanTypes, TypeInv, TypeOK, ScannerTypeOK
<1> QED
  BY <1>1, FaultTypes, OnlyFaults, QuietTypes

LEMMA BlockTypes ==
    ASSUME TypeInv, GetBlockHeight \/ EndScan \/ GetEvents \/ GetEventsFails
    PROVE  ScanTypes' /\ NodeTypeOK' /\ NeoStoreTypeOK' /\ PaymentsTypeOK'
             /\ PayersInv' /\ IsFiniteSet(unspent')
<1>1. CASE GetBlockHeight
  <2>1. ScanTypes'
    BY <1>1, HeightsNat
       DEF GetBlockHeight, ScanTypes, TypeInv, TypeOK, ScannerTypeOK, NodeTypeOK
  <2> QED
    BY <1>1, <2>1, FaultTypes, OnlyFaults, QuietTypes DEF GetBlockHeight
<1>2. CASE EndScan \/ GetEventsFails
  BY <1>2, LeaveScanTypes DEF EndScan, GetEventsFails
<1>3. CASE GetEvents
  <2>1. ScanTypes'
    BY <1>3 DEF GetEvents, ScanTypes, TypeInv, TypeOK, ScannerTypeOK
  <2> QED
    BY <1>3, <2>1, OnlyFaults, QuietTypes DEF GetEvents
<1> QED
  BY <1>1, <1>2, <1>3

LEMMA VisitTypes ==
    ASSUME TypeInv, NEW p \in todo, Visit(p)
    PROVE  ScanTypes' /\ NodeTypeOK' /\ NeoStoreTypeOK' /\ PaymentsTypeOK'
             /\ PayersInv' /\ IsFiniteSet(unspent')
<1>1. neoSyncHeight \in Heights
  BY DEF TypeInv, TypeOK, ScannerTypeOK
<1>2. CASE TakeTransfer(p)
  <2>1. p \in TransfersOf[neoSyncHeight]
    BY <1>2 DEF TakeTransfer
  <2>2. KeyAt(neoSyncHeight, p) \in Keys
    BY <1>1, <2>1, KeyAtKeys
  <2>3. PICK last \in {0, LastSynced} :
            SyncedRead(last) /\ signed' = SignedHeader(neoSyncHeight, last)
    BY <1>2 DEF TakeTransfer
  <2>4. signed' \in 0..(MaxHeight + 2)
    BY <1>1, <2>3, SignedType
  <2>5. ScanTypes'
    BY <1>2, <2>2, <2>4
       DEF TakeTransfer, AtWork, ScanTypes, TypeInv, TypeOK, ScannerTypeOK
  <2>6. NoFault \/ \E f : Fault(f)
    BY <2>3 DEF SyncedRead
  <2> QED
    BY <1>2, <2>5, <2>6, FaultTypes, OnlyFaults, QuietTypes DEF TakeTransfer
<1>3. CASE SkipForeign(p) \/ GetProofFails(p)
  <2>1. Pass(p) /\ spc = "work"
    BY <1>3 DEF SkipForeign, GetProofFails, AtWork
  <2>2. ScanTypes'
    BY <2>1 DEF Pass, ScanTypes, TypeInv, TypeOK, ScannerTypeOK
  <2>3. NoFault \/ Fault("proof") \/ (\E k \in Keys : Loss("proof", k))
    BY <1>1, <1>3, KeyAtKeys DEF SkipForeign, GetProofFails
  <2> QED
    BY <2>1, <2>2, <2>3, FaultTypes, OnlyFaults, QuietTypes DEF Pass
<1> QED
  BY <1>2, <1>3 DEF Visit

LEMMA ReturnTypes ==
    ASSUME TypeInv, Return, spc \in {"pay", "putRetry"} PROVE ScanTypes'
<1>1. /\ spc' = "work" /\ key' = NoKey /\ signed' = 0
      /\ UNCHANGED <<neoSyncHeight, n, todo, waited>>
  BY DEF Return
<1>2. 0 \in 0..(MaxHeight + 2)
  BY HeightsNat
<1>3. ScannerTypeOK /\ neoSyncHeight < n
  BY DEF TypeInv, TypeOK, ScannerTypeOK
<1>4. ScannerTypeOK'
  BY <1>1, <1>2, <1>3 DEF ScannerTypeOK
<1> QED
  BY <1>1, <1>4 DEF ScanTypes

LEMMA SyncProofTypes ==
    ASSUME TypeInv, SyncProof
    PROVE  ScanTypes' /\ NodeTypeOK' /\ NeoStoreTypeOK' /\ PaymentsTypeOK'
             /\ PayersInv' /\ IsFiniteSet(unspent')
<1> USE DEF ScanTypes
<1>1. /\ spc \in {"pay", "putRetry"} /\ key \in Keys
      /\ neoSyncHeight \in Heights /\ signed \in 0..(MaxHeight + 2)
  BY DEF SyncProof, Pay, PayFails, PutAside, StoreNeoRetry, Send, Mark,
         MarkEnds, TypeInv, TypeOK, ScannerTypeOK
<1>2. "scanner" \in Payer
  BY DEF Payer
<1>3. CASE Pay
  BY <1>2, <1>3, MakeTxTypes, OnlyFaults, QuietTypes DEF Pay
<1>4. CASE PayFails
  <2>1. StopPaying("scanner") /\ \E f : Loss(f, key)
    BY <1>4 DEF PayFails, MakeTxFails
  <2> QED
    BY <1>1, <1>2, <1>4, <2>1, StopTypes, FaultTypes, OnlyFaults, QuietTypes,
       ReturnTypes DEF PayFails
<1>5. CASE PutAside
  <2>1. StopPaying("scanner") /\ (NoFault \/ Fault("send"))
    BY <1>5 DEF PutAside, NotEnough, TxRefused, SendFails
  <2>2. ScannerTypeOK' /\ spc' = "putRetry"
    BY <1>1, <1>5 DEF PutAside, TypeInv, TypeOK, ScannerTypeOK
  <2> QED
    BY <1>2, <1>5, <2>1, <2>2, StopTypes, FaultTypes, OnlyFaults, QuietTypes
       DEF PutAside
<1>6. CASE StoreNeoRetry
  <2>1. NeoStoreTypeOK'
    BY <1>1, <1>6 DEF StoreNeoRetry, PutNeoRetry, Record, TypeInv, TypeOK,
                      NeoStoreTypeOK
  <2> QED
    BY <1>1, <1>6, <2>1, FaultTypes, OnlyFaults, QuietTypes, ReturnTypes
       DEF StoreNeoRetry
<1>7. CASE Send
  BY <1>1, <1>2, <1>7, SendTypes, QuietTypes DEF Send
<1>8. CASE Mark
  <2>1. MarkOne("scanner") \/ MarkLast("scanner")
    BY <1>8 DEF Mark
  <2> QED
    BY <1>1, <1>2, <1>8, <2>1, MarkTypes, OnlyFaults, QuietTypes, ReturnTypes
       DEF Mark
<1>9. CASE MarkEnds
  <2>1. StopPaying("scanner") /\ Fault("db")
    BY <1>9 DEF MarkEnds, MarkFails
  <2> QED
    BY <1>1, <1>2, <1>9, <2>1, StopTypes, FaultTypes, OnlyFaults, QuietTypes,
       ReturnTypes DEF MarkEnds
<1> QED
  BY <1>3, <1>4, <1>5, <1>6, <1>7, <1>8, <1>9 DEF SyncProof

LEMMA EndBlockTypes ==
    ASSUME TypeInv, EndBlock
    PROVE  ScanTypes' /\ NodeTypeOK' /\ NeoStoreTypeOK' /\ PaymentsTypeOK'
             /\ PayersInv' /\ IsFiniteSet(unspent')
<1>1. todo = {} /\ spc \notin {"count", "block"}
  BY DEF EndBlock, FinishBlock, GetBlockFails, FinishKeyBlock, Settled,
         SendKeepers, KeepersRefused, KeepersChanged, BlockDone, TypeInv
<1>2. Len(neoTx) \in 0..MaxTxs
  BY NodeAssumption DEF TypeInv, TypeOK, NodeTypeOK
<1>3. CASE FinishBlock \/ KeepersRefused \/ KeepersChanged
  BY <1>1, <1>3, AdvanceTypes
     DEF FinishBlock, KeepersRefused, KeepersChanged, BlockGenerated
<1>4. CASE GetBlockFails
  BY <1>4, LeaveScanTypes DEF GetBlockFails
<1>5. CASE FinishKeyBlock \/ Settled
  <2>1. ScanTypes'
    BY <1>1, <1>2, <1>5 DEF FinishKeyBlock, Settled, ScanTypes, TypeInv, TypeOK,
                            ScannerTypeOK
  <2>2. NoFault \/ \E f : Fault(f)
    BY <1>5 DEF FinishKeyBlock, Settled, BlockGenerated
  <2> QED
    BY <1>5, <2>1, <2>2, FaultTypes, OnlyFaults, QuietTypes
       DEF FinishKeyBlock, Settled
<1>6. CASE SendKeepers
  <2> DEFINE I == InputsOf(unspent)
  <2>1. /\ I \in SUBSET Coin /\ IsFiniteSet(I)
        /\ Worth(I) \in Nat /\ Worth(I) >= Fee /\ Fee \in Nat
    BY <1>6, InputsPay, NodeAssumption
       DEF SendKeepers, Affordable, TypeInv, TypeOK, NodeTypeOK
  <2>2. Submit("keepers", NoKey, neoSyncHeight, I, Worth(I) - Fee) /\ NoFault
    BY <1>6 DEF SendKeepers
  <2> HIDE DEF I
  <2>3. neoSyncHeight \in Heights
    BY DEF TypeInv, TypeOK, ScannerTypeOK
  <2>4. [kind |-> "keepers", key |-> NoKey, signed |-> neoSyncHeight,
         inputs |-> I, change |-> Worth(I) - Fee, status |-> "pending"] \in NeoTx
    BY <2>1, <2>3 DEF NeoTx, Status
  <2>5. NodeTypeOK' /\ IsFiniteSet(unspent') /\ Len(neoTx') \in 0..MaxTxs
    BY <2>2, <2>4, SubmitTypes
  <2>6. ScanTypes'
    BY <1>1, <1>6, <2>5 DEF SendKeepers, ScanTypes, TypeInv, TypeOK, ScannerTypeOK
  <2> QED
    BY <1>6, <2>5, <2>6, QuietTypes DEF SendKeepers
<1> QED
  BY <1>3, <1>4, <1>5, <1>6 DEF EndBlock

LEMMA ScannerTypes ==
    ASSUME TypeInv, Scanner
    PROVE  TypeInv'
<1>1. ScanTypes' /\ NodeTypeOK' /\ NeoStoreTypeOK' /\ PaymentsTypeOK'
        /\ PayersInv' /\ IsFiniteSet(unspent')
  BY BlockTypes, VisitTypes, SyncProofTypes, EndBlockTypes
     DEF Scanner, ScannerStep
<1>2. RetrierTypeOK'
  BY QuietTypes DEF Scanner
<1> QED
  BY <1>1, <1>2 DEF TypeInv, TypeOK, ScanTypes

LEMMA ContinueTypes ==
    ASSUME TypeInv, Continue
    PROVE  RetrierTypeOK'
BY HeightsNat DEF Continue, TypeInv, TypeOK, RetrierTypeOK

LEMMA RecordTypes ==
    ASSUME TypeInv, NEW r \in retries, TakeRecord(r) \/ RetryLater(r)
    PROVE  RetrierTypeOK' /\ FailuresTypeOK' /\ dropped' \subseteq Keys
<1>1. r \in Record /\ r.height \in Heights
  BY DEF TypeInv, TypeOK, RetrierTypeOK, Record
<1>2. FailuresTypeOK /\ dropped \subseteq Keys
  BY DEF TypeInv, TypeOK, NodeTypeOK
<1>3. CASE TakeRecord(r)
  <2>1. PICK last \in {0, LastSynced} :
            SyncedRead(last) /\ curSigned' = SignedHeader(r.height, last)
    BY <1>3 DEF TakeRecord
  <2>2. curSigned' \in 0..(MaxHeight + 2)
    BY <1>1, <2>1, SignedType
  <2>3. RetrierTypeOK'
    BY <1>1, <1>3, <2>2 DEF TakeRecord, TypeInv, TypeOK, RetrierTypeOK
  <2>4. FailuresTypeOK' /\ dropped' \subseteq Keys
    BY <1>2, <2>1, FaultTypes
       DEF SyncedRead, NoFault, faultVars, FailuresTypeOK
  <2> QED
    BY <2>3, <2>4
<1>4. CASE RetryLater(r)
  <2>1. RetrierTypeOK'
    BY <1>4 DEF RetryLater, TypeInv, TypeOK, RetrierTypeOK
  <2>2. FailuresTypeOK' /\ dropped' \subseteq Keys
    BY <1>2, <1>4, FaultTypes
       DEF RetryLater, NoFault, faultVars, FailuresTypeOK
  <2> QED
    BY <2>1, <2>2
<1> QED
  BY <1>3, <1>4

LEMMA RetrierTypes ==
    ASSUME TypeInv, RetrierStep
    PROVE  RetrierTypeOK' /\ NodeTypeOK' /\ NeoStoreTypeOK' /\ PaymentsTypeOK'
             /\ PayersInv' /\ IsFiniteSet(unspent')
<1>1. "retrier" \in Payer
  BY DEF Payer
<1>2. CASE GetAllNeoRetry \/ EndRetry
  <2>1. NoFault /\ UNCHANGED <<nodeVars, neoStoreVars, payVars>>
    BY <1>2 DEF GetAllNeoRetry, EndRetry
  <2>2. RetrierTypeOK'
    BY <1>2 DEF GetAllNeoRetry, EndRetry, TypeInv, TypeOK, RetrierTypeOK,
                NeoStoreTypeOK
  <2> QED
    BY <2>1, <2>2, OnlyFaults, QuietTypes
<1>3. CASE \E r \in retries : TakeRecord(r) \/ RetryLater(r)
  <2>1. PICK r \in retries : TakeRecord(r) \/ RetryLater(r)
    BY <1>3
  <2>2. UNCHANGED <<nodeVars, neoStoreVars, payVars>>
    BY <2>1 DEF TakeRecord, RetryLater
  <2>3. RetrierTypeOK' /\ FailuresTypeOK' /\ dropped' \subseteq Keys
    BY <2>1, RecordTypes
  <2> QED
    BY <2>2, <2>3, OnlyFaults, QuietTypes
<1>4. CASE RetryPay
  BY <1>1, <1>4, MakeTxTypes, OnlyFaults, QuietTypes DEF RetryPay
<1>5. CASE RetryStays
  <2>1. StopPaying("retrier") /\ NoFault /\ Continue
        /\ UNCHANGED <<nodeVars, neoStoreVars>>
    BY <1>5 DEF RetryStays, NotEnough, TxRefused
  <2> QED
    BY <1>1, <2>1, StopTypes, OnlyFaults, QuietTypes, ContinueTypes
<1>6. CASE RetryRefused
  <2>1. cur \in Record /\ cur.key \in Keys
    BY <1>6 DEF RetryRefused, TypeInv, TypeOK, RetrierTypeOK, Record
  <2>2. /\ StopPaying("retrier") /\ (\E f : Loss(f, cur.key))
        /\ UNCHANGED <<nodeVars, neoStoreVars>>
    BY <1>6 DEF RetryRefused, MakeTxFails, SendFails
  <2>3. RetrierTypeOK'
    BY <1>6, <2>1 DEF RetryRefused, TypeInv, TypeOK, RetrierTypeOK
  <2> QED
    BY <1>1, <2>1, <2>2, <2>3, StopTypes, FaultTypes, OnlyFaults, QuietTypes
<1>7. CASE DropRecord \/ DeleteRecord
  <2>1. neoRetry' \subseteq neoRetry /\ UNCHANGED <<nodeVars, payVars, utxo>>
        /\ Continue /\ (NoFault \/ Fault("db"))
    BY <1>7 DEF DropRecord, DeleteRecord, DeleteNeoRetry
  <2>2. NeoStoreTypeOK'
    BY <2>1 DEF TypeInv, TypeOK, NeoStoreTypeOK
  <2> QED
    BY <2>1, <2>2, FaultTypes, OnlyFaults, QuietTypes, ContinueTypes
<1>8. CASE Resend
  <2>1. cur.key \in Keys /\ curSigned \in 0..(MaxHeight + 2)
    BY <1>8 DEF Resend, TypeInv, TypeOK, RetrierTypeOK, Record
  <2> QED
    BY <1>1, <1>8, <2>1, SendTypes, QuietTypes DEF Resend
<1>9. CASE RetryMark
  <2>1. MarkOne("retrier") \/ MarkLast("retrier")
    BY <1>9 DEF RetryMark
  <2>2. RetrierTypeOK'
    BY <1>9 DEF RetryMark, retrierVars, TypeInv, TypeOK, RetrierTypeOK
  <2> QED
    BY <1>1, <1>9, <2>1, <2>2, MarkTypes, OnlyFaults DEF RetryMark
<1>10. CASE RetryMarkEnds
  <2>1. StopPaying("retrier") /\ Fault("db") /\ Continue
        /\ UNCHANGED <<nodeVars, neoStoreVars>>
    BY <1>10 DEF RetryMarkEnds, MarkFails
  <2> QED
    BY <1>1, <2>1, StopTypes, FaultTypes, OnlyFaults, QuietTypes, ContinueTypes
<1> QED
  BY <1>2, <1>3, <1>4, <1>5, <1>6, <1>7, <1>8, <1>9, <1>10 DEF RetrierStep

(* Neo executes or drops what it was sent.                                 *)
LEMMA StatusTypes ==
    ASSUME TypeInv, NEW x \in DOMAIN neoTx, NEW s \in Status,
           neoTx' = [neoTx EXCEPT ![x].status = s]
    PROVE  neoTx' \in Seq(NeoTx) /\ Len(neoTx') <= MaxTxs
<1>1. neoTx \in Seq(NeoTx) /\ Len(neoTx) <= MaxTxs
  BY DEF TypeInv, TypeOK, NodeTypeOK
<1> DEFINE tx == [neoTx[x] EXCEPT !.status = s]
<1>2. neoTx[x] \in NeoTx
  BY <1>1
<1>3. tx \in NeoTx
  BY <1>2 DEF NeoTx
<1>4. neoTx' = [neoTx EXCEPT ![x] = tx]
  OBVIOUS
<1> HIDE DEF tx
<1> QED
  BY <1>1, <1>3, <1>4

LEMMA ChangeTypes ==
    ASSUME TypeInv, NEW x \in DOMAIN neoTx
    PROVE  ChangeOf(x) \subseteq Coin /\ IsFiniteSet(ChangeOf(x))
<1>1. neoTx \in Seq(NeoTx) /\ Len(neoTx) <= MaxTxs /\ MaxTxs \in Nat
  BY NodeAssumption DEF TypeInv, TypeOK, NodeTypeOK
<1>2. neoTx[x] \in NeoTx /\ x \in 0..MaxTxs
  BY <1>1
<1>3. neoTx[x].change \in Nat
  BY <1>2 DEF NeoTx
<1>4. CASE neoTx[x].change = 0
  BY <1>4, FS_EmptySet DEF ChangeOf
<1>5. CASE neoTx[x].change # 0
  <2> DEFINE c == [tx |-> x, index |-> 0, value |-> neoTx[x].change]
  <2>1. c \in Coin
    BY <1>2, <1>3, <1>5 DEF Coin
  <2>2. ChangeOf(x) = {c}
    BY <1>5 DEF ChangeOf
  <2> HIDE DEF c
  <2> QED
    BY <2>1, <2>2, FS_Singleton
<1> QED
  BY <1>4, <1>5

LEMMA ChainTypes ==
    ASSUME TypeInv, Neo \/ NeoTrouble \/ PolyBlock
    PROVE  TypeInv'
<1>1. /\ neoTx \in Seq(NeoTx) /\ Len(neoTx) <= MaxTxs
      /\ polyHeight \in Heights /\ unspent \in SUBSET Coin
      /\ IsFiniteSet(unspent) /\ neoDone \subseteq Keys /\ synced \in Heights
      /\ FailuresTypeOK /\ dropped \subseteq Keys
  BY DEF TypeInv, TypeOK, NodeTypeOK
<1>2. UNCHANGED <<neoStoreVars, payVars, scanVars, retrierVars>>
  BY DEF Neo, NeoTrouble, PolyBlock, Relayer
<1>3. SUFFICES NodeTypeOK' /\ IsFiniteSet(unspent')
  BY <1>2, QuietTypes DEF TypeInv, TypeOK
<1>4. \A x \in DOMAIN neoTx :
          /\ neoTx[x].kind = "proof" => neoTx[x].key \in Keys
          /\ neoTx[x].kind = "keepers" => neoTx[x].signed \in Heights
  <2> TAKE x \in DOMAIN neoTx
  <2>1. neoTx[x] \in NeoTx
    BY <1>1
  <2> QED
    BY <2>1 DEF NeoTx
<1>5. CASE Neo
  <2>1. PICK x \in DOMAIN neoTx : NeoExecutes(x)
    BY <1>5 DEF Neo
  <2> DEFINE s == IF Executable(neoTx[x]) THEN "ok" ELSE "fault"
  <2>2. s \in Status /\ neoTx' = [neoTx EXCEPT ![x].status = s]
    BY <2>1 DEF NeoExecutes, Status
  <2> HIDE DEF s
  <2>3. neoTx' \in Seq(NeoTx) /\ Len(neoTx') <= MaxTxs
    BY <2>2, StatusTypes
  <2> DEFINE kept == unspent \ neoTx[x].inputs
  <2>4. kept \in SUBSET Coin /\ IsFiniteSet(kept)
    BY <1>1, FS_Subset
  <2>5. unspent' = kept \cup ChangeOf(x)
    BY <2>1 DEF NeoExecutes
  <2> HIDE DEF kept
  <2>6. unspent' \in SUBSET Coin /\ IsFiniteSet(unspent')
    BY <2>4, <2>5, ChangeTypes, FS_Union
  <2>7. neoDone' \subseteq Keys /\ synced' \in Heights
    BY <1>1, <1>4, <2>1 DEF NeoExecutes
  <2> QED
    BY <1>1, <2>1, <2>3, <2>6, <2>7
       DEF NeoExecutes, NoFault, faultVars, NodeTypeOK, FailuresTypeOK
<1>6. CASE NeoTrouble
  <2>1. CASE \E x \in DOMAIN neoTx : NeoEvicts(x)
    <3>1. PICK x \in DOMAIN neoTx : NeoEvicts(x)
      BY <2>1
    <3>2. neoTx' \in Seq(NeoTx) /\ Len(neoTx') <= MaxTxs
      BY <3>1, StatusTypes DEF NeoEvicts, Status
    <3>3. neoTx[x].kind = "proof" \/ Fault("evict")
      BY <3>1 DEF NeoEvicts
    <3>4. FailuresTypeOK' /\ dropped' \subseteq Keys
      BY <1>4, <3>1, <3>3, FaultTypes DEF NeoEvicts
    <3> QED
      BY <1>1, <3>1, <3>2, <3>4 DEF NeoEvicts, NodeTypeOK
  <2>2. CASE \E k \in Keys : OtherExecutes(k)
    BY <1>1, <2>2, FaultTypes DEF OtherExecutes, NodeTypeOK
  <2> QED
    BY <1>6, <2>1, <2>2 DEF NeoTrouble
<1>7. CASE PolyBlock
  <2>1. polyHeight' \in Heights
    BY <1>1, <1>7, HeightsNat DEF PolyBlock, PolyGrow
  <2> QED
    BY <1>1, <1>7, <2>1
       DEF PolyBlock, PolyGrow, faultVars, NodeTypeOK, FailuresTypeOK
<1> QED
  BY <1>5, <1>6, <1>7

LEMMA StartHeight == PolyStartHeight \in Heights
BY StartAssumption, NodeAssumption, HeightsNat

LEMMA PayersReset ==
    ASSUME step' = [g \in Payer |-> "none"], left' = [g \in Payer |-> {}],
           avail' = [g \in Payer |-> {}]
    PROVE  PaymentsTypeOK' /\ PayersInv'
BY FS_EmptySet DEF PaymentsTypeOK, PayersInv

LEMMA CrashTypes ==
    ASSUME TypeInv, Crash
    PROVE  TypeInv'
<1>1. NodeTypeOK' /\ IsFiniteSet(unspent')
  BY FaultTypes, OnlyFaults DEF Crash
<1>2. NeoStoreTypeOK'
  BY QuietTypes DEF Crash
<1>3. PaymentsTypeOK' /\ PayersInv'
  BY PayersReset DEF Crash
<1>4. ScannerTypeOK' /\ todo' = {}
  BY StartHeight, HeightsNat, NodeAssumption
     DEF Crash, ScannerReset, ScannerTypeOK
<1>5. RetrierTypeOK'
  BY HeightsNat DEF Crash, RetrierReset, RetrierTypeOK
<1> QED
  BY <1>1, <1>2, <1>3, <1>4, <1>5 DEF TypeInv, TypeOK

LEMMA TypeStep ==
    ASSUME TypeInv, [Next]_vars
    PROVE  TypeInv'
<1>1. CASE Scanner
  BY <1>1, ScannerTypes
<1>2. CASE Retrier
  <2>1. RetrierStep /\ UNCHANGED scanVars
    BY <1>2 DEF Retrier
  <2> QED
    BY <2>1, RetrierTypes, QuietTypes DEF TypeInv, TypeOK
<1>3. CASE Neo \/ NeoTrouble \/ PolyBlock
  BY <1>3, ChainTypes
<1>4. CASE Crash
  BY <1>4, CrashTypes
<1>5. CASE UNCHANGED vars
  BY <1>5, OnlyFaults, QuietTypes DEF vars, NoFault, TypeInv, TypeOK
<1> QED
  BY <1>1, <1>2, <1>3, <1>4, <1>5 DEF Next

LEMMA TypeInit ==
    ASSUME Init
    PROVE  TypeInv
<1>1. NodeTypeOK /\ IsFiniteSet(unspent)
  <2>1. Coins \subseteq Coin
    BY NodeAssumption DEF Coin
  <2> QED
    BY <2>1, HeightsNat, NodeAssumption, BudgetAssumption
       DEF Init, NodeInit, NodeTypeOK, FailuresInit, FailuresTypeOK
<1>2. NeoStoreTypeOK
  BY DEF Init, NeoStoreInit, NeoStoreTypeOK
<1>3. PaymentsTypeOK /\ PayersInv
  BY FS_EmptySet DEF Init, PaymentsInit, PaymentsTypeOK, PayersInv
<1>4. ScannerTypeOK /\ todo = {}
  BY StartHeight, HeightsNat, NodeAssumption
     DEF Init, ScannerInit, ScannerTypeOK
<1>5. RetrierTypeOK
  BY HeightsNat DEF Init, RetrierInit, RetrierTypeOK
<1> QED
  BY <1>1, <1>2, <1>3, <1>4, <1>5 DEF TypeInv, TypeOK

(* Every variable keeps its type.  The change of a transaction is never    *)
(* negative, for the inputs GetTransactionInputs picks cover the fee, and  *)
(* there is always an input to mark.                                       *)
THEOREM TypeCorrect == Spec => []TypeOK
<1>1. TypeInv => TypeOK
  BY DEF TypeInv
<1> QED
  BY <1>1, TypeInit, TypeStep, PTL DEF Spec

=============================================================================
