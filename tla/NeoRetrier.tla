----------------------------- MODULE NeoRetrier -----------------------------
(***************************************************************************)
(* The goroutine RelayToNeoRetry (src/service/rtonService.go:97-105):      *)
(* neoRetryTx sends the records of bucket NeoRetry again                   *)
(* (src/service/rtonMethods.go:437-640).                                   *)
(*                                                                         *)
(*   idle    asleep, or about to read the bucket                           *)
(*   loop    in neoRetryTx, the records in retries are still to be sent    *)
(*   pay     in retrySyncProofToNeo, in MakeInvocationTransaction and after*)
(*   drop    before DeleteNeoRetry(cur) after an error                     *)
(*   delete  before DeleteNeoRetry(cur) after the transaction was sent     *)
(***************************************************************************)
EXTENDS Payments

CONSTANT NoRecord

VARIABLES
    rpc,                 \* where the goroutine is
    retries,             \* the records of retryList not yet visited
    cur,                 \* the record at hand
    curSigned            \* the height of the header to be signed

retrierVars == <<rpc, retries, cur, curSigned>>

RetrierTypeOK ==
    /\ rpc \in {"idle", "loop", "pay", "drop", "delete"}
    /\ retries \subseteq Record
    /\ cur \in Record \cup {NoRecord}
    /\ rpc \in {"pay", "drop", "delete"} => cur \in Record
    /\ curSigned \in 0..(MaxHeight + 2)

RetrierInit ==
    rpc = "idle" /\ retries = {} /\ cur = NoRecord /\ curSigned = 0

RetrierReset ==
    rpc' = "idle" /\ retries' = {} /\ cur' = NoRecord /\ curSigned' = 0

Continue ==
    rpc' = "loop" /\ cur' = NoRecord /\ curSigned' = 0 /\ UNCHANGED retries

-----------------------------------------------------------------------------

GetAllNeoRetry ==
    /\ rpc = "idle"
    /\ NoFault
    /\ \E batch \in SUBSET neoRetry :
           IsBatch(neoRetry, batch) /\ retries' = batch
    /\ rpc' = "loop"
    /\ UNCHANGED <<nodeVars, neoStoreVars, payVars, cur, curSigned>>

TakeRecord(r) ==
    /\ rpc = "loop"
    /\ \E last \in {0, LastSynced} :
           /\ SyncedRead(last)
           /\ curSigned' = SignedHeader(r.height, last)
    /\ curSigned' <= polyHeight
    /\ retries' = retries \ {r}
    /\ cur' = r
    /\ rpc' = "pay"
    /\ UNCHANGED <<nodeVars, neoStoreVars, payVars>>

(* The proof or a header cannot be had: the record stays.                  *)
RetryLater(r) ==
    /\ rpc = "loop"
    /\ \/ Fault("proof")
       \/ NoFault /\ SignedHeader(r.height, LastSynced) > polyHeight
    /\ retries' = retries \ {r}
    /\ UNCHANGED <<nodeVars, neoStoreVars, payVars, rpc, cur, curSigned>>

RetryPay ==
    /\ rpc = "pay"
    /\ MakeTx("retrier")
    /\ UNCHANGED <<nodeVars, retrierVars>>

(* A mutant: every error ends the record.                                  *)
RetryStaysNever ==
    /\ rpc = "pay"
    /\ NotEnough("retrier") \/ TxRefused("retrier")
    /\ rpc' = "drop"
    /\ UNCHANGED <<nodeVars, neoStoreVars, retries, cur, curSigned>>

(* Still not enough balance, or refused for its inputs: the record stays.  *)
RetryStays ==
    /\ rpc = "pay"
    /\ NotEnough("retrier") \/ TxRefused("retrier")
    /\ Continue
    /\ UNCHANGED <<nodeVars, neoStoreVars>>

(* Any other error of MakeInvocationTransaction or of sending ends it.     *)
RetryRefused ==
    /\ rpc = "pay"
    /\ \/ MakeTxFails("retrier", cur.key)
       \/ SendFails("retrier") /\ Loss("resend", cur.key)
    /\ rpc' = "drop"
    /\ UNCHANGED <<nodeVars, neoStoreVars, retries, cur, curSigned>>

DropRecord ==
    /\ rpc = "drop"
    /\ \/ NoFault /\ DeleteNeoRetry(cur)
       \/ Fault("db") /\ UNCHANGED neoRetry
    /\ Continue
    /\ UNCHANGED <<nodeVars, payVars, utxo>>

Resend ==
    /\ rpc = "pay"
    /\ SendTx("retrier", cur.key, curSigned)
    /\ UNCHANGED <<neoStoreVars, retrierVars>>

(* A failed mark leaves the record in the bucket.                          *)
RetryMark ==
    /\ rpc = "pay"
    /\ \/ MarkOne("retrier") /\ UNCHANGED retrierVars
       \/ /\ MarkLast("retrier")
          /\ rpc' = "delete"
          /\ UNCHANGED <<retries, cur, curSigned>>
    /\ UNCHANGED <<nodeVars, neoRetry>>

RetryMarkEnds ==
    /\ rpc = "pay"
    /\ MarkFails("retrier")
    /\ Continue
    /\ UNCHANGED <<nodeVars, neoStoreVars>>

(* A mutant: the record of a transaction that was sent stays.              *)
DeleteNever ==
    /\ rpc = "delete"
    /\ NoFault
    /\ Continue
    /\ UNCHANGED <<nodeVars, payVars, neoStoreVars>>

(* When the deletion fails it is tried once more.                          *)
DeleteRecord ==
    /\ rpc = "delete"
    /\ \/ NoFault /\ DeleteNeoRetry(cur)
       \/ Fault("db") /\ (DeleteNeoRetry(cur) \/ UNCHANGED neoRetry)
    /\ Continue
    /\ UNCHANGED <<nodeVars, payVars, utxo>>

EndRetry ==
    /\ rpc = "loop" /\ retries = {}
    /\ NoFault
    /\ rpc' = "idle"
    /\ UNCHANGED <<nodeVars, neoStoreVars, payVars, retries, cur, curSigned>>

RetrierStep ==
    \/ GetAllNeoRetry
    \/ \E r \in retries : TakeRecord(r) \/ RetryLater(r)
    \/ RetryPay \/ RetryStays \/ RetryRefused \/ DropRecord
    \/ Resend \/ RetryMark \/ RetryMarkEnds \/ DeleteRecord \/ EndRetry

=============================================================================
