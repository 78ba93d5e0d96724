---------------------------- MODULE CheckAndRetry ---------------------------
(***************************************************************************)
(* The goroutine NeoToRelayCheckAndRetry (src/service/ntorService.go:183-  *)
(* 195): checkDoneTx asks Poly what became of the transactions in bucket   *)
(* Check, retryTx sends the records of bucket Retry again.                 *)
(*                                                                         *)
(*   idle      asleep, or about to call checkDoneTx                        *)
(*   check     in checkDoneTx, the entries in checks are still to be asked *)
(*   putRetry  in checkDoneTx, before PutRetry of cur                      *)
(*   drop      in checkDoneTx, before DeleteCheck of curHash               *)
(*   retry     in retryTx, the records in retries are still to be sent     *)
(*   putCheck  in retrySyncProofToRelay, after ImportOuterTransfer         *)
(*   delete    in retrySyncProofToRelay, before DeleteRetry of cur         *)
(***************************************************************************)
EXTENDS RelayStore

CONSTANT NoRecord

VARIABLES
    rpc,                 \* where the goroutine is
    checks,              \* checkDoneTx: the entries of checkMap not yet visited
    retries,             \* retryTx: the records of retryList not yet visited
    cur,                 \* the record at hand
    curHash              \* the hash of its transaction

retrierVars == <<rpc, checks, retries, cur, curHash>>

RetrierTypeOK ==
    /\ rpc \in {"idle", "check", "putRetry", "drop", "retry", "putCheck",
                "delete"}
    /\ checks \subseteq CheckEntry
    /\ retries \subseteq Record
    /\ cur \in Record \cup {NoRecord}
    /\ rpc \in {"putRetry", "drop", "putCheck", "delete"} => cur \in Record
    /\ curHash \in Hashes \cup {0}
    /\ rpc \in {"putRetry", "drop", "putCheck"} => curHash \in Hashes

RetrierInit ==
    /\ rpc = "idle"
    /\ checks = {} /\ retries = {}
    /\ cur = NoRecord /\ curHash = 0

RetrierReset ==
    /\ rpc' = "idle"
    /\ checks' = {} /\ retries' = {}
    /\ cur' = NoRecord /\ curHash' = 0

(* The loop goes on with what is left of its snapshot.                     *)
Continue(pc) == rpc' = pc /\ cur' = NoRecord /\ curHash' = 0

-----------------------------------------------------------------------------
(* checkDoneTx                                                             *)

GetAllCheck ==
    /\ rpc = "idle"
    /\ NoFault
    /\ \E batch \in SUBSET check : IsBatch(check, batch) /\ checks' = batch
    /\ rpc' = "check"
    /\ UNCHANGED <<neoVars, polyVars, storeVars, retries, cur, curHash>>

(* No event yet: the entry waits for the next round.                       *)
EventMissing(c) ==
    /\ rpc = "check"
    /\ NoFault
    /\ polyTx[c.hash].status \in {"pending", "gone"}
    /\ checks' = checks \ {c}
    /\ UNCHANGED <<neoVars, polyVars, storeVars, rpc, retries, cur, curHash>>

(* A mutant: the state of the event is not looked at.                      *)
EventFoundIsSuccess(c) ==
    /\ rpc = "check"
    /\ NoFault
    /\ polyTx[c.hash].status \in {"ok", "failed"}
    /\ checks' = checks \ {c}
    /\ cur' = c.rec /\ curHash' = c.hash
    /\ rpc' = "drop"
    /\ UNCHANGED <<neoVars, polyVars, storeVars, retries>>

EventFound(c) ==
    /\ rpc = "check"
    /\ NoFault
    /\ polyTx[c.hash].status \in {"ok", "failed"}
    /\ checks' = checks \ {c}
    /\ cur' = c.rec /\ curHash' = c.hash
    /\ rpc' = IF polyTx[c.hash].status = "ok" THEN "drop" ELSE "putRetry"
    /\ UNCHANGED <<neoVars, polyVars, storeVars, retries>>

(* An error of the query ends checkDoneTx.                                 *)
GetEventFails ==
    /\ rpc = "check" /\ checks # {}
    /\ Fault("event")
    /\ checks' = {}
    /\ UNCHANGED <<neoVars, polyVars, storeVars, rpc, retries, cur, curHash>>

StoreFailed ==
    /\ rpc = "putRetry"
    /\ \/ NoFault /\ PutRetry(cur)
       \/ Loss("db", cur.key) /\ UNCHANGED retry
    /\ rpc' = "drop"
    /\ UNCHANGED <<neoVars, polyVars, check, checks, retries, cur, curHash>>

DropCheck ==
    /\ rpc = "drop"
    /\ \/ NoFault /\ DeleteCheck(curHash)
       \/ Fault("db") /\ UNCHANGED check
    /\ Continue("check")
    /\ UNCHANGED <<neoVars, polyVars, retry, checks, retries>>

-----------------------------------------------------------------------------
(* retryTx                                                                 *)

(* A mutant: records are sent again only when no transaction is awaited.   *)
GetAllRetryLast ==
    /\ rpc = "check" /\ checks = {}
    /\ NoFault
    /\ \E batch \in SUBSET retry :
           /\ IsBatch(retry, batch)
           /\ retries' = IF check = {} THEN batch ELSE {}
    /\ rpc' = "retry"
    /\ UNCHANGED <<neoVars, polyVars, storeVars, checks, cur, curHash>>

GetAllRetry ==
    /\ rpc = "check" /\ checks = {}
    /\ NoFault
    /\ \E batch \in SUBSET retry : IsBatch(retry, batch) /\ retries' = batch
    /\ rpc' = "retry"
    /\ UNCHANGED <<neoVars, polyVars, storeVars, checks, cur, curHash>>

(* The state root or the proof cannot be had, or there is no utxo: the     *)
(* record stays.  The state root of a block that does not exist yet cannot *)
(* be had either.                                                          *)
RetryLater(r) ==
    /\ rpc = "retry"
    /\ \/ r.height > neoHeight /\ NoFault
       \/ Fault("stateRoot")
       \/ Fault("proof")
       \/ r.height <= neoHeight /\ Fault("utxo")
    /\ retries' = retries \ {r}
    /\ UNCHANGED <<neoVars, polyVars, storeVars, rpc, checks, cur, curHash>>

(* The proof is sent for the height stored with the record.                *)
Resend(r) ==
    /\ rpc = "retry" /\ r.height <= neoHeight
    /\ NoFault
    /\ Importable(r.key, r.height)
    /\ Submit("import", r.height, r.key)
    /\ retries' = retries \ {r}
    /\ cur' = r /\ curHash' = Len(polyTx')
    /\ rpc' = "putCheck"
    /\ UNCHANGED <<neoVars, storeVars, checks>>

(* A mutant: every error leaves the record in the bucket.                  *)
ResendRefusedLater(r) ==
    /\ rpc = "retry" /\ r.height <= neoHeight
    /\ \/ ~Importable(r.key, r.height) /\ NoFault
       \/ Fault("import")
    /\ retries' = retries \ {r}
    /\ UNCHANGED <<neoVars, polyVars, storeVars, rpc, checks, cur, curHash>>

(* Any other error than a missing utxo ends the record.                    *)
ResendRefused(r) ==
    /\ rpc = "retry" /\ r.height <= neoHeight
    /\ \/ ~Importable(r.key, r.height) /\ NoFault
       \/ Loss("import", r.key)
    /\ retries' = retries \ {r}
    /\ cur' = r
    /\ rpc' = "delete"
    /\ UNCHANGED <<neoVars, polyVars, storeVars, checks, curHash>>

(* A mutant: the hash is not stored before the record is deleted.          *)
StoreResentNever ==
    /\ rpc = "putCheck"
    /\ NoFault
    /\ rpc' = "delete"
    /\ UNCHANGED <<neoVars, polyVars, storeVars, checks, retries, cur, curHash>>

(* When the hash cannot be stored the record stays, and is sent again.     *)
StoreResent ==
    /\ rpc = "putCheck"
    /\ \/ /\ NoFault /\ PutCheck(curHash, cur)
          /\ rpc' = "delete" /\ UNCHANGED <<cur, curHash>>
       \/ Fault("db") /\ UNCHANGED check /\ Continue("retry")
    /\ UNCHANGED <<neoVars, polyVars, retry, checks, retries>>

RemoveRetry ==
    /\ rpc = "delete"
    /\ \/ NoFault /\ DeleteRetry(cur)
       \/ Fault("db") /\ UNCHANGED retry
    /\ Continue("retry")
    /\ UNCHANGED <<neoVars, polyVars, check, checks, retries>>

EndRetry ==
    /\ rpc = "retry" /\ retries = {}
    /\ NoFault
    /\ rpc' = "idle"
    /\ UNCHANGED <<neoVars, polyVars, storeVars, checks, retries, cur, curHash>>

-----------------------------------------------------------------------------

CheckDoneTx ==
    \/ GetAllCheck
    \/ \E c \in checks : EventMissing(c) \/ EventFound(c)
    \/ GetEventFails \/ StoreFailed \/ DropCheck

RetryTx ==
    \/ GetAllRetry
    \/ \E r \in retries : RetryLater(r) \/ Resend(r) \/ ResendRefused(r)
    \/ StoreResent \/ RemoveRetry \/ EndRetry

RetrierStep == CheckDoneTx \/ RetryTx

=============================================================================
