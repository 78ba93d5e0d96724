----------------------------- MODULE RelayStore -----------------------------
(***************************************************************************)
(* The two BoltDB buckets of the direction Neo -> Poly (src/db/db.go):     *)
(*   Check   Poly transaction hash -> the record it was sent for           *)
(*   Retry   the records to send again                                     *)
(* Every operation runs in one bolt transaction under the write lock, so   *)
(* it is one atomic step, and what it wrote survives a crash.              *)
(***************************************************************************)
EXTENDS Chains, Buckets

VARIABLES
    check,           \* bucket Check: a set of [hash, rec]
    retry            \* bucket Retry: a set of records

storeVars == <<check, retry>>

(* db.Retry: the height the proof is for and the storage key it proves.    *)
Record == [height : ProofHeights, key : Keys]

CheckEntry == [hash : Hashes, rec : Record]

StoreTypeOK == check \subseteq CheckEntry /\ retry \subseteq Record

StoreInit == check = {} /\ retry = {}

PutCheck(hash, rec) ==
    check' = { c \in check : c.hash # hash } \cup {[hash |-> hash, rec |-> rec]}

DeleteCheck(hash) == check' = { c \in check : c.hash # hash }

PutRetry(rec) == retry' = retry \cup {rec}

DeleteRetry(rec) == retry' = retry \ {rec}

=============================================================================
