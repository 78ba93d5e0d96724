------------------------------ MODULE NeoStore ------------------------------
(***************************************************************************)
(* The two BoltDB buckets of the direction Poly -> Neo (src/db/db.go):     *)
(*   NeoRetry   the transfers to send again                                *)
(*   Utxo       utxo -> whether the relayer has spent it                   *)
(* One call is one bolt transaction, hence one atomic step; a caller that  *)
(* reads and then writes takes two.                                        *)
(***************************************************************************)
EXTENDS NeoNode, Buckets

VARIABLES
    neoRetry,        \* bucket NeoRetry: a set of records
    utxo             \* bucket Utxo: a function from the utxos it has seen

neoStoreVars == <<neoRetry, utxo>>

(* db.Retry: the height of the Poly block and the key of the transfer.     *)
Record == [height : Heights, key : Keys]

NeoStoreTypeOK ==
    /\ neoRetry \subseteq Record
    /\ DOMAIN utxo \subseteq Coin
    /\ \A c \in DOMAIN utxo : utxo[c] \in BOOLEAN

NeoStoreInit == neoRetry = {} /\ utxo = [c \in {} |-> FALSE]

PutNeoRetry(rec) == neoRetry' = neoRetry \cup {rec}

DeleteNeoRetry(rec) == neoRetry' = neoRetry \ {rec}

(* GetUtxo fails with "value does not exist" for any other utxo.           *)
IsListed(c) == c \in DOMAIN utxo

PutUtxo(c, isSpent) ==
    utxo' = [d \in DOMAIN utxo \cup {c} |-> IF d = c THEN isSpent ELSE utxo[d]]

=============================================================================
