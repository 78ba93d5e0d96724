------------------------------ MODULE Payments ------------------------------
(***************************************************************************)
(* How a goroutine builds, pays for and sends a Neo transaction            *)
(* (src/service/rtonMethods.go:228-435, 642-771): it reads what Neo knows  *)
(* of Poly's peers, lists the utxos of the address and looks each one up   *)
(* in bucket Utxo (GetBalance), chooses the inputs, sends, and then marks  *)
(* the inputs as spent, one by one.  Both goroutines do so at the same     *)
(* time, and nothing but the single calls is atomic.                       *)
(*                                                                         *)
(*   none   not paying, or before GetUnspents                              *)
(*   walk   in GetBalance, the utxos in left are still to be looked up     *)
(*   list   in GetBalance, before PutUtxo(first of left, false)            *)
(*   send   the utxos in left are the inputs, before SendRawTransaction    *)
(*   mark   the transaction is sent, the utxos in left are to be marked    *)
(***************************************************************************)
EXTENDS NeoStore, CoinChoice

VARIABLES
    step,            \* where each goroutine is in paying
    left,            \* the utxos still to be visited
    avail            \* GetBalance: unspents, those that may be spent

payVars == <<step, left, avail>>

Payer == {"scanner", "retrier"}

PaymentsTypeOK ==
    /\ step \in [Payer -> {"none", "walk", "list", "send", "mark"}]
    /\ left \in [Payer -> SUBSET Coin]
    /\ avail \in [Payer -> SUBSET Coin]
    /\ \A g \in Payer : step[g] \in {"list", "send", "mark"} => left[g] # {}

PaymentsInit ==
    /\ step = [g \in Payer |-> "none"]
    /\ left = [g \in Payer |-> {}]
    /\ avail = [g \in Payer |-> {}]

At(g, s, coins, seen) ==
    /\ step' = [step EXCEPT ![g] = s]
    /\ left' = [left EXCEPT ![g] = coins]
    /\ avail' = [avail EXCEPT ![g] = seen]

StopPaying(g) == At(g, "none", {}, {})

-----------------------------------------------------------------------------

(* The order in which the node lists utxos, and the order of the sort,     *)
(* which is that of the inputs of a transaction.                           *)
Earlier(c, d) == c.tx < d.tx \/ (c.tx = d.tx /\ c.index < d.index)

Larger(c, d) == c.value > d.value \/ (c.value = d.value /\ Earlier(c, d))

(* The utxo at which a goroutine is in its walk or in its marks.           *)
IsNextToWalk(c, g) ==
    c \in left[g] /\ \A d \in left[g] \ {c} : Earlier(c, d)

IsNextToMark(c, g) ==
    c \in left[g] /\ \A d \in left[g] \ {c} : Larger(c, d)

Value(S) == [c \in S |-> c.value]

Worth(S) == Total(Value(S), S)

InputsOf(S) == Chosen(Value(S), Larger, Fee)

-----------------------------------------------------------------------------
(* What is sent                                                            *)

(* GetCurrentNeoChainSyncHeight: the block after the key header Neo knows, *)
(* 0 for the genesis header.                                               *)
LastSynced == IF synced = 0 THEN 0 ELSE synced + 1

(* A mutant: the block of the transfer proves itself.                      *)
SignedHeaderOwn(h, last) == IF h >= last THEN h ELSE last + 1

(* The header whose signatures Neo is to check: the one after the transfer *)
(* in the current epoch, else a reliable one that commits to it.           *)
SignedHeader(h, last) == IF h >= last THEN h + 1 ELSE last + 1

(* When the sync height cannot be read, 0 is used.                         *)
SyncedRead(last) ==
    \/ NoFault /\ last = LastSynced
    \/ Fault("synced") /\ last = 0

-----------------------------------------------------------------------------
(* GetBalance                                                              *)

GetUnspents(g) ==
    /\ step[g] = "none"
    /\ NoFault
    /\ At(g, "walk", unspent, {})
    /\ UNCHANGED neoStoreVars

(* A mutant: every utxo the bucket lists counts as spent.                  *)
LookUpListed(g) ==
    /\ step[g] = "walk"
    /\ NoFault
    /\ \E c \in left[g] :
           /\ IsNextToWalk(c, g)
           /\ IF ~IsListed(c) THEN At(g, "list", left[g], avail[g])
                ELSE At(g, "walk", left[g] \ {c}, avail[g])
    /\ UNCHANGED neoStoreVars

LookUp(g) ==
    /\ step[g] = "walk"
    /\ NoFault
    /\ \E c \in left[g] :
           /\ IsNextToWalk(c, g)
           /\ IF ~IsListed(c) THEN At(g, "list", left[g], avail[g])
                ELSE At(g, "walk", left[g] \ {c},
                        IF utxo[c] THEN avail[g] ELSE avail[g] \cup {c})
    /\ UNCHANGED neoStoreVars

(* What GetUtxo did not find is written as not spent.                      *)
ListUtxo(g) ==
    /\ step[g] = "list"
    /\ NoFault
    /\ \E c \in left[g] :
           /\ IsNextToWalk(c, g)
           /\ PutUtxo(c, FALSE)
           /\ At(g, "walk", left[g] \ {c}, avail[g] \cup {c})
    /\ UNCHANGED neoRetry

(* InvokeScript or GetUnspents answers with an error, or the database.     *)
MakeTxFails(g, key) ==
    /\ \/ step[g] = "none" /\ Loss("rpc", key)
       \/ step[g] \in {"walk", "list"} /\ left[g] # {} /\ Loss("db", key)
    /\ StopPaying(g)

(* Not less than the fee is available in the end, or less.                 *)
NotEnough(g) ==
    /\ step[g] = "walk" /\ left[g] = {}
    /\ Worth(avail[g]) < Fee
    /\ NoFault
    /\ StopPaying(g)

ChooseInputs(g) ==
    /\ step[g] = "walk" /\ left[g] = {}
    /\ Worth(avail[g]) >= Fee
    /\ NoFault
    /\ At(g, "send", InputsOf(avail[g]), {})
    /\ UNCHANGED neoStoreVars

MakeTx(g) == GetUnspents(g) \/ LookUp(g) \/ ListUtxo(g) \/ ChooseInputs(g)

-----------------------------------------------------------------------------

(* SendRawTransaction: accepted, or refused for its inputs.                *)
SendTx(g, key, signed) ==
    /\ step[g] = "send"
    /\ NoFault
    /\ Acceptable(left[g])
    /\ Submit("proof", key, signed, left[g], Worth(left[g]) - Fee)
    /\ At(g, "mark", left[g], {})

TxRefused(g) ==
    /\ step[g] = "send"
    /\ NoFault
    /\ ~Acceptable(left[g])
    /\ StopPaying(g)

(* A mutant: the inputs are marked although nothing was sent.              *)
SendFailsMarked(g) ==
    /\ step[g] = "send"
    /\ At(g, "mark", left[g], {})

(* Any other error of SendRawTransaction, such as an unreachable node.     *)
SendFails(g) ==
    /\ step[g] = "send"
    /\ StopPaying(g)

MarkSpent(g, c) ==
    /\ step[g] = "mark" /\ IsNextToMark(c, g)
    /\ NoFault
    /\ PutUtxo(c, TRUE)

MarkOne(g) ==
    \E c \in left[g] :
        /\ MarkSpent(g, c)
        /\ left[g] # {c}
        /\ At(g, "mark", left[g] \ {c}, {})

MarkLast(g) ==
    /\ \E c \in left[g] : MarkSpent(g, c) /\ left[g] = {c}
    /\ StopPaying(g)

MarkFails(g) ==
    /\ step[g] = "mark"
    /\ Fault("db")
    /\ StopPaying(g)

=============================================================================
