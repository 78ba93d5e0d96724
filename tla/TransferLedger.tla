--------------------------- MODULE TransferLedger ---------------------------
(***************************************************************************)
(* What a relayer with a database promises about cross-chain transfers,    *)
(* whichever way it relays: a transfer it has taken down is owed until the *)
(* target chain has carried it out, whatever fails in between and however  *)
(* often the relayer restarts, unless it is abandoned because of a failure *)
(* the relayer does not handle.  It may carry out a transfer it never took *)
(* down (another relayer did), or has abandoned, but never one that was    *)
(* not emitted.                                                            *)
(***************************************************************************)
CONSTANT Ids          \* the transfers there may ever be

VARIABLES
    emitted,         \* the transfers the source chain has emitted
    owed,            \* the transfers taken down and not yet carried out
    settled,         \* the transfers the target chain has carried out
    abandoned        \* the transfers given up because of a failure

vars == <<emitted, owed, settled, abandoned>>

Init == emitted \subseteq Ids /\ owed = {} /\ settled = {} /\ abandoned = {}

Emit(S) ==
    /\ emitted' = emitted \cup S
    /\ UNCHANGED <<owed, settled, abandoned>>

TakeDown(k) ==
    /\ k \in emitted \ (settled \cup abandoned)
    /\ owed' = owed \cup {k}
    /\ UNCHANGED <<emitted, settled, abandoned>>

Settle(k) ==
    /\ k \in emitted
    /\ settled' = settled \cup {k}
    /\ owed' = owed \ {k}
    /\ UNCHANGED <<emitted, abandoned>>

(* A failure makes the relayer give up one transfer, and no other.         *)
Abandon(k) ==
    /\ k \in emitted
    /\ abandoned' = abandoned \cup {k}
    /\ owed' = owed \ {k}
    /\ UNCHANGED <<emitted, settled>>

Next ==
    \/ \E S \in SUBSET Ids : Emit(S)
    \/ \E k \in Ids : TakeDown(k) \/ Settle(k) \/ Abandon(k)

Spec == Init /\ [][Next]_vars

(* What is owed is eventually settled, unless it is abandoned.             *)
Fulfilled == \A k \in Ids : k \in owed ~> k \in settled \cup abandoned

=============================================================================
