----------------------------- MODULE LockEvents -----------------------------
(***************************************************************************)
(* The part of neoToRelay that decides which notifications of a Neo block  *)
(* are cross-chain transfers to relay (src/service/ntorService.go:83-136). *)
(* It is a pure function of the block and of the configuration.            *)
(*                                                                         *)
(* A position <<t, e, n>> is the n-th notification of the e-th execution   *)
(* of the t-th transaction of a block; <<t, 0, 0>> stands for the          *)
(* GetApplicationLog call that precedes the executions of t.               *)
(***************************************************************************)
EXTENDS Naturals, Sequences

CONSTANTS
    MaxHeight,       \* height of the last Neo block of the instance
    Neo,             \* the Neo chain: Neo[h] is the block of height h
    Keys,            \* the storage keys of the cross-chain transfers
    Consensus,       \* the NextConsensus addresses of the Neo chain
    NoConsensus,     \* the empty neoNextConsensus of a relayer starting at 0
    NeoCCMC,         \* config.NeoCCMC, the cross-chain manager contract
    NtorContract,    \* config.NtorContract, the contract to relay for
    AnyContract,     \* the empty config.NtorContract
    Contracts        \* the contracts that emit notifications

Heights == 0..MaxHeight

(* What the relayer reads of a notification: the contract that emitted it, *)
(* whether its state is an Array, the first field, the number of fields    *)
(* and the storage key in the fifth one.  An array without fields stands   *)
(* for one whose first field is not a byte string, too.                    *)
Note == [contract : Contracts, array : BOOLEAN, name : STRING,
         fields : Nat, key : Keys]

Execution == [vmState : STRING, notes : Seq(Note)]

Transaction == [type : STRING, executions : Seq(Execution)]

Block == [txs : Seq(Transaction), next : Consensus]

ASSUME ChainAssumption ==
    /\ MaxHeight \in Nat
    /\ Neo \in [Heights -> Block]
    /\ NoConsensus \notin Consensus

ASSUME ContractAssumption ==
    /\ NeoCCMC \in Contracts
    /\ NtorContract \in Contracts \cup {AnyContract}
    /\ AnyContract \notin Contracts

-----------------------------------------------------------------------------

(* Only invocations have an application log with notifications.            *)
Invokes(tx) == tx.type = "InvocationTransaction"

Succeeded(ex) == ex.vmState # "FAULT"

(* The filter on NtorContract: the transfer is relayed when one of the     *)
(* notifications of the same execution comes from that contract.           *)
IsForUs(ex) ==
    \/ NtorContract = AnyContract
    \/ \E m \in DOMAIN ex.notes : ex.notes[m].contract = NtorContract

(* The first field is indexed and converted without a look at the array.   *)
Panics(note) == note.contract = NeoCCMC /\ note.array /\ note.fields = 0

IsLockEvent(note) ==
    note.array /\ note.fields > 0 /\ note.name = "CrossChainLockEvent"

(* A notification of the manager contract that makes neoToRelay return.    *)
IsMalformed(note) ==
    /\ note.contract = NeoCCMC
    /\ ~note.array \/ (IsLockEvent(note) /\ note.fields # 6)

IsTransfer(ex, note) ==
    /\ note.contract = NeoCCMC
    /\ IsLockEvent(note) /\ note.fields = 6
    /\ IsForUs(ex)

-----------------------------------------------------------------------------

ExecutionsRead(h) ==
    { p \in UNION { {t} \X DOMAIN Neo[h].txs[t].executions :
                        t \in DOMAIN Neo[h].txs } :
        /\ Invokes(Neo[h].txs[p[1]])
        /\ Succeeded(Neo[h].txs[p[1]].executions[p[2]]) }

ExecutionAt(h, p) == Neo[h].txs[p[1]].executions[p[2]]

NoteAt(h, p) == ExecutionAt(h, p).notes[p[3]]

NotesRead(h) ==
    UNION { { <<p[1], p[2], m>> : m \in DOMAIN ExecutionAt(h, p).notes } :
              p \in ExecutionsRead(h) }

Logs(h) ==
    { <<t, 0, 0>> : t \in { u \in DOMAIN Neo[h].txs : Invokes(Neo[h].txs[u]) } }

Malformed(h) == { p \in NotesRead(h) : IsMalformed(NoteAt(h, p)) }

Fatal(h) == { p \in NotesRead(h) : Panics(NoteAt(h, p)) }

Transfers(h) ==
    { p \in NotesRead(h) : IsTransfer(ExecutionAt(h, p), NoteAt(h, p)) }

KeyAt(h, p) == NoteAt(h, p).key

(* The positions at which neoToRelay calls out, returns or panics,         *)
(* tabulated.                                                              *)
LogsOf == [h \in Heights |-> Logs(h)]

MalformedOf == [h \in Heights |-> Malformed(h)]

FatalOf == [h \in Heights |-> Fatal(h)]

TransfersOf == [h \in Heights |-> Transfers(h)]

WorkOf ==
    [h \in Heights |-> Logs(h) \cup Malformed(h) \cup Fatal(h) \cup Transfers(h)]

(* The order in which the three nested loops visit the positions.          *)
Before(p, q) ==
    \/ p[1] < q[1]
    \/ p[1] = q[1] /\ p[2] < q[2]
    \/ p[1] = q[1] /\ p[2] = q[2] /\ p[3] <= q[3]

IsFirst(p, S) == p \in S /\ \A q \in S : Before(p, q)

KeysOf == [h \in Heights |-> { KeyAt(h, p) : p \in TransfersOf[h] }]

(* The transfers emitted by the blocks up to height h.                     *)
KeysUpTo(h) == UNION { KeysOf[g] : g \in { b \in Heights : b <= h } }

=============================================================================
