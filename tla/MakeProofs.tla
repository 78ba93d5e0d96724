----------------------------- MODULE MakeProofs -----------------------------
(***************************************************************************)
(* Which notifications of a Poly block are transfers to relay to Neo: the  *)
(* filter of relayToNeo (src/service/rtonService.go:37-61) and the         *)
(* constraints syncProofToNeo checks (src/service/rtonMethods.go:261-344). *)
(* Both are pure functions of the block and of the configuration.  A       *)
(* position <<e, m>> is the m-th notification of the e-th event.           *)
(***************************************************************************)
EXTENDS Integers, Sequences

CONSTANTS
    MaxHeight,       \* height of the last Poly block of the instance
    Poly,            \* the Poly chain: Poly[h] is the block of height h
    Keys,            \* the keys of the cross-chain transfers
    Contracts,       \* the contracts of both chains
    CrossChainManager, \* autils.CrossChainManagerContractAddress
    NeoChainID,      \* config.NeoChainID
    RtonContract,    \* config.RtonContract, the contract to relay for
    AnyContract      \* the empty config.RtonContract

Heights == 0..MaxHeight

(* The contract that notifies, whether its states are an array, states[0], *)
(* states[2] and states[5], and of the transfer proved under that key the  *)
(* contract and the method it calls on Neo.                                *)
Note == [contract : Contracts, array : BOOLEAN, name : STRING,
         toChain : Nat, key : Keys, toContract : Contracts, method : STRING]

(* config says that the block has a NewChainConfig: it changes the peers.  *)
Block == [events : Seq(Seq(Note)), config : BOOLEAN]

ASSUME ChainAssumption ==
    /\ MaxHeight \in Nat
    /\ Poly \in [Heights -> Block]

ASSUME ContractAssumption ==
    /\ CrossChainManager \in Contracts
    /\ RtonContract \in Contracts \cup {AnyContract}
    /\ AnyContract \notin Contracts
    /\ NeoChainID \in Nat

-----------------------------------------------------------------------------

IsMakeProof(note) ==
    /\ note.array
    /\ note.contract = CrossChainManager
    /\ note.name = "makeProof"
    /\ note.toChain = NeoChainID

IsForUs(note) ==
    /\ RtonContract = AnyContract \/ note.toContract = RtonContract
    /\ note.method = "unlock"

NoteAt(h, p) == Poly[h].events[p[1]][p[2]]

KeyAt(h, p) == NoteAt(h, p).key

Positions(h) ==
    UNION { {e} \X DOMAIN Poly[h].events[e] : e \in DOMAIN Poly[h].events }

(* The notifications syncProofToNeo is called for, and those of them it    *)
(* sends a transaction for, tabulated.                                     *)
WorkOf ==
    [h \in Heights |-> { p \in Positions(h) : IsMakeProof(NoteAt(h, p)) }]

TransfersOf ==
    [h \in Heights |-> { p \in WorkOf[h] : IsForUs(NoteAt(h, p)) }]

(* The order of the two nested loops.                                      *)
Before(p, q) == p[1] < q[1] \/ (p[1] = q[1] /\ p[2] <= q[2])

IsFirst(p, S) == p \in S /\ \A q \in S : Before(p, q)

KeysOf == [h \in Heights |-> { KeyAt(h, p) : p \in TransfersOf[h] }]

(* The transfers emitted by the blocks up to height h.                     *)
KeysUpTo(h) == UNION { KeysOf[g] : g \in { b \in Heights : b <= h } }

=============================================================================
