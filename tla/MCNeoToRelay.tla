---------------------------- MODULE MCNeoToRelay ----------------------------
(***************************************************************************)
(* Instances of NeoToRelay for TLC: small Neo chains.                      *)
(***************************************************************************)
EXTENDS NeoToRelay, TLC

CONSTANTS k1, k2, k3, ccmc, dapp, other, v1, v2, v3

MCKeys == {k1, k2}

MCThreeKeys == {k1, k2, k3}

MCContracts == {ccmc, dapp, other}

MCConsensus == {v1, v2, v3}

Lock(k) ==
    [contract |-> ccmc, array |-> TRUE, name |-> "CrossChainLockEvent",
     fields |-> 6, key |-> k]

Unlock(k) == [Lock(k) EXCEPT !.name = "CrossChainUnlockEvent"]

Truncated(k) == [Lock(k) EXCEPT !.fields = 5]

Void(k) == [Lock(k) EXCEPT !.fields = 0]

Scalar(k) == [Lock(k) EXCEPT !.array = FALSE]

From(c, k) == [Lock(k) EXCEPT !.contract = c, !.name = "transfer"]

Halt(notes) == [vmState |-> "HALT, BREAK", notes |-> notes]

Abort(notes) == [vmState |-> "FAULT", notes |-> notes]

Invoke(executions) ==
    [type |-> "InvocationTransaction", executions |-> executions]

Miner == [type |-> "MinerTransaction", executions |-> <<>>]

Txs(txs, next) == [txs |-> txs, next |-> next]

(* Two transfers in one block and a quiet block after it: one epoch.       *)
OneBlock ==
    0 :> Txs(<<Miner>>, v1) @@
    1 :> Txs(<<Miner, Invoke(<<Halt(<<From(dapp, k1), Lock(k1)>>)>>),
               Invoke(<<Halt(<<From(dapp, k2), Lock(k2)>>)>>)>>, v1) @@
    2 :> Txs(<<Miner>>, v1)

(* One epoch.  What the filter lets through and what it does not, in the   *)
(* block that Poly was initialised with: an execution that failed, another *)
(* event of the manager, a contract that is not ours.  A transfer two      *)
(* blocks above it.  Block 4 stops every scan.                             *)
OneEpoch ==
    0 :> Txs(<<Miner>>, v1) @@
    1 :> Txs(<<Invoke(<<Abort(<<Lock(k2)>>),
                        Halt(<<Unlock(k2), From(dapp, k1), Lock(k1)>>),
                        Halt(<<From(other, k2), Lock(k2)>>)>>)>>, v1) @@
    2 :> Txs(<<Miner>>, v1) @@
    3 :> Txs(<<Invoke(<<Halt(<<From(dapp, k2), Lock(k2)>>)>>)>>, v1) @@
    4 :> Txs(<<Miner, Invoke(<<Halt(<<Truncated(k2), Scalar(k2)>>)>>)>>, v1) @@
    5 :> Txs(<<Miner>>, v1)

(* A transfer in the block that hands over to the next validators, one in  *)
(* the block after it.                                                     *)
TwoEpochs ==
    0 :> Txs(<<Miner>>, v1) @@
    1 :> Txs(<<Invoke(<<Halt(<<Lock(k1)>>)>>)>>, v2) @@
    2 :> Txs(<<Invoke(<<Halt(<<Lock(k2)>>)>>)>>, v2) @@
    3 :> Txs(<<Miner>>, v2)

(* Two handovers, the second one right after the first, with transfers in  *)
(* each of the epochs.  Block 3 kills the process after its transfer.      *)
ThreeEpochs ==
    0 :> Txs(<<Miner>>, v1) @@
    1 :> Txs(<<Invoke(<<Halt(<<Lock(k1)>>)>>)>>, v2) @@
    2 :> Txs(<<Invoke(<<Halt(<<Lock(k2)>>)>>)>>, v3) @@
    3 :> Txs(<<Invoke(<<Halt(<<Lock(k3), Void(k3)>>)>>)>>, v3) @@
    4 :> Txs(<<Miner>>, v3)

=============================================================================
