# neo-relayer in TLA+

The relayer moves cross-chain transfers between a Neo 2.x chain and the Poly
relay chain.  It is one Go process with four goroutines, a BoltDB file and two
sets of RPC endpoints.  These modules model what the program does between its
calls, check it with TLC on small chains, and prove with TLAPS, for every chain, each
safety property the runs check.

## The system

| part | code | state it keeps | operations |
|---|---|---|---|
| Neo scanner, `NeoToRelay` | `service/ntorService.go`, `service/ntorMethods.go:52-148`, `194-206` | cursor `relaySyncHeight`, `neoNextConsensus` (both in memory) | scan the blocks below the last one, find lock events, send a proof of each to Poly (`syncProofToRelay`), send the header of a block that changes the consensus (`syncHeaderToRelay`), wait one Poly block |
| check and retry loop, `NeoToRelayCheckAndRetry` | `service/ntorService.go:183-195`, `service/ntorMethods.go:150-251` | snapshots of the two buckets | `checkDoneTx`: ask Poly for the event of every sent transaction; `retryTx`: send the records put aside again |
| Poly scanner, `RelayToNeo` | `service/rtonService.go`, `service/rtonMethods.go` | `neoSyncHeight` (memory) | scan Poly blocks, relay `makeProof` events to Neo, change the bookkeepers |
| Neo retry loop, `RelayToNeoRetry` | `service/rtonMethods.go` | snapshot of bucket NeoRetry | build a Neo transaction again for every record put aside |
| database | `db/db.go`, `db/states.go` | buckets Check, Retry, NeoRetry, Utxo, a header height list | one bolt transaction under a lock per call |
| coin selection, change of bookkeepers | `service/rtonMethods.go` | bucket Utxo | choose utxos of an address, mark them spent |
| proof and value decoding | `service/helper.go`, `service/toMerkleValue.go` | local variables | check an audit path against the root of a header, take the proved value apart |
| start-up | `main.go` | none | load the configuration, log in to Poly, start the goroutines |

The goroutines of one direction share only the buckets of that direction: Check
and Retry for Neo -> Poly, NeoRetry and Utxo for Poly -> Neo.  No message passes
between goroutines.  Everything else goes over the two chains: a transfer the
scanner sends is accepted into Poly's pool and executed later, and the other
goroutine learns the outcome by polling for its event.

What is hard to test here: the cursor restarts from the configuration after a
crash while the buckets and the chains do not; every call may fail and each
failure has its own early return, some of which start the block over, some of
which put the transfer aside and some of which drop it; a proof is tied to the
validators Poly knows *when the transaction is executed*, not when it is built;
two goroutines write the same buckets, each in several bolt transactions.

What makes each part correct:

* both scanners: a transfer behind the cursor is carried out or the database or
  the pool of the other chain remembers it; the other chain knows the key headers
  of the blocks behind the cursor; a proof is for a state that contains the
  transfer and that the other chain can verify.
* Neo retry loop and utxo table: a transfer is paid for once; a utxo is marked as
  spent only if a transaction spends it; what the bucket holds gets out of it.
* coin selection: the inputs cover the fee, no utxo twice, none for nothing.
* check and retry loop: it drops an entry only when the transfer no longer
  depends on it; a hash is always the hash of the record it is stored with; both
  buckets drain.
* database: what a bucket holds survives a crash, and a bounded read does not
  starve an entry.
* both directions: what was taken down is owed until it is carried out, unless a
  failure the code only logs hits that very transfer.
* proof decoding: a genuine proof is never refused, whichever position of
  whichever block it is about, and the fields read are the fields written.

## Modules

| module | models | state |
|---|---|---|
| `Failures` | the budget of failures of a behaviour, and which transfers a failure made the relayer give up | `faults`, `dropped` |
| `Buckets` | the bounded read of a bucket (`MAX_NUM`) | none |
| `TransferLedger` | abstract: a transfer taken down is owed until it is settled or abandoned after a failure | `emitted`, `owed`, `settled`, `abandoned` |
| **Neo -> Poly** | | |
| `LockEvents` | the notification filter of `neoToRelay` (`ntorService.go:83-136`), as a pure function of a block | none |
| `Chains` | external: the Neo chain, Poly's transaction pool and its two native contracts | `neoHeight`, `polyTx`, `polyDone`, `peer`, `headers` |
| `RelayStore` | the buckets Check and Retry | `check`, `retry` |
| `NeoScanner` | the goroutine `NeoToRelay` | `spc` and its local variables |
| `CheckAndRetry` | the goroutine `NeoToRelayCheckAndRetry` | `rpc` and its local variables |
| `NeoToRelay` | the two goroutines, the store and the chains together; crash; the properties | all of the above |
| `MCNeoToRelay` | small Neo chains for TLC | none |
| `NeoToRelayProofs` | theorems: types, hashes, proofs, the cursor, the headers | none |
| `NeoToRelayKeptProofs` | theorems: no transfer is forgotten, the ledger | none |
| **Poly -> Neo** | | |
| `MakeProofs` | the filter of `relayToNeo` and the constraints of `syncProofToNeo`, as pure functions of a block | none |
| `NeoNode` | external: the Poly chain, the Neo node with its pool and utxos, and the Neo contract | `polyHeight`, `unspent`, `neoTx`, `neoDone`, `synced` |
| `NeoStore` | the buckets NeoRetry and Utxo | `neoRetry`, `utxo` |
| `Payments` | how a goroutine pays for a transaction, sends it and marks the utxos: `GetBalance`, `MakeInvocationTransaction`, the end of `syncProofToNeo` and of `retrySyncProofToNeo` | `step`, `left`, `avail`, one for each goroutine |
| `PolyScanner` | the goroutine `RelayToNeo`, with `changeBookKeeper` | `spc` and its local variables |
| `NeoRetrier` | the goroutine `RelayToNeoRetry` | `rpc` and its local variables |
| `PolyToNeo` | the two goroutines, the store and the chains together; crash; the properties | all of the above |
| `MCPolyToNeo` | small Poly chains and purses for TLC | none |
| `PolyToNeoProofs` | theorems: types, marks, proofs, how often a transfer is paid for | none |
| `PolyToNeoKeptProofs` | theorems: no transfer is forgotten, the ledger, the changes of peers | none |
| **Coin selection** | | |
| `CoinChoice` | which utxos `GetTransactionInputs` chooses, as a formula | none |
| `CoinSelection` | its two loops, step by step, with rounding | `i`, `a`, `inputs`, `sum`, `pc` |
| `MCCoinSelection` | all short lists of small values | none |
| `CoinChoiceProofs` | lemmas: sums over finite sets, the choice | none |
| `CoinSelectionProofs` | theorems | none |
| **Proof and value decoding** | | |
| `ByteReader` | `ReadVarBytes` and the readers below it (`helper.go:56-117`), as functions of a buffer and an offset | none |
| `ProofDecoding` | `MerkleProve`, `DeserializeMerkleValue` and what `syncProofToNeo` decides from them, step by step | `pc`, `hash`, `i`, `value`, `offset`, `fields`, `checked` |
| `PolyTree` | external: Poly's serializer and its Merkle tree | none |
| `MCProofDecoding` | blocks of up to `MaxTransfers` transfers | none |
| `ProofDecodingProofs` | theorems | none |
| **For the proofs** | | |
| `Induction` | lemmas: a smallest finite set, a least number | none |

The modules of a direction extend each other from the chains up to the
composition; both compositions take `TransferLedger` as an instance.  `Payments`
uses the formula of `CoinChoice` where the code calls `GetTransactionInputs`, and
`CoinSelection` shows that the loops compute it.  `ProofDecoding` opens up what
`PolyScanner` takes as one step, `TakeTransfer`: there a transfer carries its
contract and method, here they are dug out of Poly's answer.

### How the state corresponds to the code

* `spc` and `rpc` name the points at which a goroutine can be seen by the other
  one or by a chain: before a call that sends, before and after a database
  transaction.  What happens between two such points is one action.  Queries
  about the past of the Neo chain (blocks, logs, state roots, proofs) have the
  same answer whenever they are made, so they belong to the action that uses the
  answer; the query for the peer (`ntorService.go:138`) is not such a query and
  is made in `TakeTransfer`, well before the import that depends on it.
* A position `<<t, e, n>>` in `todo` is the point of the three nested loops over
  transactions, executions and notifications at which the code calls out or
  returns.  The order of the positions is the order of the loops.
* `polyTx` holds every transaction the relayer has sent; its index is the hash.
  `pending` is in the pool, `ok` and `failed` have an event, `gone` never will.
* `i`, `n`, `relaySyncHeight`, `neoNextConsensus`, `key`, `passed` and `checks`,
  `retries`, `cur`, `curHash` are the variables of the code with these meanings.
* A record is `(height, key)`, as in `db.Retry`; bucket Check maps a hash to one.
* In the direction Poly -> Neo, `neoTx` holds what the relayer has sent, `synced`
  is the number under the contract's storage key `0201`, and `signed` the height
  of the header whose signatures go with a proof (`rtonMethods.go:275-313`).  A
  transaction spends its inputs and returns the change when a block executes it,
  whether its script succeeds (`ok`) or not (`fault`).
* `step` follows a goroutine through `GetBalance` and the marks: `GetUtxo`,
  `PutUtxo(., false)`, `SendRawTransaction` and each `PutUtxo(., true)` is a step
  of its own, so that the other goroutine may come in between.  `left` holds the
  utxos still to be visited, `avail` is the variable `unspents`.
* The loop variable `i` of `relayToNeo` and `neoSyncHeight` are increased together
  and nowhere else; one variable stands for both.
* `changeBookKeeper` lets the SDK choose its inputs.  The model takes the SDK's
  choice to be the same formula on all that the node lists, without bucket Utxo
  (`tb.MakeInvocationTransaction`, external).
* In `ProofDecoding` a byte has `Base` values, of which the three greatest announce
  a number of two, four or eight bytes, as `0xFD`, `0xFE` and `0xFF` do; a hash
  is `HashSize` bytes long and is the term that was hashed, so that two hashes are
  equal exactly if what they are hashes of is.  A path is the bytes of the value
  with its length, followed by nodes of one byte more than a hash.  `MerkleProve`
  runs twice when the relayer serves one contract: `checked` tells which pass it is.
* A fee is a constant greater than 0; the text of a utxo's hash is taken to be the
  same whether it comes from the node's list or from a transaction's input.

### Failures

Each way a call can fail has a name (`AllFaults` in `Chains` and in `NeoNode`).  `Faults` is the
set a run allows, `MaxFaults` how many may occur in one behaviour.  A failure is
an outcome of the call, taken in the action that makes the call.  What the code
does after it, in the direction Neo -> Poly:

| failure | where | what the code does |
|---|---|---|
| `lastBlock`, `count`, `block`, `appLog`, `peer` | queries of the scanner | start over at the cursor |
| `stateRoot`, `utxo` | `syncProofToRelay` | put the transfer into Retry |
| `proof`, `import` | `syncProofToRelay` | log, drop the transfer |
| `import` | `retrySyncProofToRelay` | delete the record |
| `stored` | `syncHeaderToRelay`, query for the stored header | ignore the error, send the header again |
| `header` | `syncHeaderToRelay` | log, take the header for synced |
| `late` | `waitForRelayBlock` | go on after any block, or after 90 seconds, without the header |
| `empty` | five empty answers for a block | go on with the next block, leave the cursor |
| `event` | `checkDoneTx` | end this round |
| `db` | every bucket write | log or ignore; a hash that cannot be stored leaves the record |
| `exec` | Poly's execution | an event with state 0; the record goes to Retry |
| `evict` | Poly's pool | no event, ever |
| `reorder` | Poly's pool | a later transaction is executed first |
| `otherImport` | another relayer | the transfer is already done |
| `crash` | any step | memory is lost, the cursor restarts at `NeoStartHeight` |

And in the direction Poly -> Neo:

| failure | where | what the code does |
|---|---|---|
| `count` | height of Poly | scan nothing this time |
| `events`, `block` | queries of a block | start over at the cursor |
| `synced` | `GetCurrentNeoChainSyncHeight` | go on with height 0 |
| `proof` | `GetCrossStatesProof`, headers, `GetMerkleProof` | log; the scanner drops the transfer, the record stays |
| `rpc` | `InvokeScript`, `GetUnspents` | the scanner drops the transfer, the retry loop deletes the record |
| `db` | every bucket access | as `rpc` before sending; ends the marking after it; a failed `PutNeoRetry` drops the transfer; `DeleteNeoRetry` is tried twice |
| `send` | `SendRawTransaction`, scanner | put the transfer into NeoRetry |
| `resend` | `SendRawTransaction`, retry loop, but for a validation failure | delete the record |
| `keepers` | `changeBookKeeper` | log, count the block as done |
| `late` | `waitForNeoBlock` | go on though what was sent is not in a block |
| `evict` | Neo's pool | nobody notices |
| `otherExec` | another relayer | the transfer is already done; the relayer's own transaction faults |
| `crash` | any step | memory is lost, the cursor restarts at `PolyStartHeight` |

Both waits for a block are modelled by what they are for.  `waitForRelayBlock` and
`waitForNeoBlock` wait for any new block; without a failure the model waits until what
was sent has been executed, and the failure `late` is every other way the wait can end:
a block without the transaction, the timeout, and in `waitForNeoBlock` an error of the
query, which answers with block count 0 and makes the height wrap around
(`rtonMethods.go:775`).  Together they are what the code does; `n2r_epochs` and `r2n_epochs`
leave `late` out, and with it the properties about key headers and proofs fail.

A notification of the manager contract whose array has no fields, or whose first field
is not a byte string, makes `neoToRelay` panic (`ntorService.go:108-111`), which ends the
process: the step `Crash` is taken then, without a failure, and the next process meets
the same notification again (`Panics`, `Panicking`).  A fifth field of another type, the
one with the key, panics in the same way and has no case of its own.

A missing balance and a transaction refused for its inputs are no failures: they
follow from the state of the purse and of the pool, and the code puts the transfer
into NeoRetry or leaves it there.

Some of these failures lose a transfer: the code logs the error, and nothing in
memory or in the database would send it again before the next restart.  These
are, from Neo to Poly, `proof`, `import`, and `db` where a record or a hash cannot
be stored (a transaction Poly evicts is not lost, its entry stays in bucket Check); from Poly to Neo, `proof` in the scanner, `rpc`, `resend`, `evict`, and `db`
before a transaction is sent.  The history variable `dropped` records the
transfer at hand; no guard reads it.  The properties about losing transfers
excuse the transfers in `dropped` and no others, so they are checked, and
proved, with these failures occurring: a failure may cost the transfer it hits
and must not cost its neighbour in the block, in the batch or in the purse.

Queries that fail forever are not modelled: `MaxFaults` bounds all failures.

## Runs

The Neo chains of the instances (`MCNeoToRelay`): `OneBlock` has two transfers
in a block and a quiet block after it; `OneEpoch` has a transfer among what the
filter must reject, another one two blocks above it, and a malformed notification
that stops every scan; `ThreeEpochs` has three transfers and a change of
validators in each of two consecutive blocks, and after the last transfer a
notification that makes the process panic; `TwoEpochs` has a transfer in the
block that changes the validators and one in the block after it.

| run | question | chain, failures |
|---|---|---|
| `n2r_one_epoch` | Is a transfer behind the cursor ever forgotten, does the database keep the ledger's promise, does each hash and each proof belong to its transfer? | `OneEpoch`, 2 failures out of all but `empty`; a bucket read returns 1 entry; restarts are instant |
| `n2r_epochs` | Is every key header on Poly before the cursor passes it, can Poly verify every proof, is every transfer imported in the end, one in a block that ends every process included? | `ThreeEpochs`, 2 failures that start over or lose a transfer |
| `n2r_live` | Is a transfer that the database remembers imported, do both buckets drain, when other entries may be stuck? | `OneBlock`, 3 failures, a bucket read returns 2 entries |
| `n2r_skipped_block` | *violated*: five empty answers make the cursor count a block it skipped | `empty` |
| `n2r_stale_retry` | *violated*: a transfer put aside in a block that changes the consensus is retried at a height Poly no longer verifies, and deleted | `utxo` |
| `r2n_one_epoch` | Poly -> Neo: is a transfer behind the cursor ever forgotten, do bucket and pool keep the ledger's promise, how often can a failure make the relayer pay again? | `OneEpoch`, two utxos that pay for five transactions, `MaxNum = 1`, 2 failures out of all but `keepers` |
| `r2n_epochs` | Does Neo know the keepers before the cursor passes them, can it verify every proof, is every transfer executed in the end? | `TwoEpochs`, a utxo for every transaction, 2 failures that start over or lose a transfer |
| `r2n_live` | Two utxos for three transfers: is each paid for once, is each executed, does bucket NeoRetry drain, when a lost transaction freezes a utxo? | `Rush`, 3 failures |
| `r2n_all_faults` | What holds whatever fails? | `Handover`, three utxos, 2 failures out of all |
| `r2n_lost_keepers` | *violated*: the change of bookkeepers spends the utxo of a retried transfer, is refused and forgotten | `BusyHandover`, one utxo, no failure |
| `coin_selection` | Do the inputs cover the amount, is a utxo taken twice or for nothing, do the loops compute the formula? | all lists of up to 4 utxos worth 1 to 5 units, all amounts, a rounding of a tenth of a unit either way at each subtraction |
| `proof_decoding` | Is the path read to its end, is a genuine proof accepted, are the fields the ones written? | every transfer of blocks of up to 9, against the root of its block and of the next; `Base = 4`, `HashSize = 3` |

The three violated runs each check a sentence of a comment or of the README of
the repository, quoted under "findings" in `PROJECT.json`, and are the same
specification as the others.

The Poly chains (`MCPolyToNeo`): `OneEpoch` has two transfers in a block; `Rush`
has a third one in the next block;
`TwoEpochs` has one before the block that changes the peers, one in it and one
after it; `BusyHandover` has two transfers right before that block; `Handover` has
two in it.  `TwoEpochs` and `Handover` also hold everything the filter must reject.
The purse of `r2n_one_epoch` is 11 and 4 for a fee of 3: with their change the two
utxos pay for five transactions, all that `MaxTxs` allows, so that a transfer can be paid
for as often as two failures make the relayer do it; and a mark of one goroutine is
overwritten by the other's look-up.  That of `r2n_all_faults` is 8, 2 and 1: one
utxo pays alone, the other two only together, so that the marks of one payment
come one after the other and the second payment meets a half-marked purse.  That of
`r2n_epochs` has eight utxos for at most seven transactions, one of which is worth
exactly the fee.

In `coin_selection`, `CoversAmount` holds whatever the roundings; the other three
are stated for runs in which no rounding is left over, because with one the code
does take a utxo twice or in vain.

Bounds.  `MaxHeight` is 2 to 5: a transfer, the block after it that lets the
scan reach it, and up to two changes of validators, which is what the cases of
the proof height (`i >= peer + 1` or not) need.  `MaxTxs` caps the transactions
the relayer sends; it is chosen so that every transfer can be sent by the
scanner, fail, and be sent again, and a header be sent besides.  Where the bound
is reached the relayer cannot send, so the runs without fairness are silent
about what follows, and the liveness runs use a bound that the allowed failures
cannot exhaust.  Two failures are enough for a failure and a crash while it is
handled; `n2r_live` and `r2n_live` allow three.  `MaxNum = 1` makes a bucket of two
entries overflow a read; in `n2r_live` `MaxNum = 2`, so that two entries that are
stuck fill a read and one does not.

What the liveness properties excuse follows from the code and is stated as
narrowly as the state allows.  `Stuck` is the set of entries of bucket Check whose
transaction Poly dropped: it has no event, so `checkDoneTx` asks for it for ever.
`CrowdedOut` says that such entries fill the `MAX_NUM` a read returns; from then on
nothing is promised.  `Frozen` is the set of utxos that are marked as spent by a
transaction no longer in the pool; `Broke` says that the address could pay for a
transaction if it were not for them.

In `proof_decoding`, blocks of up to nine transfers give trees with and without
single nodes on every level and paths of up to four nodes, more than the three
bytes of a hash: the case in which `size` is wrong occurs.  With `Base = 4` the
lengths of the values and fields are written in all four ways; a length of
`2^63` or more, which Go's `int` would take for a negative number, is left out,
as no value is that long.

`QuickRestart` says whether a restarted process may find transactions of the old
one still in Poly's pool.  With several epochs it matters: the scanner then
reads a peer that is about to change, and the proof it builds is refused and
dropped.  `n2r_epochs` excludes it, `n2r_one_epoch` does not.

In the direction Poly -> Neo the purse of the liveness run pays for three
transactions, fewer than `MaxTxs`, and in `r2n_epochs` `MaxTxs = 7` leaves room for the three
transfers, the change of keepers and what two rescans send again.  `SentPerFailure` says what
crashes, failed block queries and failed writes cost: at most two more payments each,
one because the block is scanned again and one because a record that was sent is still
in the bucket; with one instead of two it fails in `r2n_one_epoch`.  `SentOnce` is
checked without crashes, and `KeepersSynced` and `ProofsVerify` without `late`,
`keepers`, `evict` and crashes: after each of those they fail, by design of the
code.

Fairness (`FairSpec`) is weak fairness of each goroutine as a whole and of each
chain.  Both goroutines are endless loops with no lock held across a step, so
each of them takes a step whenever it can; the chains make blocks.  Nothing is
assumed of a failure: it may occur or not.  The scanner is blocked only in the
busy loop for a state root, which ends when the Neo chain has grown, and in the
wait for a header; in the direction Poly -> Neo it is blocked only in
`waitForNeoBlock`, which the fairness of the Neo chain ends.

## Proofs

Every invariant and every refinement that a passing run checks is stated by a
theorem.  The theorems hold for every Neo and Poly chain, every number of blocks,
keys, contracts and utxos, every `MaxTxs`, `MaxNum`, `MaxFaults`, every interleaving,
and every set of failures the theorem does not exclude by name.  The last table
says which hypothesis each one needs.

### Neo -> Poly: `NeoToRelayProofs`

* `TypeCorrect`: the type of the cursor needs the strengthening `CursorBehind`: it
  never runs ahead of the block being scanned, so counting it up stays inside the
  chain.
* `CheckMatches`: `MatchInv` says what `CheckMatchesTx` says of every place a hash
  waits with a record: the snapshot of `checkDoneTx` and the variables of both
  goroutines.  It rests on `PolyGrows`: what was sent is never taken back.
* `ProofsCover`: `CoverInv` follows a record from the scanner through both buckets,
  both snapshots and back to Poly.
* `CursorStaysInStep` excludes the five empty answers: that is the finding of
  `n2r_skipped_block`.
* `KeyHeadersReach` and `ImportsReach`, for any number of changes of validators,
  when no header is lost (`HeadersArrive`).  `PeerInv` says that the validators Poly
  knows sign every block up to the cursor (`Reaches`); that at most one header is not
  executed, and it is the one the scanner waits for or the one a crashed process was
  waiting for; and that `neoNextConsensus`, when it is known, is that of the block
  before the cursor.  Therefore the header of a block that changes the validators is
  always signed by those Poly knows, and when the cursor has passed it Poly knows the
  new ones.  The last part is what a crash would break: the process starts with an
  empty `neoNextConsensus` and sends the header of its first block, which is harmless
  because Poly has it or accepts it.

### Neo -> Poly: `NeoToRelayKeptProofs`

* `VerifiableKept`: `Spec /\ []Verifiable => []NothingForgotten`, and `VerifiableLedger`:
  `Spec /\ []Verifiable => LedgerKept`, in any number of epochs.  `Verifiable` says that
  Poly can verify the proof the scanner is about to send and those of the records
  `retryTx` is about to send again, unless they are done.  It is the one thing both
  properties need beyond the relayer's own code: all failures, those that lose the
  transfer they hit included, and all interleavings are covered, and every refusal by
  Poly then means that the transfer is done or a failure has been recorded in
  `dropped`.
* `TransfersKept` and `LedgerImplemented` follow when the validators do not change
  (`OneConsensus`): Poly can then verify everything.  `n2r_stale_retry` shows that
  this cannot simply be dropped.
* `EpochsKept` and `EpochsLedger` follow, for any number of changes, when Poly receives
  the headers, executes what it is sent in that order, and no proof waits in bucket
  Retry for a state root or a utxo (`ProofsInOrder`, which is what `n2r_epochs` allows
  to fail).  `OrderInv` says that the proofs Poly has not executed verify and were sent
  before any header it has not executed.  So Poly refuses a proof only because another
  relayer imported the transfer first (`RefusedInv`); bucket Retry then holds nothing
  but finished transfers (`RetryInv`), and `retryTx` sends none of them.

The inductive invariant behind `VerifiableKept` is `KeptInv`: the loop variable and the
cursor agree (`StepInv`); the transfers of the current block that were visited are
kept, but for the one at hand (`BlockInv`); a transaction with a good event has its
transfer imported (`ImportedInv`); and when the second goroutine is about to delete an
entry, the transfer is imported or is held elsewhere (`DeleteInv`).  `KeptStays` is the
core: with `MatchInv` and `DeleteInv`, a transfer that is kept stays kept in every
step.  `MatchInv` is what makes overwriting or deleting an entry of bucket Check by its
hash harmless.  For the refinement, `EmitInv` says that what the relayer handles has
been emitted; by `KeptStays` a step changes `owed` only by settling, abandoning or
taking down (`OwedNext`), and each action is one of these kinds.  A skipped block is
never taken down, so the ledger does not owe it, and the ledger's theorems need no
`BlocksAnswered`.

### Poly -> Neo: `PolyToNeoProofs`

* `TypeCorrect`.  The change of a transaction is the worth of its inputs less the fee,
  a sum over a set; that it is never negative rests on `InputsPay`, that the inputs
  chosen by the formula of `CoinChoice` are worth the fee (`CoinChoiceProofs`).
* `MarksCorrect`: `MarksInv` adds to `MarksJustified` that the utxos a goroutine has still to
  mark are inputs of something it sent, and that `neoTx` only grows: what was sent is
  never taken back and only its status changes (`Grows`).  A crash between two marks
  leaves utxos unmarked, which the property allows.
* `ProofsCorrect`: `CoverInv` follows the key and the height of the header to be signed
  from the scanner through bucket NeoRetry and the snapshot of the retry loop to Neo.
  `SignedCovers` is the step that matters: whatever height Neo answers with, 0 after an
  error included, the header chosen is above the block of the transfer.
* `PaymentsBounded`: `SentPerFailure`, whatever fails, when transfers have different keys
  (`KeysDiffer`).  The invariant `DebtInv` bounds not what was paid for a transfer but its
  `Debt`: what was paid, one more while the scanner may still pay for it or put it aside
  (`ToCome`), and one more while a record of it waits to be sent (`Waits`).  Each step
  leaves the debt alone, turns a claim into a payment or a record, or uses up a failure
  and restores at most both claims (`Moves`, `DebtKept`).  A record that has been sent is
  no claim until the goroutine leaves it behind in the bucket; that it is the only one
  of its transfer is `OneRecord`.
* `TransfersSentOnce`, when transfers have different keys and no crash, no failed block
  query and no failed database call makes the relayer start over
  (`PaidOnceAssumption`).  It follows from the same invariant: the debt is capped by 1 when
  none of these failures is possible (`Cap`), however many others occur.

### Poly -> Neo: `PolyToNeoKeptProofs`

* `ProvableKept` and `ProvableLedger`: `NothingForgotten` and the refinement of
  `TransferLedger` in any number of epochs, whatever fails, as long as Neo can verify the
  proofs in its pool and the header to prove the next one with exists (`Provable`).
  `KeepInv` is the invariant of `PolyToNeoProofs` with three parts more: a goroutine that
  marks utxos has sent the transfer at hand, and the retry loop deletes a record only
  when its transfer is closed or in the pool (`HandInv`); in a block, what was visited
  is kept or at hand (`BlockInv`); and the property.  `KeptStays` is the core again: a
  transfer leaves the pool only by being executed, by faulting (which means that another
  relayer was faster, as the proof verifies) or by an eviction, which `dropped` records;
  and it leaves bucket NeoRetry only by `HandInv`.
* `TransfersKept` and `LedgerImplemented` follow when Poly's peers do not change
  (`OneEpoch`), for every purse and every failure.
* `KeepersReach`, for any number of changes of Poly's peers, when the relayer makes the
  changes, does not crash or give up waiting, the pool drops nothing, and key blocks are
  at least two apart (`KeepersAssumption`).  `KeyInv` says that the keepers Neo knows are
  those of the last key block behind the cursor, and that a change which is not
  executed is the one the scanner waits for.  Then the keepers Neo knows have signed
  the next key block (`KeyBlockVerifies`), and the contract accepts it.  That the
  change can be sent at all is assumed of every step (`[][~KeepersRefused]_vars`): it
  depends on what the address can pay with.
* `ProofsVerified`, `EpochsKept` and `EpochsLedger`, under the same assumptions and when no
  transfer has to wait for a utxo (`[][~PutAside]_vars`): a record in bucket NeoRetry may
  wait there until the keepers have changed twice, and nothing verifies it then.
  `SignedInv` says that bucket and snapshot are empty, that a proof is signed by the
  successor of its block (`SuccessorVerifies`), and that the scanner has waited for every
  proof before it changes the keepers.
* `PurseLasts` replaces the conditions on the steps by one on the purse: when the address
  starts with more utxos than the relayer sends transactions and each is worth the fee
  (`PurseAssumption`), neither step is ever taken.  `PurseKeepersReach`,
  `PurseProofsVerified`, `PurseEpochsKept` and `PurseEpochsLedger` follow.  `OneInput` says
  that a choice among utxos one of which is worth the fee is a single utxo, so that each
  transaction uses up one (`SpentInv`) and one is always left (`OneLeft`, by the
  pigeonhole principle).  The other half is that the choice is never refused, although the
  node lists what the pool has spent and blocks come in the middle of `GetBalance`: what
  the pool spends is marked, but for the utxo whose mark is about to be written
  (`PoolInv`), so what the walk has yet to visit is marked or free and what it has
  returned is free (`WalkInv`).  The SDK's choice for the change of keepers reads no mark;
  it is made when the pool is empty.  `r2n_epochs` has such a purse, and TLC checked
  `PurseInv` on it; `r2n_lost_keepers` shows what happens with one utxo.

### Coin selection: `CoinSelectionProofs`, with `CoinChoiceProofs`

For every list of utxos and every amount, when the subtractions are exact
(`Errors = {0}`): `InputsCover`, `InputsDistinct`, `InputsNeeded` and `InputsChosen`.  The
invariant `CoinInv` says that the utxos taken by the first loop are the first ones of
the list, that they and what is left make up the amount, and, in the second loop, that
a utxo which covers the rest has been passed or comes next.  Therefore `unspents[i-1]`
is a utxo that was not taken before; and as the list is decreasing, dropping any input
leaves less than the amount.  `InputsChosen` says that the loops compute the formula
of `CoinChoice`, which `Payments` uses in their place.  It needs what a sum over a finite
set is when an element is added (`TotalAdd`), which the fold of the community modules
does not give: `TotalIsSum` and `SumsAgree` derive it by taking a smallest set for which
it fails (`Induction`).

`RoundingsCover` is about the roundings: the inputs cover the amount, for every list and
every amount, when values and amounts are multiples of a unit and all the roundings of
one selection come to less than one unit (`RoundingsSmall`).  The unit is the smallest
part of a coin, and a float64 is off by one unit only above 2^53 of them, far more than
any fee.  `RoundInv` says how far what is left to pay can be off, and that in the second
loop the sum is already enough, or the utxo passed last, or the next one, makes it so.
The sum is then above the amount less one unit, and two multiples closer than a unit are
in order (`MultiplesApart`).

### Proof and value decoding: `ProofDecodingProofs`

For every block of Poly, every transfer in it, every `Base` and every `HashSize`:

* `NodesCorrect`.  A path of `n` nodes has `n` bytes more than `n` hashes, so the division
  by the size of a hash counts right if and only if `n` is less than that size
  (`Quotient`, `NodeCount`).
* `FieldsRead`.  `ReadVarBytesAt` says that what `VarBytes` writes anywhere in a buffer
  `ReadVarBytes` reads there, in each of the four forms of a length, and where it stops;
  `FieldsAt` and `FieldRead` carry that over the nine fields.
* `RefusalsJustified`.  `ClimbOnTheWay` says that in a tree of any size the hashes on the
  way from a leaf, combined with the siblings as `Combine` does, are the nodes of the
  levels above it, and `SameLevels` that the last of them is the root whatever the leaf.
* `VerdictsRight` joins the two: what the relayer does with a transfer is what the
  contract and the method Poly wrote call for.

The invariant is `DecodeInv`: in the loop, `hash` is the node `i` levels up
(`HashInv`); `offset` is where the next field begins and the fields read are the fields
meant (`FieldsInv`); and `checked` tells which pass it is (`VerdictInv`).  Two assumptions
of `PolyTree` stand for Poly: an answer is the value and the path of one of the
transfers of a block, with any root in the header (`PolyAssumption`), and a value and each
of its fields is short enough for its length to fit into eight bytes (`BlockAssumption`).

### How the proofs go about recursion

The provers know no induction over an operator.  `Induction` states it for a set: among
the sets of a set of finite sets there is a smallest one, and among numbers a least one,
both from the theorem that proper inclusion of finite sets is well founded.  A proof
about a recursive function (`Upto`, `Digits`, `Climb`) or a fold (`Total`, `LittleEndian`)
takes the least number for which the statement fails.

### What each theorem assumes

| theorems | hypothesis |
|---|---|
| `TypeCorrect` of both directions, `CheckMatches`, `ProofsCover`, `MarksCorrect`, `ProofsCorrect`, `VerifiableLedger`, `ProvableKept`, `ProvableLedger` but for the condition they name, all of `ProofDecodingProofs` | none beyond the assumptions on the constants |
| `CursorStaysInStep`, `VerifiableKept` | no block is answered empty five times |
| `KeyHeadersReach`, `ImportsReach` | `HeadersArrive` |
| `TransfersKept`, `LedgerImplemented` | one epoch; from Neo to Poly, for the first, no five empty answers |
| `EpochsKept`, `EpochsLedger` of `NeoToRelayKeptProofs` | `ProofsInOrder` |
| `PaymentsBounded` | `KeysDiffer` |
| `TransfersSentOnce` | `PaidOnceAssumption` |
| `KeepersReach` | `KeepersAssumption`, the address can pay for each change |
| `ProofsVerified`, `EpochsKept`, `EpochsLedger` of `PolyToNeoKeptProofs` | the same, and for each transfer |
| `PurseLasts` and the theorems after it | `KeepersAssumption`, `PurseAssumption` |
| `InputsCover`, `InputsDistinct`, `InputsNeeded`, `InputsChosen` | exact subtractions |
| `RoundingsCover` | `RoundingsSmall` |

Only model-checked: the liveness properties `AllRelayed`, `DebtsPaid`, `BucketsDrain` and
`RetryDrains`, which are beyond the prover.

## Not modelled

* Start-up (`main.go`).  `SetUpPoly` starts one goroutine that sends an error or a
  header on two channels, and selects between them and a timer.  If both the error
  and the nil header are ready, the `select` may take the header and the process
  panics; otherwise it ends with the error.  Either way it ends before it has done
  anything, no state is left for a second step to get wrong, and a module would
  have fewer than ten states.
* Dead code: `syncHeaderToNeo`; the header store of `db.go` with its height list;
  `DeserializeArgs`, `ReadUInt255` and `ReadVarUInt8`.  Nothing calls them, so no state
  of the program is reached through them.
* Logging, flags, configuration, the wallet and the Go SDKs: input and output.
* Amounts and fees of transfers, which the relayer only passes on.

The README of the repository describes the configuration entries `RelayChainID`
and `SpecificContract`; the code reads `NtorContract` and `RtonContract`
(`config/config.go`).  The modules use the names of the code.

## Plan

1. A weaker `PurseAssumption`: the change of a transaction pays for others once it is in
   a block, so that fewer utxos are enough when the relayer waits.
2. `TransfersKept` from Neo to Poly when a proof has waited in bucket Retry, for the
   records whose height Poly can still verify.
3. One more violated run, if one of the others can be merged: a retried transfer
   that the change of keepers overtakes.
