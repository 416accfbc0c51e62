# TLA+ models of cardano-js-sdk

This directory holds TLA+ models of the parts of the repository that have
concurrency, failure handling, mutable shared state or non-trivial
algorithms, and TLC configurations that check them. Everything else is
listed with the reason it is not modelled. `PROJECT.json` has the
machine-readable version of this document: components, runs, mutants, the
map from each TLA+ definition to the source lines it translates, findings
and hazards.

## 1. Inventory of the system

| Part | Source | State | Concurrency / failure content |
|---|---|---|---|
| Submission worker `TxSubmitWorker` | `cardano-services/src/TxSubmit/rabbitmq/TxSubmitWorker.ts`, built by `TxWorker/loadTxWorker.ts` | `#status`, `#connection`, `#channel`, `#consumerTag`, `#continueForever` | `start()` and `stop()` are chains of awaits; broker `close` events run `connectionErrorHandler` at any await point; the parallel consumer runs up to `parallelTxs` `submitTx` at once; the serial `infiniteLoop()` is a floating promise |
| Broker (RabbitMQ via amqplib) | external | ready queue, unacked messages per channel, per-TxId reply queues | requeues unacked messages when a channel closes; rejects operations on closed channels |
| Upstream node (`TxSubmitProvider`) | external | transactions accepted so far | answers ok, a retryable error or a fatal error |
| Correlated request client | not under `src/` (spec §4.2) | one outstanding request per TxId | publishes, then reads the reply queue once |
| Supervisor `startTxSubmitWorkerWithDiscovery` | not under `src/`; tests in `cardano-services/test/Program/services/rabbitmq.test.ts` (spec §4.4) | the current worker | replaces the worker on each `CONNECTION_ERROR_EVENT` |
| `ObservableWalletTxBuilder` | `wallet/src/TxBuilder/buildTx.ts` | builder fields, `#isSubmitted` | setters run between the awaits of `build()`, `sign()` and `submit()`; `#isSubmitted` is set only after submit resolves |
| Rewards history tracker | `wallet/src/services/DelegationTracker/RewardsHistory.ts`, `DelegationTracker.ts`, the rewards service `cardano-services/src/Rewards/DbSyncRewardProvider` | the stored history, the emitted summary, the pending provider request | rxjs streams: a new emission of the reward accounts restarts the fetch; a new lower bound switches away from a pending request; the lower bound is `distinctUntilChanged` |
| Db-sync chain history | `cardano-services/src/ChainHistory/DbSyncChainHistory/queries.ts`, `mappers.ts` | none (reads db-sync's tables) | the order of its rows decides which delegation the rewards tracker takes as the first |
| E2E factories and `setupWallet` | `e2e/src/factories.ts`, `wallet/src/setupWallet.ts` | memoize cache, the params objects it writes, the BlockFrostAPI module variable | `keyAgentById` mutates the caller's params; key agent factories read them later |
| Selection constraints, key helpers, metadatum, assetId, db-sync network info, NFT metadata | see `PROJECT.json` | none | stateless conversions, SQL text, CSL calls |

How the worker's parts interact: a client publishes a serialized transaction
to `TX_SUBMISSION_QUEUE`. A worker takes it, either pushed by its consumer
(parallel mode, at most `parallelTxs` unacked) or pulled by `channel.get()`
(serial mode). It submits it to the node, acks it after success or a fatal
error, nacks it (requeue) after a retryable error, and after a terminal
verdict sends the outcome to a queue named by the TxId. The client reads
that queue. When the broker closes the connection or channel, the worker's
`close` listener sets the status to `error`, runs `stop()` and emits
`CONNECTION_ERROR_EVENT`. The supervisor listens for that event: it discards
the current worker and calls `workerFactory()` again, which runs service
discovery for the broker and starts a new worker. Its handle's `stop()`
stops the worker that is current when it is called.

The wallet side: `ObservableWalletTxBuilder` builds a transaction from its
fields (outputs, delegation, metadata, signers), the wallet signs and submits
it. The wallet's transaction history comes from the chain history provider,
which reads db-sync's tables with the queries of `queries.ts` and builds
transactions with `mappers.ts`. The delegation tracker keeps the history's
staking transactions with the epoch of their slot; the rewards history takes
the first one that delegates a reward account, and fetches rewards from the
rewards service from three epochs after it. The e2e factories build wallets from environment configuration.

## 2. What is modelled

Every `await` is a step boundary, so an action is the code between two
awaits, including everything that code does (a trailing requeue, reset or
store is inside the action, never a separate one).

### `TxSubmitWorker.tla` (with `MCTxSubmitWorker.tla`)

One module holds a set `Workers` of worker instances, the broker they share,
the upstream node and the clients. amqplib emits `close` synchronously, so
the listeners of one broker event run before anything else: the model
records the listeners still to run in `pendingClose`, and all other actions
are guarded by `Quiet`.

| Variables | Code |
|---|---|
| `status`, `conn`, `chan`, `consumerTag`, `continueForever` | the private fields (`"none"` = undefined, `"open"`, `"closed"` object) |
| `leaked` | workers whose connection `stop()` cleared from `#connection` without closing it (the field read `undefined` at line 223, then `connect()` assigned it) |
| `spc` | where `start()` is suspended |
| `stops[w][c]` | where a `stop()` run by caller `c` is suspended: the user, or `connectionErrorHandler` from `start()`'s catch or a `close` listener. Two runs can overlap. |
| `lpc` | where `infiniteLoop()` is suspended |
| `hpc[w][m]` | where `submitTx(m)` is suspended |
| `emitted` | count of `CONNECTION_ERROR_EVENT`s |
| `queue`, `unacked`, `consuming`, `replies`, `acked` | the broker |
| `accepted`, `rejected` | the node |
| `result` | what each client's request resolved to |

Actions: `start()` split at its awaits (`StartCall` … `StartConsume`, with
`StartFails` for the catch); `stop()` split the same way (`StopCall`,
`StopSync`, `StopCancel`, `StopDrain`, `StopCloseChan`, `StopCloseConn`, the
last one emitting through `emitEvent`). `StopCloseChan` issues
`#connection?.close()` on the field as it is then; if it was undefined and a
connection has been opened since, `StopCloseConn` clears both fields and the
connection stays open with its channel (`Leaks`, `leaked`), as the code
forgets it at line 230; intake `Consume`, `LoopGet`,
`LoopResume`; handling `submitTx` and `SendResponse`; the broker's `ConnDrop`,
`ChanDrop`, `CloseListener`; the client's `Publish` and `ReceiveReply` (not
under `src/`, modelled from the spec).

Abstractions: a message is its TxId; transactions in `Invalid` are rejected,
an accepted one is rejected as a duplicate, a retryable error is always
possible. Deserialisation failures are not modelled. `waitForPending` (not
under `src/`) is "no `submitTx` of this worker in flight". Whether a
channel's `close` event carries an error is the constant
`ChannelCloseHasError`; every configuration sets it FALSE, as amqplib
passes no error, so a broker-initiated channel close leaves the worker
`connected` and tells nobody (a hazard in `PROJECT.json`).

**Supervisor** (constant `Supervised`; spec-modelled from spec §4.4 and
the tests in `rabbitmq.test.ts`, since `startTxSubmitWorkerWithDiscovery` is
not under `src/`). Variables: `current` (the worker the supervisor holds),
`factory` (a `workerFactory()` call with service discovery is pending),
`handle` (the promise and handle returned to the user: pending, ready,
rejected, stopped), `stopTarget` (the worker the handle's `stop()` stopped).
Actions: `FactoryResolves` (discovery succeeds and a fresh worker is
started, discovery fails, or the handle was stopped meanwhile and nothing
is started); `StartSettles` (the first worker's `start()` settles the
user's promise); `SupervisorStop` (the handle's `stop()` runs the current
worker's `stop()`); `OnConnectionError`, the listener, runs inside
`emitEvent` because `EventEmitter.emit` calls listeners synchronously. When
`Supervised` is TRUE the user's own `StartCall`/`StopCall` are off and
workers start only through the supervisor.

### `TxSubmission.tla`: the abstract submission service

What the service promises whatever the number of workers and failures: a
transaction reaches the node only once a client published it; each terminal
verdict owes the client at most one reply, and that reply is the verdict;
replies can be lost and submissions repeated. `TxSubmitWorker.tla` maps its
state onto it (`Published`, `Owed`: the handlers that are about to reply and
with what) and checks `TxSubmissionSpec == Submission!Spec` as a property.

### `TxBuilder.tla` (with `MCTxBuilder.tla`)

One builder with a set `Builds` of overlapping `build()` calls. Variables
are the builder's fields, the reward accounts' key status (the four
`StakeKeyStatus` values: `Registering` and `Unregistering` mean a
certificate is in a transaction not yet on chain), and per build the
suspension point `bpc`, the validated outputs, the body sent to
`initializeTx`, the `ValidTx`, the sign/submit progress `spc` and what
`finalizeTx` got. Setters (`AddOutput`, `RemoveOutput`, `Delegate`,
`SetMetadata`, `SetExtraSigners`, `SetSigningOptions`) can run between any
two awaits, bounded by `MaxEdits`. `build()` is `BuildCall` (the
`isSubmitted` check), `BuildCerts` (`#addDelegationCertificates` from
`rewardAccounts$`, with `CertsFor`/`Cert` for each account), `ValidateOutputs` (the
synchronous start of `#validateOutputs`, reading the outputs), `BuildValidate`
(the awaited output builders) and `BuildInit`; `Sign`, `Finalize`, `Submit` and `SubmitDone` (which sets
`#isSubmitted`) follow.

### `DbSyncChainHistory.tla`: the chain history queries and mappers

Pure operators over db-sync's tables, each table a set of records with the
columns the queries read. `SelectTxInput` and `SelectTxOutput` are the
joins; `FindTxInputsByHashes`, `FindTxInputsByAddresses`,
`FindTxOutputsByHashes`, `FindTxOutputsByAddresses`,
`FindTransactionsByHashes` and `FindDelegationCerts` are the queries with
their `ORDER BY` (`Query`, `SortBy`); `FindStakeCerts`, a `UNION`, is a set,
since SQL gives a union no order. `MapTxIn`, `MapTxOut`, `MapCertificate`
(the full dispatch, including the null case) and `MapTxAlonzo` are the
mappers. Transaction hashes are numbers unrelated to the row ids, so
ordering by id and ordering by hash differ.

### `RewardsHistory.tla` (with `MCRewardsHistory.tla`)

The whole path from the chain to the rewards the wallet shows.

| Variables | Code |
|---|---|
| `slot`, `db` | the chain and db-sync's tables (block, tx, tx_out, tx_in, stake registration and deregistration, delegation, reward) |
| `walletTxs` | what the chain history provider answers for the wallet's address over `db` (kept with `db`) |
| `history` | `TransactionsTracker.history$` |
| `stored` | `rewardsHistoryStore` |
| `storedDone`, `fetched`, `pending` | where the `concat` of `createRewardsHistoryTracker` is: stored history shown, the last bound `firstDelegationEpoch$` emitted, a provider request in flight |
| `shown` | the last `RewardsHistory` emitted |
| `emits`, `tracking` | emissions of `rewardAccounts$`; not yet shut down |

The environment: `ProduceBlock` adds a block with one transaction, a wallet
one that spends the wallet's change or a foreign one, with a certificate
list; `Tick` advances the slot and, at an epoch's end, records rewards by
the ledger's rule (`Earning`: a delegation `RewardDelay` epochs or more
before, not deregistered since). These are not code of the repository and
have no map entry. The provider's `transactionsByAddresses` and
`transactionsByHashes`, `transactionsWithCertificates`, `createSlotEpochCalc`
and `TransactionsTracker` are not under `src/`: they are modelled from their
use (`WalletSync` reloads the wallet's transactions) and marked
spec-modelled.

The code: `CertificateTransactionsWithEpochs` (the epoch of each staking
transaction's slot), `FirstDelegationEpoch` (`first` of the delegating
transactions, plus three), `AccountsEmit` (switchMap restart),
`ShowStored`, `FetchRequest` (a new bound, `distinctUntilChanged`, switchMap
to the provider) and `FetchReply` (an answer no newer bound has switched
away from, stored with `setAll`, which replaces the store's contents, and summarised), `Shutdown`
(`DelegationTracker.shutdown` completes the stream). The service side is
`GetRewardsHistory` and `RewardsToCore`. The summary is pure operators:
`Flatten`, grouping, `DefaultSort` (JavaScript's `sort()` with no
comparator, which compares the decimal strings: `Digits`, `StringLess`),
`SumRewards`, last and average reward.

### `E2EFactories.tla` (with `MCE2EFactories.tla`)

`keyAgentById` with its memoize cache (`cache`, keyed on the index only) and
the params objects it writes (`paramIdx`); the key agent factories
(`KeyManagementCreate`) and the closures they return, which read
`params.accountIndex` when invoked (`InvokeKeyAgent`); `getBlockfrostApi`;
`getWallet`'s seven provider awaits (`GetWalletProvider`: an unregistered
name or a missing `baseUrl` rejects, a blockfrost provider without an API key
never settles), its key agent step on a copy of the env params
(`GetWalletKeyAgent`) and `setupWallet`. `ProviderFactory.create` is not
under `src/`; an unregistered name rejects, as its use implies.

`factories.ts` is test tooling, not part of the implementation, and no run
of the project checks this module. `e2e_key_agent_by_id.cfg` is kept beside
it: under it TLC violates `KeyAgentByIdMatches` in 4 steps. Two
`keyAgentById` calls with one params object give two factories that both
make the second account's key agent (factories.ts:330). The hazards in
`PROJECT.json` record it.

## 3. Runs

| Run | Expect | Checks | Shows |
|---|---|---|---|
| `worker_serial` | pass | `RepliesMatchUpstream`, `NoMessageLost` | replies agree with the node's verdict; no published transaction disappears unsettled |
| `worker_parallel` | pass | `TypeOK`, `StopDrainsHandlers`, `TxSubmissionSpec` | prefetch bound; stop() cancels, drains, then closes; the workers refine `TxSubmission` |
| `worker_liveness` | pass | `OneActiveWorker`, `ErrorLeadsToIdle`, `DeliveredIsSettled`, `FailedWorkerIsReplaced` | under the supervisor, two workers never hold open connections at once (the event is emitted after `stop()`); the error path always completes; every delivery is eventually settled, except on a channel a `stop()` forgot (the `stop_during_start` finding); a failed current worker is eventually replaced by a connected one, unless the handle was stopped or the replacement's start failed before its try block |
| `txbuilder` | violation | `CertificatesFollowLedgerRules` | a key that is `Unregistering` is treated as registered: `deregister()` writes a second deregistration (line 223), `delegate()` a delegation with no registration (line 237) |
| `double_error_event` | violation | `EmitAtMostOnce` | a connection drop during `createChannel()`: the listener and the catch both run the handler, two events |
| `accepted_reported_failed` | violation | `AcceptedNeverReportedFailed` | a channel close after the node accepted but before the ack; the redelivery is rejected as a duplicate and the client is told "failed" |
| `serial_stop_races_get` | violation | `StopDrainsHandlers` | serial stop() does not stop a `get()` already issued |
| `stop_during_start` | violation | `SupervisorStopLeavesNoWorker` | under the supervisor, with a user who awaited the start: the first worker's `connect()` fails, the replacement is started, the handle's `stop()` reaches it during `connect()` and resolves; the replacement then opens a connection nobody closes, and a message taken on its channel is never settled |
| `build_after_submit` | violation | `NoBuildAfterSubmit` | a build that passed the `isSubmitted` check completes after the submission |
| `sign_reads_builder` | violation | `SignedTxIsValidTx` | `setMetadata()` while `initializeTx` is pending: the body hashes the old metadata, the `ValidTx` and the signed transaction carry the new one (lines 175, 182) |
| `rewards_epoch_order` | violation | `LastRewardIsLatest` | epochs 9 and 10 sort as [10, 9]; `lastReward` is epoch 9 |
| `rewards_pipeline` | pass | `TypeOK`, `FetchShowsEveryEarnedReward`, `DelegationIsFetched` | chain, db-sync queries and mappers, staking transactions and the rewards tracker together: when a fetched history is shown, it has every epoch the chain paid the wallet's accounts a reward for through a delegation the wallet's history shows, even after a second delegation; a delegation on chain eventually leads to a fetch from a non-null bound |

Each property of a passing run has a mutant in `PROJECT.json`: an operator
named `<action>_<bug>` defined next to the action. Substituting it makes TLC
violate the property (a connection never closed by stop(), an event nobody
listens to, a prefetch off by one, no consumer cancel, a
reply after a retryable error, an ack instead of a nack, a missing ack, a
missing reset to idle, a doubled reply, the last
delegation taken for the first, a delegation row mapped as a registration,
a transaction id taken from its block). Ordering `findTransactionsByHashes`
by hash instead of `tx.id` (`FindTransactionsByHashesByHash`) also
violates `FetchShowsEveryEarnedReward`.

`AckedHasReply` (in `TxSubmitWorker.tla`) states that an acked transaction
gets its reply; TLC violates it with one channel close between the ack
(line 291) and the reply (lines 301–303). It is the same ack-ordering window
as `accepted_reported_failed`, and is recorded as a hazard. The refinement
allows it, since the abstract service may lose replies.

`double_error_event` shows two events for one failure. Under a supervisor
that follows §4.4 this is harmless: the first event discards the current
worker, and the second comes from a worker that is no longer current and is
ignored. `OneActiveWorker` holds with it in the liveness run.

The eight findings are in `PROJECT.json` with their source lines.

## 4. Bounds and why they suffice

- **Worker: two workers**, so that a requeued message is resubmitted by another worker, and, under the supervisor, a failed worker and its replacement; with `MaxDrops = 1` the second worker is the last replacement, and a further failure comes from a failed connect or discovery. **Two or three messages, one invalid**: accept, fatal and retry verdicts and two handlers in flight; three messages with `ParallelTxs = 2` is the smallest case that can exceed the prefetch. **`MaxDrops = 1`**: every finding needs one broker close. Parallel and serial each appear in a passing run.
- **TxBuilder: one reward account in every run, in any of the four statuses.** `txbuilder`: one build, `MaxEdits = 2`; the violation needs one build of one account. `sign_reads_builder`: one build, two metadata values, `MaxEdits = 1`, the least for a setter to change what the build already read. `build_after_submit`: two builds and no setters, the least for a build to outlive another's submission.
- **Rewards pipeline: one wallet account and one foreign key, one slot per epoch, slots 0 to 5, three blocks, one re-emission of the reward accounts, `RewardDelay = 3`.** Three blocks let the wallet register and delegate, delegate again and deregister, or interleave a foreign delegation; a delegation in slot 1 earns for epoch 4, paid when slot 5 starts, so a reward lies between a first and a second delegation. The hashes run opposite to the row ids, so an order by hash is caught. 240,160 states, about 40 seconds.
- **Rewards epoch order: slots 6 to 11, one block.** A delegation in epoch 6 pays for epochs 9 and 10 (one and two digits).

The passing runs finish within about a minute and a half each, and between
them they fire every action of their modules.

## 5. Fairness

`FairSpec` puts weak fairness on every continuation of the worker (start,
stop, the loop, the consumer, the handlers and the `close` listeners) and on
the client reading its reply: each runs once what it awaits has resolved,
and the event loop, the broker and the node always answer eventually. There
is no fairness on the user's `start()` or `stop()` calls, on publishing or on
broker drops.

Under the supervisor, `FactoryResolves` is weakly fair: service discovery
ends with an address or an error (spec §4.3, bounded retries), and the
worker's `start()` is then called synchronously. `StartSettles` and
`SupervisorStop` have no fairness: the user decides when to stop.

`RewardsHistory`'s `FairSpec` puts weak fairness on `WalletSync` (the
transactions tracker reloads on each new tip), `ShowStored` (the stored
history is read once `rewardAccounts$` emits) and `FetchRequest` (the
subscription to `firstDelegationEpoch$` follows the stored history within
the same `concat`). `rewardAccounts$` emits a bounded number of times, as a
wallet's accounts change rarely. There is no fairness on the provider's
answer, the chain, the re-emissions or `Shutdown`. `DelegationIsFetched`
allows a shutdown as an outcome. The other modules check safety only.

## 6. Plan for the next sittings

1. **`computeSelectionLimit`** (`input-selection/src/selectionConstraints.ts`) as a pure operator over small sizes, if its CSL size calls can be abstracted faithfully.

## 7. Not modelled

- The db-sync queries and mappers no modelled component reads (blocks, tip, assets, mint, withdrawals, redeemers, pool and MIR certificates), the network info mappers, the metadatum and asset-id conversions, and the NFT metadata service are stateless row or byte conversions; TLC has nothing to check beyond unit tests. One observation from reading them: `findBlocksOutputByHashes` names its sums `fee` and `out_sum` (queries.ts:88-89), while `mapBlock` reads `fees` and `output` (mappers.ts:196, 208), so a block's fees and total output would map to 0. A unit test reaches that directly.
- A connection and channel that `stop()` forgot (`leaked`) ends only by a broker connection drop (`ConnDrop`); the model neither delivers further messages on the forgotten channel nor closes it alone, so it under-approximates what that channel does after it is forgotten.
- Key derivation helpers call CSL cryptography.
- Selection constraints compute sizes through CSL serialisation (see the plan).
- Logging, `#counter` and error serialisation in the worker, and the faucet provider and `getLogger` in the e2e factories, change no state any property depends on.
- The rest of `createDelegationTracker` (stake pools, the reward accounts tracker) is not under `src/`; the rewards history needs only its outputs. Chain rollbacks are not modelled: db-sync deletes rolled-back rows, and new rows get higher ids, so the history's order stays chain order.
- A reward of the wallet's accounts paid after the first fetch is not shown until `rewardAccounts$` emits again (the hazard at RewardsHistory.ts:53); this is the stream's design, so no property promises it.
