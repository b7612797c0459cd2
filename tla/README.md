
# A verification of chainlink-evm

TLA+ models of the parts of this repository that keep state across failures and
concurrency, the TLC configurations that check them on small instances, and proofs for
every value of the constants. Paths and line numbers are those of the repository;
`PROJECT.json` maps every definition that models code to its lines.

## 1. Inventory

| Component | State | Operations | Interacts with | Hard because of | Module |
|---|---|---|---|---|---|
| Transaction manager, `pkg/txm/txm.go`, `attempt_builder.go`, `stuck_tx_detector.go` | local nonce per address, time of the last purge | broadcast round, backfill round, purge, gap filling, Abandon | the store (shared by both loops and callers), the RPC | two loops and callers on one store; calls that fail after they succeeded; dropped, reorged and stuck transactions | `Txm` |
| In-memory store, `pkg/txm/storage` | queue of unstarted, maps of unconfirmed and confirmed by nonce, fatal list, index by id | about a dozen methods, each under the store's lock | both loops, orchestrator | an object in several collections; pruning; reorgs move entries back | `Txm` |
| Lifecycle of the manager, `txm.go` | `StateMachine`, `triggerCh`, `stopCh`, wait group | Start, Close, Trigger, initializeNonce | callers, RPC | a channel send under a read lock; one deadline for all retries; lost wake-ups | `TxmLifecycle` |
| Log poller, `pkg/logpoller/log_poller.go`, `orm.go` | tables of blocks, logs and filters, the filters in memory, next block of the backup poller, finality flag | poll, backfill, backup poll, Replay, block pruning | RPC, database | reorgs between any two calls; restarts; incomplete answers; a client's Replay next to the poller | `LogPoller`, `LogView` |
| Its replays and shutdown, `log_poller.go` | `replayStart`, `replayComplete`, stop channel, wait group | Replay, ReplayAsync, handleReplayRequest, run, Close | clients, run() | unbuffered channels between goroutines that may each leave | `ReplayHandOver` |
| Its log pruning, `log_poller.go`, `orm.go` | filters, `countBasedLogPruningActive`, the logs | PruneExpiredLogs, PruneUnmatchedLogs, RegisterFilter, UnregisterFilter | poller, clients | selection and deletion are two statements, by pages | `LogPruning` |
| Its FindLCA, `log_poller.go` | none | one search by halves | database, RPC | numbers without a row; the chain moves during the search | `FindLCA` |
| Heads, `pkg/heads` | cache of heads linked to parents, table | AddHeads, MarkFinalized, Save, Load | head tracker (external framework) | heads out of order; cache and table updated one after the other | `Heads` |
| Subscriptions, `pkg/client/sub_forwarder.go` | three channels and the loop's place | forwardLoop, Unsubscribe | node, consumer | an end from both sides, and a consumer that stops reading | `Subscription` |
| Keys, `pkg/keys` | lock with a count per address, last use | TryLock, Unlock, GetNextAddress | both transaction managers of a node | two kinds of service share one lock; lists that differ by caller | `Keys` |
| Gas, `pkg/gas` | block or fee history, current prices | estimate, bump | attempt builder | limits and rounding; two caps bumped apart | `GasBump` |
| Write target, `pkg/writetarget` | none across calls but a confirmer goroutine per report | Execute, acceptAndConfirmWrite | orchestrator, contract, other nodes | success before confirmation; time-outs; several writers of one report | `WriteTarget` |
| Orchestrator, `pkg/txm/orchestrator.go` | `StateMachine` of its own, idempotency keys in the store | CreateTransaction, Reset, statuses, Start, Close | transaction manager, forwarders, keystore | look-up and creation are two steps; partial start | – |
| Forwarders, `pkg/forwarders` | cache of authorized senders, last block handled | ForwarderFor, runLoop, handleAuthChange | log poller, RPC, orchestrator | cache filled before it is subscribed; one `latestBlock` for all forwarders | – |
| Rest of the RPC client, balance monitor, reports, configuration, assets, ABI, utilities | little or none | | | | – |
| `contracts/`, `gethwrappers/` | | | | Solidity, and generated bindings | – |

What makes each of them correct:

- *transaction manager and store*: a nonce is used for one request and a request for one
  nonce; no gap stays; what is called confirmed has been executed; a failed transaction
  stays failed; everything not abandoned is sent until it is confirmed; limits hold.
- *lifecycle*: nothing runs after Close; Close returns; a Trigger wakes the loop; no
  round without the first nonce.
- *log poller*: the saved blocks are one fork; no log is skipped; logs of an abandoned
  fork disappear; finality violations are reported if and only if they happened; the poller
  catches up; a replay brings what it was asked for, and its answer gets to who asked;
  only unwanted logs are pruned, the oldest first; the common ancestor is the highest one.
- *heads*: every link leads to the real parent; final heads have final ancestors; a
  restart loses no head.
- *subscriptions*: results in order, none lost, the reason of the end known, quiet after Unsubscribe.
- *keys*: two kinds of service never hold one address, and no address starves; *gas*: a bump
  is a replacement the node takes, within the limit; *write target*: a write
  that is confirmed as a success was one, and every write gets one verdict.
- *orchestrator*: one transaction per idempotency key; *forwarders*: the cache equals the
  contract's senders once the logs are handled. Neither holds, see section 3.

`PROJECT.json` lists the hazards at their lines, with the properties that cover them.

## 2. Modules

| Module | Models |
|---|---|
| `Txm` | store, broadcast loop, backfill loop, stuck-transaction detector, and the chain and pool behind the RPC, for one address |
| `TxmProofs`, `TxmSigningProofs` | proofs about `Txm`: types and nonces; what is signed and how often, what stays abandoned, the partition of the store |
| `TxmLifecycle` | Start, Close, Trigger, the first nonce; the loops only as threads that wait, run and exit |
| `Blocks` | blocks as the sequence of versions from block 1 on: two blocks are equal when their histories are, like hashes |
| `LogView` | abstract: what a reader of the log poller's tables may see |
| `LogPoller` | the log poller, its tables, a client in Replay, the chain |
| `LogPollerProofs`, `LogPollerForkProofs`, `LogPollerLogsProofs` | proofs about `LogPoller`: types and the lemmas on blocks and rows; one fork, no false alarm, no rewind of final blocks; no log skipped, complete replays, and the refinement of `LogView` |
| `ReplayHandOver` | the channels of Replay, the goroutine a client leaves behind, and the shutdown |
| `LogPruning` (`LogPruningMC`: its filters) | the pruning worker against filters that come and go and blocks that are saved |
| `FindLCA` | the search for the common ancestor |
| `Heads` | the head set, the table, the saver |
| `HeadsProofs` | proofs about `Heads` |
| `Subscription` | `subForwarder` |
| `Keys` | the address lock and the round robin of the key store |
| `GasBump` | the fee of a transaction from its first estimate through all its bumps |
| `WriteTarget` | one report written by several nodes |
| `Services`, `Stores` | components checked side by side, see section 3 |
| `ServicesProofs` | proofs about `TxmLifecycle`, `Subscription` and `ReplayHandOver`, and about the three side by side |
| `StoresProofs` | proofs about `LogPruning`, `FindLCA`, `Keys`, `GasBump` and `WriteTarget`, and about all the stores side by side |

Each specification module holds its properties at its end. In every module an operator
marked `faulty` is a plausible mistake in the operator after it (a dropped
guard, an off-by-one, a missing reset). Nothing uses them. Each property of a passing run
has one in `PROJECT.json`: put in the place of the operator it imitates, TLC finds the
property violated, which shows that the property depends on that line of the code.

### Txm

A step is one call that holds the store's lock, or one RPC. `pc` says where each loop is
and `cur` holds the locals it carries over calls: the copy of the transaction and
its nonce, which another goroutine may make stale. The broadcast loop
goes `init` (initializeNonce), `idle` (CheckInFlight, the limit and the optimistic subset),
`pending` (the check of the pending nonce), `assign` and `advance` (the store gives the
nonce, then `setNonce`), then `create`, `send`, `recheck`, `update` for the attempt
(createAndSendAttempt). The backfill loop goes `mark`, `fetch`, then the same labels for
an attempt, `purge` or `gap`. Callers create transactions and Abandon between any two
steps; creation includes the queue's limit and pruning, as in the code.

The environment is external: the chain executes the next nonce of its pool (`Mine`), loses
its last blocks (`Reorg`), the pool drops an entry, time passes. `used` bounds what goes
wrong, of each kind and, with `MaxTroubles`, altogether. Time is counted in blocks, and ages beyond both
thresholds are one value. Addresses do not interact in the code (each has a store, a nonce, a channel
and two goroutines), so one is modelled.

Abstracted: payloads and fees (an attempt is a transaction id and whether it is a purge or
gap filler; fees are the subject of `GasBump`), the metrics, the jitter and backoff of timers. The error handler
is left out because NewTxm never installs one; `DeleteAttemptForUnconfirmedTx`
and `MarkTxFatal` are called by nothing else.

### TxmLifecycle

`state` and `locked` are the StateMachine of chainlink-common as used here: StartOnce and
StopOnce change the state before they take the lock, IfStarted needs the read lock, which a
waiting writer denies to new readers. `pc` has the callers, both loops, Start and
Close. A broadcast round takes transactions one by one and has a step between its last
look at the queue and the select, which is where a wake-up could get lost.

### LogPoller

Two threads, `run` (the goroutine of `run()`, which polls, backs up and serves replays) and
`client` (a caller of Replay, which backfills in its own goroutine), with their locals
in `job`. The rows of `evm.log_poller_blocks` are a function from numbers, the logs a set of the
blocks whose one log is saved. Every RPC and SQL statement is a step, so a reorg, a restart,
the client or pruning may come between any two; in particular the two deletes of
`DeleteLogsAndBlocksAfter`, which are not in one transaction. The transactions that do hold
(InsertLogsWithBlock) are one step.

Merged into one step each: the walk to the lowest common ancestor (by hash, so that a reorg
cannot change its answers half-way); Replay's look at the latest block and its row; selection and
deletion in PruneOldBlocks. A block either has one matching log or none, according to its version. Filters are reduced to the one that matches the logs: whether it is
in the table (`registered`) and whether it is in memory (`filters`), from where `Filter` builds its query (`Matching`). A restart empties the memory
(`NewLogPoller`, `log_poller.go:165-187`); the first tick that succeeds loads it and sets `filtersLoaded`, and a replay request before that loads it without setting
the flag (`LoadFilters`). The tick is one step: it loads and then reads the last row, between which nothing that others do matters. The chain never loses block 1. A reorg produces a fork that is at first
shorter than the old one and is noticed when the chain outgrows it.

The code takes for granted that what is final goes with what it saved ("we don't need to worry about
re-orgs after finality depth"). It does not when a reorg of unfinalized blocks becomes final before the poller has
seen it. A poll sees it first thing, because it looks at the parent of its next block, but a backfill of
the backup poller or of a client does not look. The history variable `unchecked` remembers that a backfill began while the
last row contradicted the chain below the end of its range (`Contradicts`), or that a poll of an empty table began above the last final
block. `Checked`, that neither happened and no final block was reorged, is the premise of the safety properties.

`LogView` is what the tables promise to a reader: a fork that starts, is extended by a
block together with its logs, or is cut back to an ancestor together with its logs.
`LogPoller!ImplementsLogView` maps `head` to the last saved row and `view` to the saved logs up
to it. A rewind deletes the rows first, so the logs above the cut are out of view at once and deleted next. A failure or a restart
between the two deletes leaves them there, and they come back into view, next to those of the new fork, when rows reach them.
`DeleteLogsAndBlocksAfter` means the deletes to be one transaction; the closure it hands to `Transact` uses the ORM outside
of it. Hence `LogPollerFinality` has no failing calls and no restarts, and the theorem has the premise `Together`.

### ReplayHandOver

What `LogPoller` treats as one hand-over is several sends and selects in the code. `caller` is a client's
place in Replay (`offer` at the send on `replayStart`, `await` at the receive of `replayComplete`,
which a client enters only after its send was taken: `sent`), `receiver` the goroutine
`recvReplayComplete` that it leaves when its context ends, `runLoop` and `serving` the
select of `run()` and the request it handles, `closer` the steps of Close. A send with a default finds only
who is at the receive. Clients of ReplayAsync have the stop channel for a context.

### LogPruning

Blocks and logs with an index and a kind; filters with the kinds they match, a retention and a
number of logs to keep. The worker runs a round at a time: expired logs by one statement,
excess logs and unmatched logs by pages, and then deletion by row id. Blocks are saved, filters registered
and dropped, and the process restarted between any two of its steps. The window function of
`SelectExcessLogIDs` is modelled as the SQL has it: by ascending block within a page.

### FindLCA

The table is a set of numbers, of which those up to `common` are still on the chain. The search
keeps the bounds of Go's `sort.Find`; a number without a row is judged by the oldest row
above it, as the code does. The chain may move between any two comparisons (`moved`).

### Heads

A head is its hash, with the number and the parent it claims. The listener and the backfiller save
heads in goroutines of their own: the cache under its lock, then the row. Marking final, trimming of the cache
and of the table, a restart and the Load of the rows in their order are actions. The node may announce
any head, in any order, more than once, also one whose number cannot be right.

### Subscription

forwardLoop's places are its two selects and the deferred calls one by one. The
channel `unSub` has room for one element, the error channel for one error. Callers of
Unsubscribe, the node's subscription and its consumer, which may stop reading, are the environment.

### Keys

The Mutex of one address (`serviceType`, `count`) with history `holders`, and GetNextAddress
over accounts that come and go. Each user edits the list it brings in place, as
`slices.DeleteFunc` does. The map of last uses is modelled by its order, `usedSince`.

### GasBump

`fee` is what the latest attempt paid, whichever estimator made it; each bump starts from it
with market prices chosen anew. The fee history estimator for a chain without a mempool (`BlockHistorySize` 0) is an estimator of its own here, `"no mempool"`: it has
no priority fees, and its bump of a dynamic fee is the market's fee fetched again (`BumpWithoutMempool`). The arithmetic is that of the code on integers (AddPercentage rounds down, the base fee grows
by nine eighths per block). `blind` remembers that a bump of the block history estimator had no usable base fee.

### WriteTarget

Each writer is a call of Execute with the confirmer it starts; `emitted` is what followers
of the messages see, `transmission` what the contract remembers of the report. External: transactions get into a block and
become final.

## 3. Runs

| Run | Asks | Instance | Distinct states |
|---|---|---|---|
| `TxmSafety` | is the store consistent with itself and the chain, are nonces disciplined, is nothing executed twice or brought back, are few stuck? | 2 requests and a gap filler at 2 nonces, all limits at 1 (an attempt, a place in flight, in the subset, in the queue), pruning, any two of a failing call, a drop, a reorg and an Abandon but for the last two | 2 501 000 |
| `TxmLive` | is every transaction eventually resolved? | 2 requests and a gap filler at 2 nonces, 2 attempts; one of a failing call, a drop, a reorg and an Abandon | 478 000 |
| `LogPollerFaults` | one fork, no log skipped; does a replay cover what was asked, with a filter registered at any moment? | height 3, finality one behind, a fault, reorg, restart and replay, pruning, backup poller | 2 555 000 |
| `LogPollerFinality` | flag only after a real violation; final blocks are kept; implements `LogView` | height 4, two reorgs, one more of final blocks, no backup poller | 160 000 |
| `LogPollerLive` | does it catch up; does the backup poller repair? | height 3, immediate finality, one fault, incomplete answer and reorg | 79 000 |
| `Services` | the lifecycle, a subscription, the hand-over of replays: quiet after the end, nothing lost or mixed up, nobody left waiting | 2 callers of Trigger, one outage, one deadline; 2 callers of Unsubscribe, 3 results; 3 clients, one of them asynchronous | 31 000 |
| `Stores` | heads, pruning, FindLCA, keys, fees and reports: are they right? | 6 heads, one lost insert, one restart; 2 filters, 3 blocks, 3 logs; all tables of 5 numbers; 3 users and keys; 7 market prices; 3 writers | 396 000 |
| `TxmInitialNonce` | does a started service get its nonce? (*violated*) | 2 callers, one outage, one deadline | |
| `LogPollerCrash` | canonical logs after a restart (*violated*) | height 3, one reorg, one restart | |
| `LogPollerReplayStart` | catching up after a replay of an empty table (*violated*) | height 3, one reorg, one replay | |
| `LogPollerReplayGuarantee` | is a replay that returned nil complete? (*violated*) | height 3, one failing call, one replay | |
| `LogPruningOrder` | are the oldest logs pruned first? (*violated*) | 2 filters that keep one log each, 3 blocks, no pages | |

`Services` and `Stores` check components that share no state side by side: a behaviour picks one of them and
the others stay in their initial states, so that the states are the sum of those of the components and not the product.
The temporal properties and the fairness are those of the components; a
component that sleeps is in a state that obliges it to nothing. Each has its own specification
(`HandOverSpec`, `GasSpec`, ...), which is what the proofs are about.

Why these bounds are enough. *Txm*: the interesting cases relate two
transactions (a gap below the second, one stale copy, one overwritten entry) and a gap
filler; limits of 1 put every one of them at its limit, the queue and the pruning of confirmed transactions
included, and thresholds of 0 blocks let retries and purges happen as soon as possible. Any two troubles are tried, at any two
moments, but for a reorg with an Abandon, after which the safety run goes no further (`ReorgOrAbandon`): that pair would more than
double it; all properties of the safety run are
proved for any number of all four. The liveness run has two nonces, so that an Abandon of the lower one leaves a gap that
the second transaction waits behind; the loops stop looking for gaps (`AllConfirmed`) only when nothing is unconfirmed, and a loop that stopped
when the lowest nonce is free would fail it. It has each trouble alone, at any moment: pairs of them are beyond TLC's reach
with two nonces, so that liveness under several troubles is not checked. Both loops only ever work for the lowest open nonce, whose resolution is the induction step for more of them. *TxmLifecycle*: the
channel holds one message, so that one caller fills it and another is blocked while Close waits for the lock. *LogPoller*: height 3 has a final block, a block that a reorg
abandons and one above, height 4 also a common ancestor above the final one; batches of 2 and 1 give more than one batch; one event of each kind,
placed between any two steps, gives all pairs; two reorgs allow a reorg of a reorg. One log per block
suffices because the code saves the logs of a block or batch together. *ReplayHandOver*: one client is served, a second waits to be,
a third has left a receiver. *Subscription*: three results put one before, one in and one after the
hands of the loop. *LogPruning*: pages of two against three logs; one filter whose logs the other matches too. *FindLCA*: five numbers
have, in some table, a gap at either end and at the middle of a range. *Heads*: a chain that becomes final, a fork of it, and the two ways of claiming what
cannot be. *Keys*: one user alone in its service and two that share one with lists that
overlap. *GasBump*: prices below, at, and above the defaults and both maxima. *WriteTarget*: a
writer that delivers, one that is too late and one that finds the report delivered.

Deadlock is checked except where the system really stops: in `Services` and `TxmInitialNonce` a service that
is never started again, in `Stores` and `LogPruningOrder` a search that has its answer, a report with its verdict, a
fee at its maximum, or the last block of the bound.

### Fairness

*Txm*: weak fairness of each loop (goroutines with timers), of `Mine` and of time.
*TxmLifecycle*: weak fairness of every goroutine's own step; strong fairness of
`BroadcastTriggered` and `Exit`, because Go's select chooses at random among the cases
that are ready and so does not ignore one that is ready again and again; the RPC recovers. The
timers of the loops have none: `TriggerSuffices` must not need them. *LogPoller*: weak fairness of
the poll in progress, of the client's backfill, of blocks and finality; strong fairness of the three cases of
the select of `run()`. *Subscription*: weak fairness of the loop's own steps, strong of its
selects' cases `TakeError` and `TakeUnsubscribe`; a result need never come and be never read.
*ReplayHandOver*: weak fairness of the clients' and `run()`'s steps; strong fairness of `RunEnds` (a case of a select) and of
`WaitForAll` (a WaitGroup wakes its waiter when it gets to zero, and ReplayAsync may add to it again).
Nothing ever obliges a fault, a reorg, a caller, a client or a replay.

### Disagreements found

1. `TxmInitialNonce` (`txm.go:141`): the retries of the first nonce share one deadline of 30
   seconds. After an outage longer than that at the start the address never sends. A second
   Trigger then keeps the read lock for ever and Close blocks: this is the exception in
   `CloseCompletes`.
2. `LogPollerCrash` (`orm.go:397`): a rewind deletes blocks and logs outside the
   transaction it opens; a stop in between leaves logs of the abandoned fork.
3. `LogPollerReplayStart` (`log_poller.go:557`): a replay of an empty table may start at an unfinalized block; a reorg
   below it stops the poller for good.
4. `LogPollerReplayGuarantee` (`log_poller.go:769`): a replay whose poll failed is reported as complete.
   `ReplayCovers` therefore assumes that no call fails.
5. `LogPruningOrder` (`orm.go:477`): the logs to keep are counted from the oldest block on, so the
   newest go.

Met with TLC while modelling, and visible as premises or as stated properties that no run checks:

*Transaction manager.* One transaction more than the comment's upper limit gets in flight (`txm.go:294`,
`InFlightLimit`). A transaction reported out of attempts (`:419`) may still get a purge attempt (`:402`), and
the backfill loop may overtake the first broadcast: hence the two attempts in `AttemptBound`.
When the pool holds two or more transactions of an earlier run and loses some, the initial
nonce is behind the chain's, and `NonceDiscipline` fails: its premise is `MaxForeign = 0`.
A reorg may go back to a nonce whose confirmed transaction was pruned. The backfill loop then sees a gap and fills it (`txm.go:382`);
when the chain executes the pruned transaction after all, the store marks the empty one as confirmed, as it
looks at nonces only (`inmemory_store.go:199`). This is the exception `FillsPrunedAt` in `ConfirmedMeansExecuted`; it came up
in the proof, where the case of the gap filler did not go through.

*Log poller.* The backup poller may overtake a reorg that the poller has not seen, say because its calls failed
(`log_poller.go:813`; height 5, one reorg). Either it compares logs with rows of the abandoned fork and raises the flag without cause
(`:886`; `FlagMeansViolation`, against the comment at `:134`), or it saves a final block above them; the
next poll goes on from that one, and the logs of the abandoned fork stay for good (`Canonical`, without any restart). This is what `Checked` excludes;
`LogPollerFinality` runs without the backup poller.
A replay that begins its backfill after a restart and before the filters are loaded (`:630-636`, `:760-765`) asks for the final blocks' logs with an empty filter, the
query of the zero address (`:400-405`, `:447-452`); the request that follows loads the filters (`:568-598`) and polls from above those blocks, and the client is told nil
without their logs, against the comment at `:415`. `blind` remembers such a start, and `ReplayCovers` and its theorem leave it out; without `~blind` TLC
finds the case: rows saved before the filter is registered, a restart, a replay.
A poll that had nothing to do lowers the flag (`:1030`). A replay from the middle rewinds blocks known to be final (`:988`).
The backup poller starts at the last finalized block (`:799`) and never asks again for what
a backfill before that missed: `BackupRepairs` speaks of blocks from its start on.
A client that gives up after both messages of the shutdown have found nobody waiting leaves a goroutine
for ever, and Close waits for it: the exception in `CloseReturns`.
Unmatched logs below the first row of the blocks' table stay, though PruneUnmatchedLogs reports that all
are gone (`orm.go:336-350` against `log_poller.go:1241`; `UnmatchedAreGone`); PruneExpiredLogs compares the rows removed with the page size, though
a page of excess logs may remove more; a filter registered between selection and deletion loses
logs that it matches (`PrunedIsUnwanted` speaks of filters that were there all the round).
For FindLCA the node is taken to answer HeadByHash only for blocks of its chain; a node that also answers for side
chains would make a reorged row look present.

*Heads.* After a restart LatestHead may be another head of the same height than before (`saver.go:51`, `heads.go:152`
against `heads_test.go:38`; `LatestSurvivesRestart`). The branch of Load for a cycle is reached
only if the table was changed by someone else.

*Gas.* A bump without a usable base fee may lift the tip cap above the fee cap: the exception `blind` in
`CapCoversTip`. A bump minimum is counted on by a comment (`models.go:487`) but not enforced by
ValidateConfig (`config.go:689`): without it a fee cap below 10 wei may stay as it is, which `BumpsAreReplacements` allows when `BumpMin` is 0. Where `BlockHistorySize` is 0, the
fee history estimator's BumpDynamicFee returns the market's fee, which may be lower than the one it replaces (`fee_history_estimator.go:345-358`; the test at
`fee_history_estimator_test.go:482-514` goes from a cap of 40 to one of 14): there is no mempool to replace it in, and the property is not about it; its legacy bump does not look at
`BlockHistorySize`. The fixed price estimator's first fee ignores
the caller's maximum (against `models.go:161`), so `BumpsStayBelowMax` is about bumps. This transaction manager never bumps: NewBumpAttempt has no
caller here, and `GasBump` models the estimators as their interface offers them.

*Keys.* GetNextAddress edits the list of its caller in place, and answers the zero address without an error when no key is left.

*Write target.* A WriteConfirmed message is also emitted for a write that failed on chain (`write_target.go:444-456`, `write_target_monitor.go:191-215`
against `write_confirmed.proto:6`; `ConfirmedMeansWritten`). The in-memory transaction manager never reports a
transaction as finalized, so that with it every write ends in the time-out's error.

By reading only: the orchestrator looks an idempotency key up and creates the transaction in two steps, so two callers may
both create one (`orchestrator.go:175`); when a part fails to start, its Start returns without stopping the attempt
builder (`:90-98`). The forwarder manager fills its cache before it subscribes to changes (`forwarder_manager.go:195`),
reads logs in no order, and skips rows below a latest block that all forwarders share (`:277-317`).

## 4. Proofs

All are checked by TLAPS for every value of the constants that satisfies the named assumptions of the
modules (`BlocksAssumption`, `ParametersAssumption`; `LimitsAssumption`, `BoundsAssumption`, `NamesAssumption`; `LifecycleAssumption`; `BlockNumberAssumption`; `GasAssumption`,
`GrowthAssumption`; `KeysAssumption`; `HeadsAssumption`; `PruningAssumption`; `SubscriptionAssumption`; `HandOverAssumption`). TLC evaluates them in the runs.

- `TxmProofs!TypeCorrect`: `Spec => []TypeOK`. The invariant also says that a loop in the
  middle of an attempt holds a copy with an id and a nonce (`CopiesOK`); without it the
  updates of `tx` and `mempool` could leave their domains.
- `TxmProofs!NonceDisciplineHolds`: `Spec => []NonceDiscipline`. Disjointness of confirmed and
  unconfirmed is not inductive. `NonceInv` adds that everything — store, chain, pool, copies, the gap just found — is behind
  the *frontier*, the first nonce the broadcast loop has not taken; the store is one step
  ahead of `nonceMap` there. The case that needs it is the gap filler: it may only
  create an entry at a nonce that the broadcast loop can no longer use.
- `TxmSigningProofs!ExecutesAtMostOnceHolds`, `NonceNeverReusedHolds`. `sent` alone says nothing
  of what may be signed next, so `SigningInv` is about everything that `Signs` a nonce: a map of the
  store, the copy a loop works on, or an attempt already sent. Only two actions
  add to it. `UpdateUnstartedTransactionWithNonce` takes the head of the queue, which
  was never signed and is there once (`QueueFresh`), at the frontier, which every signed
  request is behind (`RequestsBehind`); the gap filler takes a new id, which is not a request. Unlike
  `NonceDiscipline`, both hold with any pool entries of an earlier run.
- `TxmSigningProofs!FatalIsFinalHolds`: `Spec => FatalIsFinal`. The store only moves
  transactions it still holds or has yet to create, and none of those is fatal (`LiveInv`). That an
  abandonment fails no confirmed transaction rests on `SigningInv`: a confirmed one
  is neither queued nor unconfirmed at another nonce.
- `TxmSigningProofs!StoreIsPartitionedHolds`, under `MaxForeign = 0`: `StatesInv` says of each transaction, one by one, that
  it is in a collection exactly when its state names that one and the index has it. It needs `NonceInv` where confirmed and
  unconfirmed transactions change places: were a nonce in both maps, one of the two
  would be overwritten and left in the index. That each is there once is `SigningInv`'s.
- `TxmSigningProofs!AttemptBoundHolds`: an attempt is counted from the decision on (`AttemptInv`): attempts made, plus one
  if the broadcast loop and one if the backfill loop are about to make it, are at most one more than the limit, and two
  more once the detector has picked the transaction, which it does once.
- `TxmSigningProofs!ConfirmedMeansExecutedHolds`, under `MaxForeign = 0`. The store compares nonces only, so the argument is about who
  can be at a nonce (`ExecInv`). Chain and pool hold only what was sent there (`NodeSigned`), without its payload only if it is
  purgeable or a filler (`PayloadInv`, `CopiesTrue`). While nothing is abandoned, all that `Signs` a nonce is held
  there by the store or was pruned, and a request that is held is alone (`OwnersInv`): what differs from the confirmed one can only be
  a pruned transaction under a filler, and while no reorg happens (`MinedInv`) not even that, because the loop looks for gaps
  at a nonce that all confirmed ones are behind.
- `TxmSigningProofs!FewStuckTransactionsHolds`, under `MaxForeign = 0`. Counting is inductive once the nonces from the pending one up to
  the frontier have no holes (`FewInv`): when the pending nonce has reached the local one, nothing waits; otherwise the count of
  unconfirmed transactions was below the subset. The backfill loop adds nothing that waits, because the gaps it finds
  are behind the pending nonce. The pending nonce never falls while the pool keeps what it took and no block is reorged (`PendingNonceGrows`).
- `ServicesProofs!LifecycleTypeCorrect`, `QuietAfterStopHolds`, `NonceBeforeRoundsHolds`. `LifecycleInv`
  says who holds the lock: Close waits with it, so no caller enters Trigger, and Start is over
  by then, so no loop is started.
- `StoresProofs!LCAIsRightHolds`: for any set of numbers with a row. While the chain stands still nothing above the range is on
  the chain (`NoneAbove`) and the closest child of its lower end is (`EndIsOnChain`); closest
  children make the comparison monotone over numbers without a row.
- `StoresProofs!FeesAreValidHolds`, `BumpsAreReplacementsHold`: percentages, floors and limits are
  bounded in lemmas, after which the steps are linear. That the tip stays covered when tip and cap are bumped from different markets is monotonicity of each
  bump, and for the fixed price estimator the invariant that the cap never falls below the default tip. The provers do not compute powers, so
  that the grown base fee is a natural number is an assumption (`GrowthAssumption`); its value does not matter.
- `StoresProofs!OneServiceTypeHolds`: the counter agrees with the holders. `NobodyIsPassedOverHolds`: a key
  is passed over at most as often as other keys were used since its own last use, because of two keys that
  were used exactly one was used since the other (`UsesAreOrdered`), so that the chosen one moves behind it.
- `ServicesProofs!NothingIsLostHolds`, `QuietAfterUnsubscribeHolds`: the place of forwardLoop decides what it holds, whether the node's
  subscription is released, whether `done` is closed and where the error is.
- `ServicesProofs!AnswersGoToTheirClientHolds`: a client, or the receiver it left, waits only while `run()` has its
  request, and `run()` selects only when it has none.
- `ServicesProofs!ServicesTypeCorrect`: of the three side by side, from the theorems about each, because a step
  of one leaves the variables of the others alone.
- `LogPollerProofs!TypeCorrect`: `Spec => []TypeOK`. The invariant `TypeInv` says for each label what the locals are by then
  (`RunOK`, `ClientOK`, `BatchOK`): a batch lies in its range, a poll's block has the poll's number. Without it
  `current` could grow beyond the bounds of the table. `FiltersOK` says when the filters in memory are those of the table: once the flag is set, and whenever `run()` is at work;
  a client's backfill has them or is `blind`.
- `LogPollerForkProofs!OneFork`, `NoAlarm`: `Spec => []SavedBlocksAreAChain`, `Spec => []NoFalseAlarm`. That the rows are one fork is far from
  inductive: what a step may write depends on what each goroutine read earlier. `GInv` says of the rows that each
  has final blocks of the chain below it, and that where a number below the last row has none (pruned, or skipped by a
  backfill), the block is final (`RowsRight`). Of the goroutines it says what they rely on between two calls: a backfill's range is final and the last row
  agrees with the chain up to its end (`BatchRight`); what was final when a poll
  began covers all that the rows, the client and the backup poller know to be final and all gaps (`PollSees`, `Between`), so
  that the walk to the common ancestor finds a row at each number it asks for, or an agreement before it; while a rewind is between its two deletes
  nobody backfills what it deletes. `Checked` enters where a backfill or the first poll starts and where the chain reorgs, and there only.
  The predicates take the rows, the chain and the final number as parameters, so that there is one lemma for each change of them
  (`AddRow`, `CutRows`, `DropRows`, `ChainGrows`), and a step cites the lemma for what it changes.
- `LogPollerForkProofs!RewindsStopAtFinality`: `Spec => FinalizedBlocksAreKept`. With replays it follows from `GInv`. Without
  replays it is claimed for deep reorgs too, where `GInv` says nothing: then the poll is always ahead of the rows (`Ahead`).
- `LogPollerLogsProofs!NothingIsSkipped`: `Spec => []Complete`. `LogsNow` carries from place to place that the logs below what is worked on
  are held: of the last row's fork up to the last row (`LastHeld`), of the chain up to the next block of the backup poller (`NextHeld`), and of
  the chain or the poll's block up to where the goroutine is (`RunHeld`). Rewinds need `ForkInv`: the fork that is cut and the one
  that follows have the same blocks up to the cut. A client's backfill only ever adds logs.
- `LogPollerLogsProofs!ReplaysAreComplete`: `Spec => []ReplayCovers`. The client, `run()` and the client again bring the logs up to
  a number, and `CoverNow` says which at each place (`Brought`): the client's own backfill, the handover, where the poll may start lower
  but never higher, and every step of the poll while the client waits (`Waits`). That no step of that poll is an error while nothing
  goes wrong is part of the proof: all rows and all that a goroutine holds are blocks of the chain (`RowsOf`, `LocalsOf`), so no parent differs and
  no finality check fails. All of it holds of a blind replay too, but for what was brought: the places speak of `Known`, which is the table of logs, or, if
  `blind`, of all blocks, and so of nothing. `Quiet` cannot come back once it is gone (`QuietBefore`).
- `LogPollerLogsProofs!LogViewIsImplemented`: `Spec /\ []Calm /\ [][Together]_vars => ImplementsLogView`, without the backup poller. Each step maps to
  `Begin`, `Extend`, `Rewind` or a stutter (`NextShows`). Only `InsertLogsWithBlock` and `SaveBatch` extend the view, by one lemma
  (`RowShows`): the new row is on the fork of the last one (`GInv`) and above it (`AheadNow`), all logs of the ancestors in between are held
  (`LogsNow`, from no log being skipped), and none is saved that is not such an ancestor. That last part is the new invariant,
  `ViewNow`: outside of a rewind no log is above the last row, and what a goroutine holds is above it and not below the first poll. The delete of
  the blocks is the `Rewind`, the delete of the logs a stutter. `Calm` says that `Checked` holds, no answer is incomplete, no replay is asked for
  and the filter is there from the start: an answer that misses logs leaves a hole, a filter that comes later has logs from the middle, and
  the backup poller and replays bring logs below the last row later. Failing calls,
  restarts, reorgs and pruning are allowed, but for a failure or a restart between the two deletes of a rewind (`Together`).

- `HeadsProofs!CacheIsConsistent`, `FinalitySpreads`, `WalksGoDown`: the invariant of the cache is that the index by parent has exactly
  the known heads that name a hash (`IndexRight`); only then does a new head find its children, and a trimmed one its links. It survives
  trimming because heads with one parent have one number (`HeadsAssumption`), so that an entry of the index goes as a whole. The marked heads are the
  smallest closed set: finality spreads to nothing else because the chain's final heads are closed too (`MarkedWithin`),
  and to all ancestors because the marked ones are (`MarkedClosed`). That a head new between two known ones becomes final
  with its child is the case a test would hardly write.
- `HeadsProofs!NoHeadIsLost`: a row is trimmed below a bound that the cache was trimmed to before (`TrimsBelow`), and a Load
  has the heads to itself (`LoadsFirst`). `LoadIsNotStuck`: the order of creation stays a strict total order when rows are trimmed (`RowsAreOrdered`),
  so among the rows left to load there is a latest one.
- `StoresProofs!PrunedIsUnwantedHolds`: `PruningSpec => PrunedIsUnwanted`. Ids of excess logs are selected page by page and deleted
  later. Row numbers on a page are dense (`RowNumbersAreDense`): where one log's number is above a filter's limit, as many logs as the limit have lower ones,
  and the page spares them. Later pages spare them as well because pages do not overlap (`PagesAreBehind`), so that `ExcessIds` is inductive.
  Filters that change are no longer among the steady ones.
- `StoresProofs!VerdictsAreRightHolds`: a call that has not returned has started no confirmation (`ConfirmsAfterSuccess`), so that each
  step that gives a verdict is the one that ends the write.
- `StoresProofs!StoresTypeCorrect`: of the six components side by side.

Only model-checked: the liveness properties (fairness and ENABLED are out of the prover's
reach), and the refinement of `LogView` where final blocks are reorged, which `LogPollerFinality` has and the theorem leaves out. Some proofs rely on
`WellFoundedInduction` for a least or greatest element: the nonce that `PendingNonce` chooses, the greatest number with a row, the latest of
some rows.

## 5. Not modelled

- *Orchestrator*: a facade whose own promises, one transaction per idempotency key and parts that are all stopped when
  one fails to start, do not hold by inspection (section 3); the state it adds is a `StateMachine` like the one of `TxmLifecycle`.
- *Forwarder manager*: a cache of an external contract's answers without a property that the code could be held to (section 3).
- *Gas*: how market prices are fetched and averaged, and the estimators that never bump (L1 oracles, suggested prices).
- *RPC client* but for subscriptions: single calls through an external multi-node framework, and the
  classification of error texts. *Dual broadcast and geth clients*: HTTP calls; `Txm` models what they may answer.
- *Head tracker and broadcaster*: thin wrappers of an external framework, which `Heads` has as its environment.
- *Write target*: contents of messages and their consumers; reorgs of a transaction that was included.
- *Log poller*: queries of readers, which change nothing; SQL text beyond its effect.
- Balance monitor (one map written by one worker at a time), reports, configuration, assets, ABI, utilities, metrics: stateless
  conversions and data; test support; tools.
- The Solidity contracts, a system of their own, and the generated bindings, which are most of the repository's Go lines.

## 6. Plan

1. The refinement of `LogView` for reorgs of final blocks too, where the flag is all the poller promises and `GInv` says nothing.
2. The orchestrator over an abstract transaction manager that `Txm` implements, with `WriteTarget` on top; the forwarder manager over `LogView`, should their promises be settled.
