# Verification of go_robinhood_meme_v1

The repository is a Go service that scans Robinhood Chain block by block, records meme-token launches and the
trades of a list of followed wallets in SQLite, keeps a display price per token, scores wallets, and serves the
result over HTTP. This directory models it in TLA+, model-checks the models with TLC, and proves the main safety
results with TLAPS. Paths below are relative to `src/internal/`.

## 1. The system

| Part (code) | State it keeps | Operations | Talks to |
| --- | --- | --- | --- |
| Block scanner (`chain/poller.go`, `reorg.go`, `store/sync_state.go`) | the `sync_state` row; a `Watermark` copy, the round's jobs and results | `PollOnce`, `processRange` with up to 8 workers, `ResolveCanonicalParent` | RPC nodes; `App.ProcessBlock` as callback; the writer |
| Serial writer (`store/writer.go`) | channel of 256 requests, `closed`, the open transaction | `Write`, `run`, `Close`, `CommitBlock` | every goroutine that writes |
| Block processing (`app/process_block.go`, `contracts/catalog.go`, `venue/route.go`, `store/launch_*.go`) | registered curves and pools in memory; launch tables and `wallet_events` | `ProcessBlock`, `acceptLaunchCategory`, `restoreRegistrations`, `LoadRegistrations` | scanner above, writer and RPC below, dirty set after the commit |
| Display prices (`price/dirty.go`) | bounded map with FIFO order; `launch_index.price_*` | `Mark` (scanner goroutine), `Flush` (tick goroutine) | writer |
| Lifecycle and ticks (`app/app.go`, `app/ticks.go`) | root context, sell counter, score trigger, seen signals | `New`, `Run`, `Close`, `runTicks` | everything |
| RPC client and pool (`chain/client.go`, `pool.go`) | token buckets, cool-downs, weights per node | `Call`, `CallBatch`, `acquire`, `penalize` | scanner, ticks |
| Blocks and receipts (`chain/receipts.go`) | the receipt method chosen at start | `Probe`, `FetchBlock` in three modes | pool |
| Traces (`chain/trace.go`, `app/native_quote.go`) | none | `TraceNativeAmount`, `enrichNativeQuote` | pool; attribution |
| Decoding and attribution (`venue/*`) | none | decode a log, attribute a fill to a user | block processing |
| FIFO, score, ids (`domain/*`, `score/score.go`, `store/wallet_events.go`) | `wallet_events`, scores in `smart_wallets` | `ReplayFIFO`, `RecalculateAll`, `CalcEventID` | ticks, block processing |
| Retention (`store/purge.go`) | `wallet_events` | batched delete | ticks, writer |
| Followed wallets (`wallets/snapshot.go`) | snapshot maps, `lastTry` | `Load`, `RefreshIfDue`, `Active` | scanner and tick goroutines |
| ETH price (`price/binance.go`, `exec.go`) | cached quote with TTL and staleness | `Run`, `ETHUSD`, `QuoteUSD` | block processing |
| Migrations (`store/migrate.go`) | `schema_migrations` | `Migrate` | before everything else |
| HTTP service (`httpsvc/*`) | none | `GET /launches`, `/health`, `/signals`, `/wallets/:address/events` | database, pool |

Goroutines: the scanner with its workers, `Writer.run`, `runTicks`, the price feed, the HTTP server. They meet in
the writer's channel, the locks of catalog, snapshot, pool, dirty set and writer, the database (many readers, one
writer), and the root context.

What is hard here: results that arrive out of order but must be committed in order; reorganisations between any two
steps and nodes that answer from the past; a context cancelled while a transaction commits; crashes between the
several small transactions of a poll; memory that runs ahead of the database within a block and must be rolled back
by a path that may fail too; marks that race a flush; a close that races senders; ticks that race commits and the
operator's SQL; amounts that are taken from a whole transaction but stored per log. `PROJECT.json` lists 40 hazards
at their lines, with the properties aimed at each, or the reason there is none.

Correctness, part by part:

* scanner - every height is recorded once or was passed over by an announced decision; forks between recorded
  neighbours are announced; it is never stuck; a stop ends, whatever it
  interrupts;
* writer - what `Write` says is true for good; no send on a closed channel; nothing undecided after `Close`;
  everyone returns;
* block processing - what a block stores depends on its logs and the stored rows only;
* nodes - a returned block has its own receipts and all of them; each fetch and call ends; no node is overdrawn;
* display prices - the last price is never lost while the map does not overflow, and the display never goes back;
* ticks - what newer data gave is not undone by an older run; scores, lists and purges catch up;
* records - a fill is what its user traded, an id is its place on the chain, profit is first in first out, a page
  neither repeats nor skips, and the schema is the one the program read.

## 2. Modules

| Module | Models | Checked in run | Proofs |
| --- | --- | --- | --- |
| `Ingest` | what the scanner promises | (refined by `scanner_forks`) | `IngestProofs` |
| `Scanner` | `chain/poller.go`, `reorg.go`, the watermark side of the writer | `scanner_restarts`, `scanner_forks`, `scanner_live` | `ScannerProofs` |
| `Writer` | `store/writer.go` | `writer` | `WriterProofs` |
| `Catalog` | `app/process_block.go` over the catalog and the launch tables | `catalog_failures`, `catalog_conflicts`, `catalog_outage` | `CatalogProofs` |
| `RpcPool` | `chain/pool.go`, the calls of `client.go` | `nodes` | `NodesProofs` |
| `Receipts` | `chain/receipts.go`, `CallBatch` | `nodes` | `NodesProofs` |
| `Nodes` | the two above together | `nodes` | `NodesProofs` |
| `DirtySet` | `price/dirty.go`, `UpdateLaunchPrice` | `background` | `BackgroundProofs` |
| `Scores` | score trigger of `app/ticks.go`, `score/score.go`, `UpdateWalletScore` | `background` | `BackgroundProofs` |
| `WalletSnapshot` | `wallets/snapshot.go`, `launchWalletEvent` | `background` | `BackgroundProofs` |
| `Retention` | `store/purge.go`, `purgeEvents` | `background` | `BackgroundProofs` |
| `Signals` | `logSignals`, `rememberSignal` | `background` | `BackgroundProofs` |
| `PriceFeed` | `price/binance.go`, `exec.go`, the pricing of `collectFill` | `background` | `BackgroundProofs` |
| `Background` | the six above together | `background` | `BackgroundProofs` |
| `Migrations` | `store/migrate.go` | `records` | `RecordsProofs` |
| `Fifo` | `domain/fifo.go`, `FIFOEvents`, `logWalletEvent` | `records` | `RecordsProofs` |
| `EventIds` | `domain/event_id.go`, `INSERT OR IGNORE`, `ORDER BY id` | `records`, `event_ids_order` | `RecordsProofs` |
| `TraceNative` | `chain/trace.go` | `records` | `RecordsProofs` |
| `Attribution` | `venue/v4fill`, `app/native_quote.go` | `records`, `attribution_twice` | `RecordsProofs` |
| `Queries` | `GET /launches`, `GET /health` | `records` | `RecordsProofs` |
| `Records` | the six above together | `records` | `RecordsProofs` |
| `Sums` | nothing: lemmas about sums over sets and functions, folds and recursive functions | | itself |

`Nodes`, `Background` and `Records` put components together that share no variable: what one reads of another is
either final when it is read (a record's fields), or chosen freely (which node answers, which block is committed).
A property of one part depends on that part's steps only, so the variable `runs` picks in `Init` which of them moves,
and the sum of their state spaces is explored instead of the product. Components that do share state are in one
module: the scanner with the writer's transaction (`Scanner`), catalog, tables and block (`Catalog`), the tick
goroutine with commits and the operator (`Scores`, `WalletSnapshot`, `Retention`), feed and fills (`PriceFeed`).

### Ingest and Scanner

`Scanner` has one action per step of the code at which another actor can get in between. `Poll` is `PollOnce` up to
`processRange`: one read of the watermark, one head, and at most one saved watermark (first start or skip).
`TakeJob`, `Fetched`, `FetchCutShort` and `FetchFailed` are the workers. `TakeResult` and `TakeError` are the ordered consumer;
`Resolve` is `ResolveCanonicalParent` followed by `saveWatermark`, which the consumer waits for; `Submit`,
`WriterCommits`, `WriterRollsBack` and `Advance` are `ProcessBlock` seen from the scanner: the transaction is queued,
decided by the writer's goroutine, and observed. `Interrupted` is the cancelled root context, after which a queued
transaction may still commit. `Drained` is the deferred `workers.Wait`. `Exit`, `Kill` and `Start` are the process.

The variables `mem`, `number`, `end`, `block`, `jobs`, `fetched`, `failed` are locals of the round; `wm` is the
`sync_state` row. `committed`, `passedOver` and `logged` are what the rows and the log together tell an operator.
A hash is the number of the reorganisation that first produced the block: hashes are compared at one height only,
so this separates exactly the blocks the code can separate. The chain is external: it grows, and `Reorg` replaces
everything from a height upwards by a branch of any length up to the old tip. With `LaggingNodes` a node may serve
any block a height ever had and any lower head.

`Ingest` says the same without rounds, workers, calls or processes: `Record` the frontier block if it continues the
watermark, `PassOver` heights, or `Reanchor` the hash. `Scanner` refines it through the identity on the four shared
variables.

Simplifications: the delays of `Run` are left out; the save of a start or skip watermark is one step with the poll
(nothing else of the scanner runs meanwhile, and a stop that abandons it leaves either outcome, which `Poll` before
or never covers); `Head` and `Probe` at start-up, whose failure ends the process, are part of `Start`.

### Writer

Each element of `Requests` is one call of `Write`. `Enter` takes the read lock and tests `closed` under it; a
waiting `Close` holds new readers up, as Go's `RWMutex` does. The caller keeps the lock until `Send` or `GiveUp`.
`Take`, `TxFails`, `TxCommits` and `RunEnds` are `run`; a cancelled context makes the transaction fail or loses the
race against the commit. `done` is the answer buffered in each request's channel.

### Catalog

One action per kind of log. The logs of a block are chosen one by one while it is processed, so an attempt that
follows a failure may see the same block or another one, as after a reorganisation; `OpenedOnChain` keeps the choice
to what a chain can hold (a market is used after it was opened). A market is a Pons curve, a Pons pool or an o1 pool
of a token; the quantities of a fill do not matter here. `Accepted` is `acceptLaunchCategory`, `PonsKnown` is
`ponsRegistrationData`, `CategoryAfter` and `GraduatedAfter` are the inserts and updates of `CommitBlock`, `Restore`
is `restoreRegistrations`, which reads the rows and needs RPC. Heights here are the blocks the scanner hands over or
skips; how many it skips at once is the business of `Scanner`.

### RpcPool and Receipts

In `RpcPool` a caller reads the clock (`ReadNow`), takes the lock and a node or sleeps (`Acquire`, with
`weightedPick`, `refill`, `take` and `waitDuration`), wakes, calls, and puts a node on its cool-down when it answers
429. The clock is read before the lock is taken, so `now` may be up to `MaxLag` old; a bucket is refilled lazily from
times that do not go forward. Time is kept relative to the present (`age`, `cool`), which makes the state finite.

In `Receipts` every call of `FetchBlock` is answered by some node: a block of any fork that claims the asked height or
not, with indices that are right, missing or wrong, and a list of receipts of any transactions of any fork, in any
order, with repetitions. `Decodes`, `Aligns` and `Assembled` are the tests of the code. `fetchIndividually` is its
goroutines: an unbuffered channel (`Send` is the handing over), workers that go on after an error, the loop that stops
when the context ends, `close(jobs)` and `wg.Wait`.

### Background

`DirtySet`: `Mark` is atomic under the mutex. `Flush` is split at every database call: `FlushBegin` takes the
snapshot, `NextPoint` the next point in any order (it is a Go map), `ReadRow` compares, `UpdateLaunchPrice` writes,
`Remove` is `removeVersion`. A point carries the version of the code; `nr`, `shown`, `latest` and `dropped` are
history variables of the properties. `Restart` loses the set and with it the last prices, which the code accepts.

`Scores`: the scanner commits sells and counts them in a later step (`RequestScoreAfter`), the tick goroutine takes
the signal or the tick, reads the list, and goes wallet by wallet through reading events and updating the row, while
the operator locks levels. A score is represented by the number of sells it was computed from.

`WalletSnapshot`: both goroutines queue for `refreshMu`; a load reads the whole table in a step of its own and may be
slow or fail (a malformed row fails every load); `ActiveFrom` and `ActiveContract` are the two look-ups of
`launchWalletEvent`. A snapshot is represented by the version of the list it was read from.

`Retention`: `Begin` fixes the cut-off, each `DeleteBatch` is one job of the writer, blocks with old times are
committed in between, and the second query decides what the log says.

`Signals`: a round finds any keys of its day, up to the limit; `RememberSignal` in any order.

`PriceFeed`: `Run` polls, backs off after a 429 and fails otherwise; `CollectFill` reads the cached quote at any time.

### Records

`TraceNative` builds a call tree on a small EVM, frame by frame: a call moves ETH, a failed call takes back what it
and its children moved, borrowed code repeats a value that was not moved. The code's reading of the finished tree is
compared with the balances.

`Attribution` builds a transaction from what happens on the chain: trades in the registered pool, through a router that
may keep a fee; trades in other pools of the PoolManager (`TradeElsewhere`), which log a Swap; and whatever else moves
the token or the quote (`Send`): transfers, and the legs of trades with curves and on other exchanges, of which the
PoolManager logs nothing. ETH is kept among the moves, so `EthNet` adds up all of it as the trace does, while the test
for a single Swap sees the Swaps only: `NativeIsOfOneSwap` says what an amount in ETH therefore contains.
`AttributeUser` is the set of answers over all orders of Go's map.

`EventIds` writes numbers in a small base with small widths, padded and never cut. `Fifo` compares `ReplayFIFO`, a
fold over lots, with a definition by units: the i-th unit sold is the i-th unit bought. Its trades have at least one
unit: a priced row never has none, as `ExecQuotePerToken` (`price/exec.go:42`) refuses to price it and `ReplayFIFO`
passes over rows without a price before it looks at the quantity (`domain/fifo.go:35`, `:42`). `Queries` walks through pages
of one row while launches of the same second are committed. `Migrations` runs the files of a directory in one
transaction, against changed directories, failures and crashes.

## 3. Runs

| Run | Question | Bounds, and why they are enough |
| --- | --- | --- |
| `scanner_restarts` | `NoSilentGap`, `CommittedOnce` | 6 heights, 2 reorganisations, 2 faults, ticks of 2 blocks on 2 workers; a configured start block; `SkipLag` 1 below `RecentOffset` 2, so that a skip can land on or behind what was scanned |
| `scanner_forks` | `TypeOK`, `RoundInv`, `ForksAreLogged`, `RefinesIngest` | 5 heights, 1 reorganisation with nodes that lag behind it, 1 fault; start from the head, where the offset exceeds a young chain's head |
| `scanner_live` | `CatchesUp`, `StopsEnd` | as above without lagging nodes, which may legitimately hold the scanner up for ever; 2 faults, so that a stop meets workers, consumer and a queued write after an earlier failure |
| `writer` | `TypeOK`, `NoSendAfterClose`, `AnsweredTruthfully`, `ClosedIsQuiet`, `NobodyWaitsForever` | 3 callers, channel of 1: one in the transaction, one queued, one blocked on the full channel |
| `catalog_failures` | `MirrorsStore`, `RowsFollowFromStore` | a Pons and an o1 token, 2 blocks of 4 logs, 2 faults; rebuilds may fail, no skip |
| `catalog_conflicts` | `TypeOK`, `NoLateConflict`, `FillsOnlyForStored` | a token both factories launch, 2 blocks of 3 logs, skips; rebuilds succeed |
| `catalog_outage` | `FillsOnlyForStored`, violated | 1 token; skips, and rebuilds that may fail |
| `nodes` | `NodesTypeOK`, `SharesAreKept`, `NoCallWhileCooling`; `ReturnedWhole`; `CallsReturn` | 2 nodes of different rates, 2 callers, 5 calls, a second of 2 ticks and a clock that is up to 1 tick old: both nodes cooling, both empty, one taken away by the other caller. Three blocks of one height (two with transactions in common, one empty), answers of up to 2 receipts, 2 workers: every mixture of forks, repetitions and missing receipts |
| `background` | see below | 3 tokens in a set of 2 with 4 marks: eviction during a flush, and re-marking after it; prices that differ within one transaction; 2 wallets, a threshold of 3 sells reached by blocks of up to 2, so that it is crossed and not only met; intervals shorter than a slow load; 5 rows, batches of 2, at most 3 of a run, so that a batch is cut by the limit; a memory of 2 signals and 3 subjects over 2 days; time-outs that end between polls. 1 fault, restart or edit each |
| `records` | see below | 3 migrations of 2 contents, 4 deployments; 4 trades of up to 2 units; blocks on both sides of the width; 3 launches in 2 categories over 2 seconds, pages of 1; call trees of 4 frames, one more than the code reads; receipts of 3 steps, so that two trades and a transfer, or a tie, fit. Symmetry of the users only: no liveness is checked |
| `attribution_twice` | `FillsAddUp`, violated | one user, two trades |
| `event_ids_order` | `IdsFollowChain`, violated | blocks below and above the width |

`background` checks `BackgroundTypeOK` (with the agreement of map and order list, and of a purge's outcome with what
it left), `LatestNeverLost`, `ScoresKeepUp`, `PricesSurvive`, `NothingGoesBack`, `OldestExpiredGo`,
`RepeatsOnlyOverCap`, and under fairness `LatestIsShown` and `TicksCatchUp`. `records` checks `RecordsTypeOK`,
`ProfitIsFifo`, `NarrowIdsAreTrue`, `SchemaIsKnown`, `AnswersAreTrue`, `TraceIsTrue`, `FillsAreTrue` and
`NothingIsInvented`. Each of these names the property of the component's module that it stands for.

Every property of a passing run has a mutant in `PROJECT.json`: a plausible slip in a mapped definition under which
TLC finds the property violated. The mutated definitions stand just above the originals in the modules.
`NoLateConflict` makes the conflict branch of `CommitBlock` (in the model too) a second line of defence that a scanned
block never reaches. Deadlock is checked in the scanner's runs, where the system cannot stop. It is off elsewhere,
because bounds of blocks, rows, calls or steps, or a completed `Close`, end the behaviour.

### Findings

* `catalog_outage`: `docs/功能模块/02-合约目录与分流.md:90` promises that swaps of pools that are not stored are not
  written to the trade table. A launch is registered in memory before its block is committed. If the block fails and
  `restoreRegistrations` fails in the same outage, the registration stays; if the poller then skips that block because
  the lag exceeds `skip_history_lag`, the launch is never stored and later fills of its market are recorded. With
  skips but working rebuilds it cannot happen: `FillsHaveLaunches` in section 4 proves it.
* `attribution_twice`: `docs/功能模块/07-成交与用户归因.md:27` promises the net amount of the trade. `DecodeSwap` gives
  every Swap log of a registered pool the net of the whole transaction, so an order split over two swaps is stored as
  two events of twice the total. The ETH amount and the unattributed fill are guarded by "exactly one Swap", the
  attributed amounts are not.
* `event_ids_order`: `docs/功能模块/09-交易记录与FIFO.md:81` says that the order of ids is the order of the chain. From
  block 100000000 on an id is one character longer and sorts before the earlier ones; around that block sells are
  replayed before the buys they sold from. The documents put the chain at block 51337623.

### Disagreements

Noticed while modelling; the models do what the code does, and no run is spent on them.

* A bucket starts full and is refilled meanwhile, so a node may get nearly twice its QPS in one second
  (`chain/pool.go:264`); `RPCEndpoint` calls it the upper limit of requests per second (`pool.go:20`).
  `BurstBound` states what does hold.
* A node that is short of a token by less than a nanosecond's worth counts as ready, since `WaitDuration` cuts the wait
  to whole nanoseconds (`chain/pool.go:252`), and `take` then subtracts nothing (`:270`): such a call is not paid for.
  A tick of the model is at least `Qps` nanoseconds and waits are rounded up, so `BurstBound` leaves this window out.
* The ETH of a fill is looked up only if the receipt has one Swap of the PoolManager
  (`app/native_quote.go:49`), but the trace adds up all ETH the user moved in the transaction (`chain/trace.go:88`),
  that of a curve trade, another exchange or a transfer included; `docs/功能模块/07-成交与用户归因.md:27` speaks of this
  trade's net, line 56 of the test and of the whole transaction. `NativeIsOfOneSwap` states what holds.
* `RefreshIfDue` measures from the last attempt (`wallets/snapshot.go:86`), its comment says from the last successful
  load (`:78`).
* `launchWalletEvent` asks the snapshot twice (`app/process_block.go:285`); across a swap a launch is missed of which
  either list holds one address (`docs/功能模块/08-聪明钱包名单.md:35`).
* With a token that both factories launch, a failed rebuild leaves the registration of an attempt whose other log came
  first; if the block then comes in another order, a fill of the market that was refused is recorded with it
  (`app/process_block.go`, `acceptLaunchCategory` and `restoreRegistrations`). TLC shows it in 12 steps when
  `O1Tokens` of `catalog_failures` is made `{a}`; `RowsFollow` in section 4 proves that nothing less does it.
* A sell whose decimals differ from the oldest lot's fails the whole pair (`domain/fifo.go:52`), where
  `docs/功能模块/09-交易记录与FIFO.md:89` leaves this one trade out. `OneDecimals` restricts the FIFO properties.
* The memory of signals evicts what was logged first, not what was used least recently (`app/ticks.go:103`,
  `docs/功能模块/15-优质项目查询.md:55`).
* Two events with a number wider than its field may have one id, and the second is dropped silently
  (`domain/event_id.go:8`); `docs/功能模块/09-交易记录与FIFO.md:36` says it is still written. `NarrowIdsAreTrue`
  restricts the property to ids within their width.
* Migrations are in the order of their names within one start only (`store/migrate.go:28`); a file that sorts before
  an executed one is executed after it (`docs/功能模块/16-存储主键与迁移.md:67`). `SchemaIsKnown` claims no order.
* The direction of the quote is not compared with that of the token (`venue/v4fill/transfer.go:119`,
  `docs/功能模块/07-成交与用户归因.md:51`): a user who gained both is recorded as having paid the quote.

### Fairness

`Scanner`: weak fairness of the workers, the consumer, the writer, and of starting and exiting. These are goroutines
that are never blocked for good by anything but each other, RPC calls under a client timeout, and a service manager
that restarts the process (docker-compose `restart`). Failures, stops, kills, reorganisations and new blocks are
bounded and owe nothing. `Writer`: weak fairness of `run`, `Close` and each caller; strong fairness of `Send`, since
Go serves the senders blocked on a channel in order. `RpcPool`: time passes, a caller that can go on does, the HTTP
client's timeout ends each call; nobody has to call. `Receipts`: every call is answered, goroutines go on. `DirtySet`,
`Retention`: weak fairness of the tick goroutine and of time. `Scores`: the same, and strong fairness of the two cases
of the select, which Go chooses at random among those ready. `WalletSnapshot`: time, the wallet tick, and strong
fairness of the mutex, which Go's starvation mode gives. `Signals` and `PriceFeed` promise nothing that needs fairness.
In a composed module the fairness is that of the part that runs (`runs = "scores" /\ Score!Fairness`).

## 4. Proofs

Checked by TLAPS for every value of the constants that meets the named assumptions of the modules: natural bounds,
positive capacities and thresholds, sentinels (`NoHash`, `NoBlock`, `NoPoint`, `Nobody`) that are not values, a
configured start within the modelled heights, transactions that occur once in a block. `Ingest` is used
as an instance, so there the assumption is a hypothesis of the lemmas and theorems. One lemma per action throughout.

* `IngestProofs!IngestCorrect` - `Spec => []IngestInv`. `NoSilentGap`, `CommittedOnce` and `ForksAreLogged` are not
  inductive together: the next block's parent is compared with the watermark, so `WatermarkIsLinked` has to say whose
  hash the watermark holds.
* `ScannerProofs!ScannerRounds` - `Spec => [](TypeOK /\ RoundInv)`. `RoundInv` is inductive with the types: between two
  commits the copy equals the row, and a queued transaction continues the row even when its caller has left, because
  only a stopping process leaves one behind.
* `ScannerProofs!ScannerImplementsIngest` - `Spec => RefinesIngest`: polls map to `PassOver` or a stutter, `Resolve` to
  `Reanchor`, `WriterCommits` to `Record`, everything else to a stutter. `RoundInv` supplies the guards.
  `NoHeightIsLost`, `NoHeightTwice` and `NoForkIsSilent` follow from this and `IngestCorrect`.
* `WriterProofs` - `ChannelIsBounded`, `SendsAreSafe`, `AnswersAreFinal`, `CloseDrains`. None is inductive: that an
  error means never committed needs each request to be in one place only (`Distinct`, `Place`: before the channel, on
  it once, in the transaction, or answered) and the buffered answer to agree with the database (`Answer`); that
  `Close` leaves nothing behind needs the lock discipline (`LockInv`).
* `CatalogProofs!RegistrationsMirrorStore`, `NothingLeftToRefuse` - the invariant `Follows` relates the registrations
  in the middle of a block to the rows and the changes not yet stored (`Due`); that the commit turns one into the
  other (`StoredIsDue`) needs `Acceptable`: what was accepted agrees with the rows and with itself.
  `FillsHaveLaunches` - while rebuilds succeed (`~MayNotRestore`) every recorded fill has a stored launch, with skips
  of any length: the failed rebuild is the only way to the finding of `catalog_outage`.
* `CatalogProofs!CatalogTypes` - `TypeOK`, with what `Bounds` adds to the types: everything ever registered, stored or
  opened on the chain is a market (`MarketsAre`).
* `CatalogProofs!RowsFollow` - what a block stores follows from its logs and the rows before it. `LogInv` says of the
  middle of a block which launches and graduations are in hand: the first launch of a token counts (`FirstCounts`),
  launches of another category do not (`LaunchesAre`), a graduation counts after the launch it finishes
  (`GraduationsAre`). A log changes none of what earlier logs opened (`KeptMarkets`), hence the fills (`FillsAre`).
  Route has to know the markets that are due (`RoutesDue`); the theorem assumes what that needs: rebuilds succeed, or
  no block is skipped and each token has one factory (`ChainInv`: then all the chain has is stored or due). With a
  failed rebuild and a token of both factories the property is false, see Disagreements.
* `NodesProofs!BlocksAreWhole` - `JobsAccounted`: a job that was handed out is done, in a worker's hand, or has
  failed the fetch, and the loop ends early only for a reason that makes the result an error. For the other modes,
  `AssembledWhole`: the last row of a transaction exists (`LastRow`, from the well-foundedness of the naturals) and is
  of the block's own fork. `BlocksAreWholeBeside` says it of the composed module.
* `NodesProofs!EachGetsItsShare` - two invariants, both about sums. `CurrentsSpread`: the currents of any `k` of the
  `n` nodes add up to at most `(round - 1) * k * (n - k)`. Bounds of single nodes are not inductive; with those of all
  sets a pick takes from the set that has the best node, and a set without it comes closer to its bound but stays
  below the mean of the sets with one node more and one less (`PickSpread`, `AheadIsConcave`). `BurstInv`: the calls of
  the last `j` ticks and the tokens left come out of a full bucket and what was gained in these ticks
  (`CallsWerePaid`), as a node that was called has had its clock set then (`CallsMakeYoung`).
* `NodesProofs!RestIsRespected`, `NodesTypes` - a caller that gets a node found it not cooling (`TakenIsNotCooling`);
  the types of pool and fetch (`PoolTypes`, `LoopInv`).
* `BackgroundProofs!LastPriceIsKept` - `FlightInv`: the point a flush holds was replaced by another version, or is still
  the entry of its token; with `OnePerToken` a removal takes away only what its row shows. The order of the list is
  not needed: whatever is evicted is counted as dropped. `DisplayNeverGoesBack` adds `Forward`: no row shows a later
  mark than the flush still holds for it. `LastPriceIsKeptBeside` says it of the composed module.
* `BackgroundProofs!NoSignalIsLost` - `ScoresInv`: a dropped signal is covered by the pending one, or by the
  recalculation that has still to read its wallet; what was read of a wallet is no less than what its score was
  computed from (`ScoreReadIsNew`), which also keeps scores from going back.
* `BackgroundProofs!NothingOlderReturns` - the above for display and scores, and `ListsInv` for the list of wallets:
  who loads holds `refreshMu`, so what was read is no older than what is shown, and lacks only edits made since the
  load began (`ReadIsNewer`).
* `BackgroundProofs!PricesAreKept` - `AnswerIsNew`: while no request has failed the age of the quote and the time to
  the next answer fit into `Poll + Timeout`; `Recovers`: what the service still has to make good after an outage.
* `BackgroundProofs!PurgeTakesTheOldest` - a batch is the first rows in the order of time and id. That such an order
  of finitely many rows exists is part of the proof (`Rank`, the number of rows before a row).
* `BackgroundProofs!SignalsRepeatOnlyOverCap` - `SignalInv`: a key that was logged and is no longer remembered was
  pushed out by `Cap` others that were logged no earlier.
* `BackgroundProofs!BackgroundTypes` - types of all six, the agreement of map and list in `DirtySet` (`OrderInv`: the
  list names each dirty token once), and that a purge says truly whether it stopped early.
* `RecordsProofs!SchemaIsAlwaysKnown` - `Agree`, for what is committed and for the open transaction: names and
  checksums recorded are those of the files executed, as many as there are. The order of the files is not needed.
  `SchemaIsKnownBeside` says it of the composed module.
* `RecordsProofs!TraceIsAlwaysTrue` - for call trees of any size. `StackInv` says of the open frames what the balance
  was when each was entered: the gain of the frames before it. A failed frame takes back exactly what came since, as
  the frames after it are those below it (`RevertedBelow`), and frames that close or come later change neither which
  earlier frames are reverted (`RevertedAlike`) nor what they brought (`GainAlike`). `Reverted` is a recursive
  function on the frames; that it unfolds (`RevertedUnfolds`) rests on parents having smaller numbers. The code skips
  calls without value and borrowed code; `NetIsGain` shows that these bring nothing.
* `RecordsProofs!AnswersAreAlwaysTrue` - the page is chosen, not computed, so the proof begins with the existence of
  a sorted page of any length (`PageExists`, from `NewestOf`: of finitely many rows one is the newest) and with a page
  that is not full having all rows (`LastPage`). `CursorInv`: the cursor is the place of the last row given, hence what
  is listed next is older than all that was given (`ListedIsOlder`). `WalkInv`: what was there at the start has been
  given or is older than the cursor. A commit moves no row, and a row of a new token takes no row's place
  (`LaunchedMore`). That launches of one second are told apart by their addresses is what makes the order total.
* `RecordsProofs!FillsAreAlwaysTrue` - for transfers of any length and any order of Go's map. The code's fold over the
  map has one answer for all orders, the one user whose net is larger than every other, or nobody
  (`AttributedInAnyOrder`). A net is a sum over the logs (`NetOfFew`), so the nets of a receipt with one trade follow
  from its at most three logs (`NetsOfOneTrade`). `FillInv`: what the receipt is after one step (`FirstStep`), that
  the fills are those of the finished receipt (`FillsMade`), and of the ETH, `EthKnown`: as long as there is one Swap
  at most, what an address got is what that trade moved for it and what went past the PoolManager; each move adds its
  own to both sums (`SumOfAppended`, `EthOfTrade`).
* `RecordsProofs!ProfitIsAlwaysFifo` - for any number of trades; that they have the token's one decimals value is
  part of the property. `Cover`: the lots of the replay are, one after the
  other, the runs of units bought and not yet sold; `Taken`: a sell takes the first of these units. `ReplayIs` draws
  from both what a replay says, by induction over the trades. `ResultsOfMore`: a trade that comes later changes no
  result of an earlier one, and `FifoInv` with it says that what was logged is still what a replay says.
* `RecordsProofs!NothingIsEverInvented` - the stock after a row, when older rows were purged, is at most what it was
  with them (`StockOfRest`), hence no sell matches more (`StepMatchesLess`); `TransactionInv`: an open transaction only
  adds to the files executed, and a start that does not commit leaves what was committed (`StepOfSchema`).
* `RecordsProofs!NarrowIdsAreAlwaysTrue` - for any base, widths and numbers. A digit is a quotient by a power of the
  base, so of two texts of one length the one of the smaller number is lower (`LowerDigits`). An id with a wide number
  is longer than any narrow one (`LengthFits`), hence a narrow event has its id for itself (`NarrowIdIsOwn`).
  `IdsInv`: each stored id is that of its event, and every narrow event that was seen is stored.
* `RecordsProofs!RecordsTypesAlwaysOK` - `RecordsTypes`: the invariants of the proofs above, which the types rest on.
  `TypeOK` of `Fifo` asks that a result accounts for the whole sell, which is proved for trades of any decimals
  (`ReplayAccounts`); that of `TraceNative`, that the balances add up to zero, also over the frames still to be undone
  (`Balanced`).
* `Sums` - lemmas about `SumFunction` and its likes of the community modules: a sum with one term changed, over
  disjoint sets, of bounded terms; and that folds over sequences and recursive functions unfold (`FoldExists`,
  `RecursionExists`). Each is proved by induction over numbers or subsets: the set of sizes at which it fails would
  have a least element.

Some attempts to prove found the model or the statement wanting. `WeightsBalance` was once bounded by one round,
which TLC confirms for the nodes of the run and refutes for weights 5, 1, 1, 1; it now has the bound that is proved.
`Nobody` must be none of the two callers of a list, and there must be at least one fork, and finitely many; users,
decimals and accounts must be finitely many too, or their nets and sums mean nothing. These are named assumptions now.
`CASE` in TLA+ is a choice among the arms that hold, not the first of them: arms of `Attribution` and `Fifo` that TLC
took in order overlapped, where the code has an `else`, and are now written so. The powers of `Fifo` and `EventIds`
were written with `^`, of which the provers know nothing, and are recursive functions now.

Every invariant and every action property of the passing runs is the statement of a theorem, the refinement included.
Only model-checked: the liveness properties `CatchesUp`, `StopsEnd`, `NobodyWaitsForever`, `CallsReturn`,
`LatestIsShown` and `TicksCatchUp`, since the provers do not support `ENABLED`; and the counterexamples of the runs that expect a violation.

## 5. Assumptions, and what is not modelled

Assumed, and not checked by the code: one process on the database; `Poll + Timeout` of the price feed is at most the
TTL (the defaults are 10 s and 3 s against 30 s; the configuration does not test it); an account that receives ETH
by `SELFDESTRUCT`, which the documents exempt, is exempt from `TraceIsTrue`. The SQL engine is taken as transactions
that commit wholly or not at all, and as statements that do what they say. `Scores` ignores the purge, whose effect
on profit is in `Fifo`.

Not modelled:

* event decoding (`venue/pons`, `venue/o1crypto`, the words of a Swap log) and the conversions of numbers: layout of
  data without state; the models start from decoded events;
* the formula of the score (`domain/score.go`): a pure function of the replay, made of ratios and hyperbolic tangents;
* configuration, logging, record types, and the tables of categories this release does not scan;
* the assembly in `New`, the order in which `Run` and `Close` end the goroutines, and `Open`; what the closing of the
  store relies on is `ClosedIsQuiet`;
* routes, rendering and time-outs of the HTTP service; `GET /wallets/:address/events` replays what `Fifo` models, and
  `GET /signals` runs queries over what is stored;
* checks of URLs, redaction, encoding of requests and decoding of hex fields in `chain/client.go`.
