# Verification of giwamock

TLA+ models of this repository (an AMM exchange: an on-chain indexer, a broker
that derives read models, a gateway in front of it, and the swap page of its web
client), TLC runs
that check them on small instances, and TLAPS proofs of the properties that
matter most for every instance.

Paths below are relative to the repository's root, `src/apps` standing for `apps`.

## The system

```
 chain --> amm-indexer --(durable queue amm-indexer.events)--> broker --> Postgres read models
             | Postgres rows                                     |  ^
                                                 notify (fanout) |  | broker.rpc / reply queue
                                                                 v  |
                       browser <--- HTTP, Socket.IO --------- gateway --> Redis (HTTP cache)
                                                                 |
                                                        config-service (RPC)
```

| Component | State it keeps | Operations | What makes it correct |
|---|---|---|---|
| Indexer publication (`apps/amm-indexer/src/handlers`, `lib/rabbitmq/publisher.ts`) | Ponder checkpoint, event tables | handle one event: insert its row, `notifyBroker`; restart from an earlier checkpoint | a row is canonical, publication is best effort and at least once after a restart |
| Broker event consumer (`apps/broker/src/rabbitmq/rabbitmq.service.ts`, `indexer-events/`, `aggregation/`) | `indexed_events`, the read models, the unacknowledged delivery | persist, aggregate, fan out, forward, ack, requeue, drop | events settle once and in order; nothing is derived before it is stored; no event is lost in silence; additive effects are repeated a bounded number of times |
| Gateway RPC client (`apps/gateway/src/rabbitmq/gateway-rabbitmq.service.ts`) | `pending` map, timers, outbox of the channel wrapper, exclusive reply queue | call, time out, reply, failed send, reconnect, shutdown | a caller gets its own answer, once, or a rejection; nothing leaks |
| Broker RPC consumer (same `rabbitmq.service.ts`, `gateway-rpc/`) | the request in hand | consume, invoke a route, reply, ack, nack | no accepted request is lost |
| Gateway HTTP cache (`interceptors/http-cache.interceptor.ts`, `http-cache/`, `redis/`) | Redis keys with a TTL | GET fill, invalidation by prefix scan, upsert, expiry | staleness is confined to races and ends with the TTL |
| Broker fan-out (`apps/broker/src/emitter`) | none | socket channels, invalidations, upserts | sent after aggregation, never fails it |
| Ve-locks, votes, stakes (`aggregator/ve-lock-events.ts`, `voting-events.ts`, `gauge-stake-events.ts`) | event rows and positions | one handler per event | positions equal the fold of the events, over redelivery |
| OHLCV buckets (`swap-ohlcv/`, `cron/`) | bucket rows and a state row per pair and resolution | advance, fill gaps, merge late swaps, prune | buckets are contiguous, open = previous close, each swap is in one bucket |
| Pool graph, fees, liquidity (`swap-liquidity/`, `dynamic-fee/`, `aggregator/voter-whitelist-token.ts`) | pools, pairs, ticks, fee source, the dynamic-fee curve, discounts, whitelisted tokens | created, fee changed, whitelisted, mint, swap | settings follow the last change; pair state follows the events |
| Account notifications (`account-notifications/`) | a row per notification, provision and account | record a swap, record a mint | one notification per event, however often it is aggregated; no trade is lost |
| Swap routes (`swap-route-spot-pair-quote.service.ts`) | none | bounded breadth-first search | shortest path within `maxHops`, or none exists |
| Exchange rollup (`exchange/exchange-rollup.service.ts`) | totals and buckets | bump a bucket, count it, reset the counts | nothing counted that did not happen, nothing lost but to a race |
| Spot catalog (`spot-catalog/`) | columns of `spot_pairs`, `spot_tokens` | list and unlist | no other column is written back, no other writer unlists |
| Replay tool (`cli/replay-indexed-events.runner.ts`) | a cursor over `indexed_events` | aggregate stored events again | read models that are a fold of the log end as before |
| Config service (`apps/config-service/src`) | codes, relations, badges, wallets, faucets, banners | RPC with `prefetch(10)`, HTTP for administrators | what a caller was told stays true; one code, referrer and active badge per address |
| Swap page (`apps/web/components/swap/SwapCard.tsx`, `SwapButton.tsx`, `hooks/useSwapInOut.ts`) | the form, the debounced amount, three queries; the hashes of two wallet hooks, a batch, the last toast | enter, select, swap directly or as a batch, approve, receipts, report | what is sent is what was shown; one swap at a time; each success is reported, once |
| Other HTTP APIs, socket rooms, trading bot, other pages of the web client | see PROJECT.json | | |

### What is hard in it

* **Two processes behind one queue.** Handlers of the AMQP consumers are started
  without being awaited and never cancelled. As long as the connection lives,
  `prefetch(1)` makes them sequential; when it is lost, a handler goes on
  *orphaned* on a closed channel while its message is delivered again.
* **At-least-once delivery against additive read models.** The event row is
  idempotent, aggregation is not; crashes, restarts of the indexer and lost
  connections repeat it.
* **Errors with three outcomes.** A missing prerequisite is requeued once, any
  other error drops the message, a unique violation acknowledges it.
* **A reply queue that dies with the connection**, late and duplicate replies,
  requests buffered by the client library with the name of the old queue.
* **Concurrent cache handlers.** The gateway's notify consumer has no prefetch
  limit, and each handler makes many Redis round trips.
* **Read-modify-write** in the rollup, the pairs, the tokens and the first OHLCV
  bucket, by five kinds of writers; **numeric edges** in gap filling and route
  search.
* **`Repository.save`.** It compares the entity with the row as it is at that
  moment and writes the columns that differ. A stale copy therefore overwrites
  columns its holder never meant to touch, and a save of a "new" entity whose
  primary key exists by now is an update of somebody else's row.
* **A React component as a state machine.** The swap button derives its state from
  seven hooks, by effects that run after each render, while the form goes on
  changing under an `await` that holds an older closure of it.
* **Find, then save** without a lock, for codes, faucets, wallets and badges, by
  ten requests at a time, one of which may be the second run of another.

PROJECT.json lists each of these as a hazard, with the line where it bites and
the properties that cover it, or why none does.

## Modules

| Module | What it is |
|---|---|
| `IndexerIngest` | indexer, queue and broker consumer, from the on-chain event to the ack |
| `MCIndexerIngest` | event scripts and symmetry for TLC |
| `IndexerIngest_proofs` | its theorems; the last part bounds how often an event counts |
| `RpcCalls` | abstract specification: what a remote call promises its caller |
| `GatewayRpc` | gateway client, request and reply queues, RPC consumer of a service; implements `RpcCalls` |
| `ConfigService` | `GatewayRpc` composed with the config service: handlers, statement by statement, and tables |
| `MCConfigService` | scenarios for TLC |
| `ConfigService_proofs` | the theorems of both: the calls implement `RpcCalls`, the composition implements `GatewayRpc`; what callers were told holds |
| `GatewayHttpCache` | broker notifications, gateway handlers, HTTP fills, Redis |
| `GatewayHttpCache_proofs` | its theorems |
| `VeLocks` | lock and vote positions: the SQL statements of each event, and what interrupts them |
| `VeLocks_proofs` | its theorems, and lemmas about sums over finite sets |
| `OhlcvBuckets` | one stream of candles: swaps, the minute cron and pruning on shared rows |
| `MCOhlcvBuckets` | symmetry for TLC |
| `OhlcvBuckets_proofs` | its theorems |
| `SavedRow` | `Repository.save` of TypeORM, for `ReadModels` and `ConfigService` |
| `SpotRows`, `SpotPrograms` | the rows of the spot market and what an edit does to them; each handler as the list of its statements |
| `ReadModels` | consumer, replay tool, cron runs and administrators running these statements side by side |
| `MCReadModels` | scenarios for TLC |
| `ReadModels_proofs` | the theorems about rows, columns and day volumes |
| `SettingsFollow_proofs` | the theorem that settings follow the chain |
| `PoolGraph` | tokens joined by pools; paths and routes, by definition |
| `RouteAnswers` | abstract specification: what a request for a route promises |
| `SwapRoutes` | the breadth-first search; implements `RouteAnswers` |
| `RouteQuotes` | `SwapRoutes` composed with the reads of fees and with the consumer that changes them |
| `RouteQuotes_proofs` | the theorems of both, the refinement included, and those of `SwapScreen` |
| `SwapScreen` | the swap page: form, queries, button, wallet and receipts |
| `MCRouteQuotes` | graphs and bounds for TLC; the swap page composed with the request it waits for |

Definitions whose comment says "Variant for checking" are deliberately wrong
versions of the definition below them. They are in no specification; replacing
the right one by its variant must break the property PROJECT.json pairs it with.

### IndexerIngest

An event `e` has a `Kind[e]` (what aggregation does with it: create a pool, need
one, or skip an unknown one) and a pool. Payloads, decoding and SQL below that
are abstracted: `applied[e]` counts how often e's effect was committed.

| TLA+ | Code |
|---|---|
| `Publish`, `PublishLost` | a handler's insert with `onConflictDoNothing`, then `notifyBroker`, which swallows every failure |
| `IndexerRestart` | Ponder runs handlers again from an earlier checkpoint (external) |
| `Deliver` | `channel.consume` with `prefetch(1)`; the queue itself is RabbitMQ (external): requeued messages return to the head, marked `redelivered` |
| `handler[s]` | one running `handleIndexerMessage`; `pc` is the await it has reached, `live` whether its channel is open |
| `Persist`, `PersistFails` | `onIndexerEvent` |
| `Aggregate`, `AggregateRetry`, `AggregateFails` | `aggregateFromPayload` and the branches of the `catch` |
| `Fanout` | socket and cache notifications, best effort |
| `Forward`, `ForwardFails` | `publishToGateway`, then `ack`; false requeues, an exception drops |
| `Exit` | an `ack` on a closed channel throws, the `nack` in the `catch` throws again, and the rejection of the discarded promise ends Node |
| `Reconnect`, `Crash` | the connection manager reconnects under a running handler; the process is killed |

`acked`, `dropped`, `published`, `lost`, `failed` and `lastAgg` are history: no
guard but the ghost of the queue reads them.

### RpcCalls and GatewayRpc

`RpcCalls` has three variables: the caller's promise, whose answer resolved it,
and which calls the broker has run. It says that a promise settles once, and
that a call that resolves does so with the answer to *its own* request, after
that was run. Rejection promises nothing: the request may have run or run later.

`GatewayRpc` is the code: `Start` enters the call in the map, arms its timer and
gives the request to the channel wrapper's outbox; `Transmit`, `SendFails`,
`Disconnect` and `Connect` are what that library and RabbitMQ do with it,
including publishing an unconfirmed request a second time; `HandleReply` is
`handleRpcReply`; `Shutdown` is `onModuleDestroy`. `Take`, `Execute`,
`ExecuteFails`, `SendReply` and `Ack` are `handleRpcMessage`, which both services
have word for word. `rpcToBroker` and `rpcToConfigService` differ in the queue
they address and the services in their `prefetch`, 1 or 10: a variable chosen
from `Prefetch` at the start. With more than one delivery out, RabbitMQ may
requeue them in any order (`Requeue`).
The refinement mapping is the identity on `status`, `result` and `executed`.

### ConfigService

Here `Execute` of `GatewayRpc` is no longer one step: between `Take` and the reply
a slot runs the statements of the route its request names, and a call of an
administrator's controller runs its own beside them. `task[w]` is where worker
`w` (slot or HTTP request) is.

| TLA+ | Code |
|---|---|
| `FindCode`, `DrawCode`, `SelectRow`, `WriteRow` | `getOrCreateCode`: look for the address, look for the drawn code, `save` (SELECT by primary key, then INSERT, UPDATE or nothing) |
| `FindReferrer`, `LookUpCode`, `InsertRow` | `claimReferral`; the key of the relation is generated, so `save` is an INSERT and the unique index decides |
| `Demote`, `InsertBadge` | `updateKolTier`, and `provision` after its `getOrCreateCode` |
| `FindWallet`, `FindFaucet`, `Delete`, `Count` | `upsert`, `register`, the two `remove`, `recordImpression` and `recordClick` |
| `Refused` | a unique violation: the error becomes the answer |
| `TakeRequest`, `Respond`, `Crash` | the steps of `GatewayRpc` with the slot's task; an orphaned handler goes on and ends the process when it replies |

A row is known by what makes it unique; generated ids count up. `raced` is
history: the keys that were written while another worker had looked at them and
not written yet. A scenario that is `late` has the service take its requests
only once their callers have given up: everything the tables can see, without
the gateway's own interleavings, which the two plain scenarios have.

### GatewayHttpCache

A response body is the number of events it was computed from. The broker
aggregates, then sends an invalidation and, for some events, an upsert; the
gateway delivers these in order but its handlers interleave at each Redis call
(`Sweep`: one page of SCAN with its UNLINK; `Upsert`: one key). A GET that misses
reads the broker and stores what it got in a separate step. All keys match the
prefixes of every invalidation, as those of the broad lists do. A message
whose payload no guard recognises is passed to the sockets only; the model lets
this happen to any message, because whether the publisher's `json: true` channel
encodes the Buffer it is given once more is decided by a library that is not in
this repository.

### VeLocks

The handlers of `ve-lock-events.ts` and `voting-events.ts` are lists of SQL
statements, and each statement is one step (`Statements`, `Written`, `Execute`).
The broker has no transaction around them, so anything may come between two.

| TLA+ | Code |
|---|---|
| `Create` ... `Abstain`, `ledger` | the contracts (external): which events can follow which, and what is then held |
| `DepositStatements` ... `AbstainedStatements` | one handler each |
| `Handle`, `Ack` | the next statement of the message in hand, its acknowledgement |
| `Redeliver` | a crash or a requeue before the ack: the statements run again from the first |
| `Rewind` | a restarted indexer publishes a suffix of the log again |
| `Fail` | a statement fails and the message is dropped |
| `Reconnect`, `OrphanStep` | the call goes on while its message is delivered again |

Messages are settled in the order of the log, which `IndexerIngest_proofs` proves;
this module starts from there. The abstract specification is the ledger: once
all events are handled, the rows are what the contracts hold. This is true of
everything but amounts, because deposits of type 0 and 2 add. Amounts are in
units, ends are 1 or 2. The event that unlocks a permanent lock carries no end,
so both sides keep the old one; splitting a permanent lock is left out, because
no source here tells which flag its parts get.

### OhlcvBuckets

One stream is the buckets of a pair (or token) in one resolution and its row of
`swap_bucket_state`. A transaction that finds this row locks it and excludes
all others: `Advance` is the whole of `advancePairBuckets`, with `Ahead` for a new
window (filling the gap), `AtCursor` for the current and `Behind` for an earlier
one. When there is no row there is nothing to lock, and the queries interleave:
`Begin`, `FindWindow`, then `InsertFirst`, or `ReadRow` and `WriteRow`. A unique
violation is caught by the code, but PostgreSQL has aborted the transaction by
then, so the next query throws: `Refuse`. `pruneExpiredBuckets` deletes rows and
leaves the cursor; `Restart` rolls back and may bring a new
`SWAP_BUCKET_FINEST_PERIOD_SEC`. A swap is its price, a window a number, and the
running totals are represented by `totalTrades`. The transaction is taken to
last less than the shortest bucket; a transaction chosen by PostgreSQL to break
a deadlock is not modelled.

### SavedRow, SpotRows, SpotPrograms, ReadModels

The daily work of the broker: `spot_pairs`, `spot_tokens`, the rows of the pool
graph, of ticks and of the bars of their histogram, of the factory's fees, of the
dynamic-fee curve and its discounts, of whitelisted tokens, of accounts, of reward
claims and stakes, and the exchange's totals and buckets. `SpotPrograms` writes each handler as the list of its statements: `Find`
and `Save` (which `ReadModels` runs as a SELECT and a write), single `Update`s,
`Upsert`s and `Delete`s, `Compute` for an UPDATE whose values the database
computes (`GREATEST`, `+ 1`, the lookup of whitelisted tokens), `Query` for a
decision that depends on what the tables hold by then, and `Candle` for a
transaction of `OhlcvBuckets`. `Beside` marks the two statements of a
`Promise.all`: `Programs` gives both orders, and an error in one spares the other. `SpotRows` says what an edit
does to the loaded entity. `ReadModels` has five actors run such lists, a
statement a step: the consumer (`Deliver` ... `Acknowledge`, in the order that
`IndexerIngest_proofs` proves, with `Restart` and `Rewind`), the replay tool, two
runs of the cron, and an administrator.

`Lose` is a publication that failed, or an event the consumer could not store: the
indexer goes on without it. A reward claim looks its pool up among the gauges that
are stored by then, so a claim may be without one only if the gauge's event was
`lost`. The replay tool has a set of events (`selected`) yet to run.

Amounts are 1 each, so a counter is compared with how often the events that feed
it were started (`NeverOverstated`) and ended (`NothingLost`). A price is the axis
it is on. Base and quote share one column, the tokens of the market one row (but
each of the two has its own in the table of whitelisted tokens); one wallet trades.
A row of `ticks` holds how many positions start and how many end there: the sum is
`liquidityGross`, the difference `liquidityNet`. Rows of ticks and bars have
generated keys (`Generated`), so a save of a new one is an INSERT, which the unique
constraint refuses if another writer was faster.
The fee cap and the scaling factor of a pool, set and reset alike, are one value,
and so are the defaults, each of which is a patch of one row. The
one retry of a `RetryableAggregationError` is in `IndexerIngest`; here the error
ends the handler (`Refused`). The exchange rollup catches its own errors, so an
error in it ends the rollup only (`Abandon`). `save` may meet `NaN`:
`tradesCount` of a token row whose insert had no value.

What the properties except is part of what they say. `raced` marks a row that was
written between another's load and write of it; `dropped`, that an error ended a
handler; `unordered`, that a replay ran beside the consumer or ended early;
`ahead`, that the cron copied a candle between the two transactions of a swap.

### PoolGraph, RouteAnswers, SwapRoutes, RouteQuotes

`SwapRoutes` is `findShortestRoute`: one query for the pools, in whatever order
they come, then the search over the copy with its queue, depths and parents, a
loop pass at a step, and the route rebuilt from its end. Pools are added
meanwhile. `RouteAnswers` has the request look at the graph once and answer with
a shortest route in what it saw, or with none if each has more than `MaxHops`
hops; the refinement maps the copy of the edges to what was seen.

`RouteQuotes` goes on from the hops: `hydrateSwapRouteHops`,
`enrichHopQuotesFromSpotPairs` and `quoteRouteAmountOutWeiFromSpotPairs` each
read the pairs and then the factory's defaults, while the consumer creates pools
and changes fees. `FeeOfRequest` relates every fee in an answer to those the pool
has had since the request came in. `torn` is its exception: a pool that got a
fee of its own, and whose tier changed, between two reads of a pair of reads.
Amounts are left out: any hop may come out as 0, which ends the loop.

### SwapScreen

| TLA+ | Code |
|---|---|
| `Enter`, `Select`, `Debounce`, `Back` | the handlers of `SwapCard` and its timer of 400 ms |
| `RouteAnswered`, `CalldataAnswered`, `PathAnswered` | the queries: `swap-routes`, `swap-routes-tx`, and the path of `useSwapInOut`, which keeps the data of the last key |
| `Click`, `Approve`, `Ask`, `Send`, `Refuse` | `handleSwap` at each of its awaits; `click` is the closure it runs in |
| `Settle`, `SettleBatch` | `useWaitForTransactionReceipt` and the effect of the batch |
| `ClearForm` | the timer of 2 s that calls `onSwapSuccess` |
| `Rendered` | the effects that announce and report, and `handleSwapStatusChange` |

Every action changes the state of some hook and ends with the render that
follows, so the effects compare the state before with the state after as React
compares dependencies. The data of a query is lost when its key changes, which
for the calldata is every second. A path of one CL pool, or none, is encoded for
the tokens of the form, any other for those of the path: `Swaps` has both.
Three things the properties except, because the code does them:

* `rawSwapHash` is never reset and hides `swapHash`. After a swap with the broker's
  calldata, one that the page encodes itself (no calldata had loaded) is never
  waited for: no toast, no notification, no panel, and the button is free while
  it is pending (`Unwatched`).
* One remembered hash serves both effects. When a batch succeeds after a direct
  swap, whose receipt is still there, the direct effect announces the old swap
  again, notifies the backend again and starts another timer (`ReportedOnce`).
* A click within the debounce, or while the path loads, sends what was loaded:
  the amount of the calldata, or the path of the last pair with the new amount;
  without a quote the minimum is "0". `TradesWhatWasShown` says what is right at
  any time, and what only when the page was at `rest`.

A second swap also shows the panel of the first as completed until its own
receipt is awaited, since the old receipt counts until then.
`MCRouteQuotes` composes the page with the broker: it gets an answer to
`swap-routes` when `RouteQuotes` has served the request. Left out: the mobile
card, the mock mode, leaving the page; balances, liquidity and allowances (a
click may need any of the two approvals).

## Runs

| Run | Instance | Shows |
|---|---|---|
| `ingest_safety` | 3 events of one pool (creation, mint, swap), 2 slots, 1 indexer restart, 1 lost connection, 1 failure or crash; about 3.1 million states | type, settlement in order, stored before derived, no silent loss, bound on double counting, order while connected |
| `ingest_settles` | 3 events, the pool created by two of them, 1 lost connection, 1 failure, fair | no message blocks the queue |
| `ingest_orphan` | 1 lost connection and no failure | **violated**: aggregation is out of order (first finding) |
| `gateway_rpc` | 2 calls, 2 slots, prefetch 1 and 2, 1 lost connection of either side, 1 failure or crash, a shutdown; ten further scenarios of calls and HTTP requests that meet on one row, with 1 lost connection and 1 failure or crash of the service; about 250 000 states | exact map and timers, no lost request, refinement of `RpcCalls`, every caller settles, every request runs; what a caller was told is kept, one active badge |
| `http_cache` | 2 events, 2 keys, 1 GET, 1 loss or restart; about 240 000 states | stale bodies come from races only; the cache becomes current |
| `http_cache_order` | same | **violated**: an invalidation deletes the upsert that follows it (second finding) |
| `ve_locks` | 3 veNFTs, 4 events, any 2 disturbances; about 1.35 million states | convergence to the ledger, with amounts too high only after a repeated deposit, totals never overstated, closed positions stay closed |
| `ohlcv_buckets` | 2 consumers and the cron, 5 instants, buckets of 1 or 2, `MAX_GAP_STEPS` = 2, 2 swaps of 2 prices; about 330 000 states | each swap in its bucket once, contiguity, carried totals and closes, sane candles, holes after long gaps only |
| `ohlcv_gap` | 1 consumer and the cron | **violated**: a swap is in no bucket (third finding) |
| `swap_routes` | 4 tokens, 5 pools (two parallel, one chord), `MaxHops` = 2, any part of the graph known; 2 fee events; the swap page with 2 ways, 2 amounts, up to 3 swaps of either kind; about 1.17 million states | shortest route or none, refinement of `RouteAnswers`, which answers every request; fees of the time of the request; what is shown is sent, one swap at a time, each success reported |
| `read_models` | a CL and a volatile pool, up to 3 events, twenty scenarios of events and actors (below); about 340 000 states | settings follow the chain, nothing overstated (ticks and bars included), nothing lost but to races or with its publication, day volume of its day, columns have their writers, the cron heals |
| `read_models_price` | the same | **violated**: the price column leaves its axis (fourth finding) |

### Bounds, and why they are enough

* Three events of one pool are the smallest script with a creation, an event
  that must wait for it and one that is skipped without it, and with a successor
  to overtake. Pools do not interact in this part of the code. The live run
  replaces the script by one in which the pool is created twice.
* Two slots suffice for one orphaned and one current handler. A second orphan
  takes a second reconnect; the proofs cover any number of slots, reconnects,
  restarts and failures.
* One disturbance of each kind combines to three in one behaviour (restart, lost
  connection, crash). Double counting needs exactly this combination to reach
  its bound.
* Two calls are needed for replies to be mixed up; two keys for a sweep to stop
  half way; two events for an old invalidation to meet a newer body.
* Four lock events contain every pair of handlers that touch one row (a deposit
  and what closes, merges or splits it), with a vote; three veNFTs are what a
  split needs. Two disturbances combine each with each.
* Five instants with `MAX_GAP_STEPS` = 2 let a gap be filled, be too long, and the
  stream go on after it. A retention of 1 is shorter than a bucket of 3, as it is
  for monthly buckets kept for less than a month, and longer than one of 1. With
  these lengths streams that are `Disturbed` do get indices that decrease, so the
  exemption in `CarriedForward` is not idle.
* `prefetch(10)` becomes 2: two requests side by side are what a race on a row
  takes, and two deliveries what a changed order takes. The proofs are for any.
* Each scenario of `ConfigService` puts the operations that write one table on
  one key, two or three at a time, one of them by RPC so that it may be lost,
  orphaned and run again. Two codes and two attempts let a code be taken and the
  attempts run out.
* Each scenario of `ReadModels` is a shape (the kinds the n-th event may be), the
  actors beside the consumer, and how many events are settled before they start
  (`quiet`): with all of them, a replay at rest; with fewer, one that races. Two
  pools are what tells a fee of a class from a fee of a pool; the volatile one
  has token1 as its base. Two days bring a rollover and a late swap; a longer
  resolution that covers both, a bucket that does not. Two runs of the cron
  overlap over a creation only, which is where rows are new. Two ranges of ticks
  share one bar, and each has bars or ends the other has not; a bar is 2 ticks wide
  (64 in the code). Mints race on the volatile pool, which has no ticks.
* In `RouteQuotes`, `MaxHops` is 2 where the code has 8: the end of the path is
  then beyond it, at it or within it, as the chord and the ends choose. One
  request, since requests share nothing.
* The swap page needs two ways and two amounts for anything to be stale. Its
  budgets are two changes of the form with one swap, one change with two swaps
  direct or batched, and one with three direct swaps: a hidden hash takes two
  swaps, a repeated announcement a batch after a direct swap. The proofs are for
  any number. With the page open the graph is a single pool: the page sees the
  request only through its answer.
* `CHECK_DEADLOCK FALSE` everywhere: events, calls and disturbances are finitely
  many, so each system may come to rest.

### Fairness

`Deliver`/`Take`: RabbitMQ hands over a message when it may. `HandlerStep`,
`BrokerStep`, `Notify`, `Read`/`Store`: promises resolve and the event loop runs
each pending continuation, for *each* handler. `Timeout`: an armed Node timer
fires. `Expire` (of the cache): every SET carries `EX`, so Redis drops the entry.
`Statement`/`Respond`, `Step`, `Search`: PostgreSQL answers and the await goes on,
for each slot, the consumer, each run of the cron and the search. `StartCron`:
the schedule fires every minute. Not fair: administrators, the replay tool, HTTP
requests to the config service. Nothing is
assumed of the chain, of publication, of the network's recovery (`Connect` is
not fair: callers settle without it) or of the retry of lost notifications.
Failures are bounded, hence finitely many. `EveryRequestRuns` depends on it: a
request whose handling always threw would be requeued without limit (listed
among the hazards).

## What the runs found

1. **Order is kept by the channel, not by the consumer.**
   `rabbitmq.service.ts:83-85` promises deterministic aggregation order from
   `prefetch(1)`. A handler that survives its channel aggregates after the
   successors of its message. `OrderWhileConnected` is what does hold, and is
   proved.
2. **The upsert is not after the invalidation.**
   `broker-gateway-http-cache-publish.service.ts:39-40` says that "prior HTTP
   cache invalidations have run" when the upsert does. They were *sent*; the
   gateway runs both handlers concurrently.
3. **A long gap loses swaps.** `apps/broker/src/aggregator/swap/README.md:55-57`
   says that a gap is filled up to the bucket of the event, and the swap applied
   to it. `advancePairBuckets` stops after `MAX_GAP_STEPS` buckets and moves the
   cursor all the same: the swap is in no bucket, and the events of all further
   swaps of that window are dropped with an aborted transaction.
   `HolesAfterGaps` shows that this, and a change of the bucket length, are the
   only ways there.

4. **The price column has two axes.** `apps/broker/prompts/pair-pricing.md:10` and
   `packages/shared/src/utils/pair-display-base-quote.ts:84` say that
   `spot_pairs.price` is token1 per token0. Mints write it so; swaps, and the
   profile refreshed from the candles, write quote per base, which is the
   reciprocal for a pair whose base is token1.

Other results are not errors that a document of the repository denies, but worth
knowing:

* Two first requests for the referral code of an address that overlap (two
  callers, or one request run twice after the service lost its connection) both
  find none; the `save` of the slower is an UPDATE by primary key, and the code
  the other caller was told is gone. So it is for a faucet. It is the exception
  `raced` in `ToldIsKept`, and the only one: a referrer is never replaced, since
  the key of its row is generated. A claim that is delivered again may answer
  "already claimed" for what it has itself claimed.
* Two grants of a tier that overlap leave two active badges (`OneBadge`).
* A replay beside the running consumer may leave a pool with an older fee, and
  one of a part that ends early does; at rest, a suffix is harmless for fees
  (`SettingsFollowChain`) while counters count again (`NeverOverstated` is relative to
  how often an event was started).
* `gaugeWhitelisted` is computed for the pairs there are when a whitelisting comes.
  A pair created between two tokens on the list keeps `false`, though
  `spot-pair.entity.ts:98` says "True when both token0 and token1 are
  whitelisted", until one of them is whitelisted again; it is never said to be
  whitelisted when it is not (`WhitelistShown` in `SettingsFollowChain`).
* The rows of an account are written without being loaded, so no race takes a
  trade from them (`NothingLost`); redelivery adds trades but no notification.
* A claim whose gauge was lost in publication keeps a NULL pool for good; nothing
  looks it up again. `positionCount` of a bar is 1 however many mints it holds
  (`swap-liquidity-graph.service.ts:1157` is its only writer).
* A late swap stamps a token row with yesterday and clears today's volume; the
  next run of the cron heals it. Runs of the cron that overlap for ever can undo
  each other's healing for ever (`DayVolumeHealed`).

Three more, of the buckets and the locks. Two first transactions that overlap and
both find the row of the other's window put the cursor back when the slower one
ends. If rows were then left behind by a hole, or the period has changed, a
pruned index can be given out again and a later bucket gets a smaller
`bucketIndex` than an earlier one; the tail, which is the row of the greatest index,
is then not the latest. `CarriedForward` exempts these streams (`Disturbed`); without
it a proof of the property failed, and TLC found the run. A swap that comes after the
cron has opened the next bucket is counted in its own, while the next keeps the
close and the running totals of before (`CarriedForward`, the exemption of
`late`). And the amount of a lock is too high for good after a redelivered
deposit, until a merge sets it (`OnlyOver` in `Converges`).

The first two are not harmful for good: additive effects repeat at most
`1 + restarts + 2 * reconnects + faults` times (`DoubleCountBound`), and the TTL
makes the cache current (`EventuallyCurrent`).

## Proofs

Checked by TLAPS for every value of the constants, under the named assumptions
only (`IngestAssumption`: there is an event, `Kind` and `PoolOf` are functions
on events, bounds are naturals; `RpcAssumption`: `NoAnswer` is no call, there are
finitely many slots, limits of prefetch are positive, bounds are naturals;
`CacheAssumption`: there is an event; `VeLocksAssumption`, `NoRowAssumption`: bounds
are naturals and no row is not a row; `ScreenAssumption`: no way is not a way,
amounts are positive, bounds are naturals; `RowAssumption`, `ScenarioAssumption`: no
row is not a row, requests are operations, and a table that is there at the start
has rows of its columns and one active badge per address; `OhlcvAssumption`: finitely many consumers, of which the cron is none, positive
prices, periods and limit, bounds are naturals; `PoolAssumption`, `EndsAssumption`,
`MaxHopsAssumption`: finitely many pools, of two different tokens each, a natural
limit; `SpotRowsAssumption`: pools are numbered and resolutions listed, lengths are
positive, and no resolution has the tag of another table, so that no two tables share
a key; `ScenariosAssumption`: a scenario's events are of the known types and on its
pools, a range of ticks is not empty, and no row is not a row; `SettingsAssumption`: no
fee is not a fee, and no row is not a row of settings).

* `IndexerIngest_proofs`: `TypeCorrect`, `SettledInOrder`, `StoredFirstHolds`,
  `EffectHolds`, `ConnectedOrder`, all from one inductive invariant.
  `InOrderSettlement` is the backbone: it locates every message number (settled,
  held by the one live handler, or queued, in this order), so a step that moves
  a message is arithmetic on `Settled`. It is not enough for
  `EffectUnlessCreationLost`: whether a later event of a pool may be skipped
  depends on what happened to *earlier publications* of its creation. The
  strengthening `IInv` therefore adds `PublishedInOrder` (an event below the
  indexer's cursor was published or lost, and before any publication of an event
  there is one of each earlier event that is not lost), `Behind` (no slot, an
  orphan included, works ahead of the first unsettled message), `Past` (what a
  slot beyond a stage has established: its row is stored, its effect taken or
  excused, its pool known) and `SettledKnown` (a settled creation has put its
  pool into the graph, or failed). For `ConnectedOrder`, `Steady` says that
  before the first lost connection every busy slot is live, and always that
  `lastAgg` is at most the first unsettled message.
* `CountBounded`, in the same module and on top of that invariant, by a potential.
  `Due(e)` adds to the times `e` has counted all that may still count it: its
  publication if it is to come, its unsettled messages not yet aggregated, the
  calls at work on it without a channel, and a requeue for each orphan that will
  end the process. `Due(e) <= Budget`, where a restart, a crash or a failure
  raises the budget by one and a lost connection by two; every other step leaves
  `Due(e)` alone or lowers it, which is where the factors of the bound come from.
* `ConfigService_proofs`, about `GatewayRpc`: `TypeCorrect`, `PendingHolds`,
  `Refinement` (`Spec => CallsSpec`) and `NoRequestLost`, for any limit of prefetch.
  The invariant adds `Started` (whatever carries a correlation id, in the outbox, the
  request queue or a handler, belongs to a call that was started) and `Paired`
  (a reply carries the answer to the request it names, and that request has
  run); each action is then a step of `RpcCalls` or a stutter. `RequestsSurvive`
  needs `AnsweredFirst` besides (a slot that acknowledges has answered), and that
  requeueing, in any order, loses none of the deliveries (`NothingMissing`).
* `ConfigService_proofs`, about `ConfigService`: `Composition` (`ConfigSpec => Spec`), because a statement
  leaves the variables of `GatewayRpc` alone and every other step is one of it;
  and `ComposedSafety`, what therefore holds of the composed system. `ToldHolds`
  and `BadgeHolds` are about the tables. Their invariant says of every worker what
  its last query has established (`Tasks`), above all `Unwritten`: a worker about
  to write key `k` as new either finds no row there still, or somebody has
  written `k` since, which is what makes `k` *raced*. A statement that writes `k`
  therefore overwrites what nobody was told, or races. `Counted` ties each
  recorded impression to the banner, over requests that run again; `SingleBadge`
  says that whoever has demoted a badge inserts the only active one.
* `GatewayHttpCache_proofs`: `TypeCorrect` and `StaleBodiesRaced`. `StaleOnlyByRace`
  alone is not inductive: a sweep that ends makes bodies of its keys answerable
  for it. `SweptBehind` therefore says what the keys a *running* sweep has left
  behind hold, `WritersAhead` and `EntriesAhead` that nobody who began after an
  invalidation writes a body older than it, and `InOrder` that invalidations
  begin in the order of their events.
* `VeLocks_proofs`: `TypeCorrect`, `ClosedIsKept` and `ConvergesHolds`. Of all
  statements only those for the parts of a split make a row active whatever it was
  (`StatementKinds`, `OpensOrCloses`). The invariant adds `MintedInOrder` (veNFTs
  are numbered as they are minted, and no event before a split names one of its
  parts) and `ClosedByNow` (a closed row was closed by an event the consumer has
  reached): the parts of the split in hand are therefore not among the closed
  rows.
  `Converges` needs an invariant of its own, `CInv`, that ties rows to the log
  column by column. On the chain's side each action changes the ledger as the
  statements of its event would (`Foretold`, one lemma per action), so the ledger
  holds what the last event said that sets a column (`LastOf`, `InLedger`), and of
  an amount that plus the deposits since (`AmountInLedger`). On the broker's side a
  row cannot be said to be what a prefix of the log makes of it, as after a restart
  it holds more than what is handled again. What is kept is weaker: a column holds
  something that was said (`Valued`), and what was said *last* once that is done
  (`Current`); an amount is at least what was given last plus the deposits that are
  done (`AtLeast`) and, if none of its deposits was handled twice, at most that plus
  the deposits ever applied (`AtMost`). An insert that finds its row is the one delicate
  case: it sets nothing, and `Valued` says that nothing else was ever said. Rows that
  an orphaned call writes drop out (`Clean`).
* `VeLocks_proofs`: `TotalNeverOverstated`, between any two statements. No bound of
  each row would do, as a merge and a split move an amount between rows: what must be
  known is which ledger the table is on its way to. The invariant `PInv` says that
  there are ledgers of every length of the log (`Past`), each what the event made of
  the one before it and none worth more than the deposits so far, and that the table
  is the ledger before the event in hand with its first `s` statements applied
  (`Applied`). `s` may be ahead of the statement in hand, after a redelivery. The order of
  the statements then matters: the lock an event names is written before the one
  that gains by it, and a deposit is recorded before it counts (`LockFirst`). Sums over
  finite sets are unfolded one element at a time: instead of the library's induction
  theorems, which take an operator, `PartsOf` takes the set of the parts of S for
  which a claim holds.
* `OhlcvBuckets_proofs`: `TypeCorrect`, `CountedHolds`, `CarriedHolds` and
  `HolesExplained`. Every transaction that inserts or locks is brought to one form:
  `Takes` says what it does to the rows, `Located` where it leaves the cursor, and
  each part of the invariant is shown once for the five ways of `Located`
  (`AdvanceStep`, the `Taken...` lemmas); those without a lock have a form of their
  own (`Written`). The parts of `IInv` are about one question, how rows, indices and
  cursor stay in step when the cursor may be *behind* the rows. `AheadOrder`: the
  rows beyond the cursor have greater indices, in order, which makes the index
  that a gap fill counts (`IndexAfter`) meet the rows it passes; where it does not, two
  rows would share an index and the transaction fails. `Dense`: as long as a
  transaction without a lock is open, nothing has been pruned, and indices count
  up from 1, so a second first row is refused. `Locked`: with the lock always held
  the cursor is at the end. `Regular`: with one period and no hole, windows and
  indices are the same arithmetic series. `Passed`: windows on the way of the
  cursor have rows or are holes, which with `Tallied` says that a swap is not
  lost. `Linked` is the claim about closes and totals, kept as well for a row that has been
  read without a lock and is about to be written (`Read`). A row that is read again
  has the index it had, and its neighbour is the one whose total it continues:
  that is `LatestTail`, the tail of a sorted table is its latest row.
* `RouteQuotes_proofs`: `TypeCorrect`, `RoutesShortest` and `Refinement` (the safety
  part of `RouteAnswers`). The invariant is that of breadth-first search: depths in
  the queue grow and differ by at most one, a token that has left the queue has
  all its neighbours visited, the parents of a token lead back to `from` in as
  many hops as its depth says. That no path is shorter is the argument of a
  potential: along any path the depth grows by at most 1 per hop. As induction
  over the path is out of reach, the proof takes the least position at which a
  path would be ahead of the depths and shows there is none. `QuotedRoute` carries
  all this over to the composition, whose consumer changes no variable of the
  search. `FeesOfRequest` holds because a fee is put together from two reads, of
  the pair and of the defaults: each is of the request, and together they are a
  fee the pool had unless it got a fee of its own between them *and* its tier
  changed (`torn`).
* `RouteQuotes_proofs`, about `SwapScreen`: `ScreenTypeCorrect`, `ShownIsTraded`,
  `OneAtATime` and `SuccessReported`, for any tokens, amounts and number of swaps. `Shown` adds that
  calldata on the page is that of its key, and that the click under way satisfies
  already what is claimed of swaps sent. `Watched` adds that a waiting swap is the
  batch or the active hash, where the button can see it, and that `raw` is that of
  a swap with the broker's calldata, which is what makes a later hash hidden.
  `Reported` adds that the active swap, once it has succeeded, is the last one
  toasted after every render: so a render announces again only right after a
  later batch. `MCSpec` of `MCRouteQuotes` takes only steps of `ScreenSpec` on these
  variables.
* `ReadModels_proofs`: `RowsTyped`, `DayVolumeWithinCandle` and `ColumnsOwned`, for any
  log, number of pools, resolutions, days and faults. A step runs whatever statement
  is next, so the invariant must know what an actor may still have to run: `Program`.
  `Couples` is its shape (a load is followed by the edit it is for, and what a load
  passes over when it finds nothing ends between two couples), `StatementFits` what
  each statement may write, `OneTrade` that at most one swap is in an actor's hands
  and its candle comes first. Every handler is shown to be such a program once, and
  every way to go on (the rest, what follows a failed rollup, the statements a save or
  a query puts in front) to leave one. `Holding` is about the row in hand: it is the
  one the next statement is about, and as it is in the table unless it was raced on;
  then a save compares it with what its holder loaded, and writes the columns its edit
  names and no other (`OwnResult`, hence `ColumnsOwned`). The day volume needs more
  than that it is within the candle, since the candle counts a swap before the row
  does. `Covered` bounds it, and all that is about to be written to it, by the candle
  less the swaps whose second transaction is still owed (`Owing`): a run of the cron
  that copies the candle then is what `ahead` marks. For a day that has no candle while
  a later one has (`Late`) nothing is claimed, and no candle is ever made for it.
* `SettingsFollow_proofs`: `SettingsFollow`, on top of that invariant, with one of its
  own, `FollowInv`. While the consumer goes back and a replay runs, a setting may be any of
  those it ever had. What is kept is about what is still to come: `Due` are the events that set a
  cell (a column of a row of settings, or what a pair's fee or gauge depends on) and
  will be handled, again or for the first time, and whose statement has not run.
  A cell holds what some event gave it, or none, and all later ones that set it are
  due (`CellHolds`, `FeeHolds`, `GaugeHolds`); `Ordered` says that whoever goes back
  takes up everything after that in order, so that a statement which sets an older value makes the
  later ones due or finds them so. Once all is settled nothing is due. For that,
  a statement must set what its event says and nothing else: `Ahead` says it of the
  statements an actor has yet to run (`Means`), and that a statement which decides
  something for a later one is followed by it (`Followed`). A pair's fee
  is written by four of them (its own fee, its tier, the module, its creation), which
  exclude each other by where the fee is from; its row is
  written when it is created, before a later event is taken up (`CreatedFirst`), or those updates
  would find no row. `PairSteps` says that what a read row becomes leaves these columns alone.

Only model-checked: liveness (`EveryMessageSettles`, `EveryCallSettles`,
`EveryRequestRuns`, `EventuallyCurrent`, `DayVolumeHealed`, that a request for a
route is answered), which the prover cannot do; and `NeverOverstated` and
`NothingLost` of `ReadModels`. Sums can be proved about, as `VeLocks_proofs` shows,
but these two would need more than that: a counter is raised by a statement that
adds, or by a row that is read, edited and saved among other actors' rows, and the
invariant would have to say, for every counter and every handler, how many of the
statements that raise it each actor has yet to run.

## Not modelled

PROJECT.json gives the reason for each component. In short: the pages of the
web client but the swap page (they display queries, or wrap one contract call),
the trading bot and the read-only APIs keep no state of interest; most of the
repository's lines are these, their styles and their mock data; the arithmetic
of prices and amounts and the routing of socket
rooms are abstracted to what they mean for ordering and loss; RabbitMQ, Redis,
PostgreSQL, TypeORM, Ponder and the AMQP client library are modelled from how the
code uses them. Of the read models these are left out: the prices of
a bar, `normalizePersistedPairOrientation`, USD amounts (a USD route is taken to
be configured), look-back prices, day volumes of pairs, clamping at 0, swaps
before the first bucket, and an event whose sender and recipient are two
accounts. `BannerService.create`, `update`, `remove` and the images have no route
and no caller.

## Plan

Done: every part of the back end that keeps state of its own, and the swap page,
as listed above.
Next, in order:

1. Proofs: `NeverOverstated` of `ReadModels`, with an invariant that says of each
   counter how many of the statements that raise it have yet to run.
2. Mints of one range that race on the rows of its ticks and bars.
3. Events of two accounts, and day volumes of the pairs.
4. The deposit and lock pages of the web client, which share the approval hooks
   of the swap page.
