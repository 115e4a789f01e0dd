# A verification of BOT-CRYPTO's trading core

BOT-CRYPTO is a TypeScript monorepo: a scanner that detects new pools on Base,
strategies that turn detections and prices into trade intents, an engine that
executes them on paper or live, and a gateway and dashboard that show the result.
Its processes talk over Redis Streams and keep their rules and positions in
Postgres. This directory holds TLA+ models of that core, from detection to page, the TLC runs that check
them on small instances, and proofs checked by TLAPS for every value of the constants.

Contents: [the system](#the-system), [the modules](#the-modules),
[the runs](#the-runs), [what the runs disagree with](#where-code-and-words-disagree),
[the proofs](#the-proofs), [what is left out](#what-is-left-out), [the plan](#the-plan).

## The system

```
 Scanner --pool.created, token.detected--> [bus] --> sniper --(snipe rule)--> strategies table
                                                                                  |
     +------------- trade.executed <-- TradingEngine <-- buy/sell.requested <-- StrategyRunner
     |                                   |   ^                                    |   (ticks)
     v                                   v   |                                    v
  exit armer --(take-profit, stop)--> book (positions)  Shield gate            prices (quotes)
     gateway: WebSocket feed, portfolio read-model, audit, alerts, notifications
```

| component | state it keeps | operations | what makes it correct |
|---|---|---|---|
| Redis event bus (`packages/events`) | one connection and loop per subscription; in Redis: stream, group position, pending list | publish, subscribe, read a batch, dispatch, ack, unsubscribe, close | no early ack, no second handling, stream order, nothing read is abandoned |
| Trading engine (`packages/engine-core`, `apps/worker/src/guard.ts`) | cache of results, attempts; the position book | gate, guards, execute with retry, fold, answer | one trade per intent, portfolio ceilings, a book that matches the fills, an answer to every intent |
| Executors (`packages/engine-core`) | none (live: the chain) | quote, approve, swap, await the receipt, read the fill | an order is credited with its own swap only; what failed is known not to have traded |
| Strategies, runner, store (`packages/strategies-core`) | the strategies table; the timer; the rules a tick has listed | start, stop, tick (price, position, evaluate, publish, upsert), arm | a rule trades no more than armed for, retired rules stay retired, exits of closed positions retire |
| Trading worker (`apps/worker`) | PoolRegistry (in memory), subscriptions | sniper, exit armer, boot | one snipe per token, a stop behind every position |
| Wallet signer (`apps/worker/src/signer.ts`) | the account; the chain's pending nonce | sendTransaction, waitForSuccess | a shared nonce never makes one order answer for another |
| RPC pool (`packages/rpc-manager`) | per endpoint: status, failures, cool-down, weight | dispatch with failover, health checks | a caller is refused only after failures, endpoints rejoin |
| Scanner (`packages/scanner-core`) | cursor per venue, seen pools (in memory or in Postgres), timers | start, stop, tick: range, logs, floor, publish, mark, advance | no pool passed by, none announced twice without a cause, one loop per venue |
| Copy trading (`packages/copy-core`) | cursors, followed wallets, copied marks (Postgres); the timer | follow, unfollow, tick: scan, decode, size, publish, mark | a swap is copied once and within its means, no block is passed by, the follow cap |
| Alert engine (`packages/observability-core`) | per replica: failures seen, last firing | record, evaluate, dispatch | a spike fires, and once per cool-down |
| Notification dispatcher (`packages/notify-core`) | dedupe keys, token buckets | route, dedupe, take a token, send with retries | rate, an end to every dispatch |
| Auditor, metered bus, metrics | appended events, counters | observe | - |
| Rugpull Shield (`packages/shield-core`) | cache of quick assessments | detectors with timeouts, score, verdict | a rotten token is not called safe for want of a read; answers are recent |
| Gateway: WebSocket feed (`apps/api-gateway/src/ws`) | clients, topics, checks in flight, heartbeats | connect, authenticate, subscribe, fan out, ping, disconnect | nobody refused early, subscriptions are fed, ghosts are reaped |
| Gateway: portfolio read-model | trade history, positions | ingest, analytics, pages | the book is the fold of the trades, pages lose nothing |
| Gateway: HTTP, auth, rate limits | users, keys, sorted sets in Redis | guards, handlers | no window over the budget, Retry-After suffices |
| In-memory bus, DEX adapters, AI engine, dashboard, domain types, config, errors, logger | - | - | - |

Hard behaviours, in the order they matter:

* **Concurrency without locks.** Everything runs on one event loop, so the
  interleavings are at `await`s: two subscriptions of the engine (buy, sell) are two
  loops; `setInterval` starts a tick whether or not the last one is over; the sniper,
  the exit armer and the runner write the same table; stopped polling loops have a tick
  in flight; a command arrives on a socket whose check is still under way.
* **Replicas.** Gateways share consumer groups, a rate window and a read-model, each with
  its own memory and its own clock reading.
* **Failure between two effects.** The intent is published before the rule is saved;
  the trade is executed before the book is written; the book is written before the
  answer goes out; the batch is read before it is handled; one of two events of a pool is
  published; a transaction is broadcast and the answer is lost.
* **Restarts.** Rules, book and streams survive; the idempotency cache, the pool
  registry, cool-downs, the ticks and the batches in hand do not.
* **Boundaries.** int64 columns under 18-decimal amounts, divisions in basis points,
  retries, batch sizes, ceilings, windows of time, pages.

`PROJECT.json` lists each hazard at its line, with the property that would catch it
or the reason none does yet.

## The modules

| module | what it is | EXTENDS |
|---|---|---|
| `Delivery` | abstract: the one-way life cycle of an entry under a subscription | |
| `RedisEventBus` | `packages/events/src/bus/redis.ts`: stream, group, consumers | |
| `TradingEngine` | `attachEngine`, `TradingEngine.trade`, the guards, the executors as one step, `applyTrade` | |
| `Strategies` | the six strategies as pure operators | |
| `StrategyRunner` | ticks over the strategies table | `Strategies` |
| `Worker` | sniper, runner, engine and exit armer composed over topics | `StrategyRunner` |
| `RpcPool` | `packages/rpc-manager`: endpoints with circuit breakers, failover, health checks | |
| `CopyRules` | decoding of leader swaps and the copy policy as pure operators | |
| `CopyStore` | `upsertWallet` and the follow cap | |
| `CopyTrading` | `CopyRunner` over `WalletWatcher` and the store | `CopyRules`, `CopyStore` |
| `Scanner` | `packages/scanner-core`: the polling loop of a venue | |
| `LiveExecutor` | the live executor over the wallet signer, the chain and its mempool | |
| `Shield` | `packages/shield-core`: detectors, verdict, cache | |
| `AlertEngine` | alert engines of the gateway's replicas | |
| `Dispatcher` | `packages/notify-core`: dedupe, buckets, retries | |
| `Access` | a request through the gateway's guards, keys and the rate window | |
| `EventsGateway` | the WebSocket feed | |
| `Portfolio` | the read-model of trades | |
| `MC*` | constants for TLC | the module, or several that share no state |
| `FoldLemmas` | what sums and folds over finite sets compute | the library's theorems |
| `*Proofs` | theorems; `ExecutionProofs` is about `RpcPool` and `LiveExecutor`, `WorkerProofs` about `StrategyRunner` and `Worker`, `ScannerProofs` about `Scanner` and `Shield`, `GatewayProofs` about the gateway's three modules, `AlertEngine` and `Dispatcher` | those modules, `FoldLemmas` |

Operators marked "mutant" above a definition are plausible mistakes in it; no
specification uses them. Putting one in its place makes TLC report the property it is
listed with in `PROJECT.json`, so each property is known to depend on the code it talks
about.

Each module has one type invariant. They hold on the instances of the runs below, and the
runs spend their properties on behaviour; all but the copy runner's, most of which is in
`GapInv`, are the conclusion of a theorem (`PortfolioTypeOK` in `BookIsFold`) or, in the case
of `StoreTypeOK`, a part of one's invariant (`CapInv`).

### RedisEventBus

One stream and one group, entries numbered in the order of their XADDs. `XREADGROUP >`
hands out consecutive entries and never the same one twice, so a consumer's batch is
an interval `head[c]..tail[c]`. `pc[c]` is where `#runLoop` stands: `check` (the loop
condition), `poll` (the blocking read), `backoff` (after an error), `next` / `handle` /
`ack` (inside `#dispatch`). `acked`, `lastId`, `start` and `group` are Redis's;
`stopping` and `closed` are the flags of `stop()` and `close()`. `Publish` appends, also
what another writer put there and `parseEvent` will refuse (`bad`). `ReadFails` covers a
reply lost after the server moved on; `DropBadFails` is the one XACK outside the `try`,
whose rejection nobody handles; `Crash` loses every loop. Consumer names are random per
subscription, so the pending list of a lost loop is nobody's: there is no action that
reads it, because no code does. `runs`, `succeeded` and `lastRun` are history.

`DeliverySpec` says that this machinery implements `Delivery`: at most once, in one
direction, orphaned for good. The comment at `redis.ts:45` says otherwise.

### TradingEngine

Two loops, named by the side they serve. An intent goes `gate` (preTradeCheck, buys
only) -> `guard` (portfolio limits, notional cap; every attempt starts here) ->
`execute` -> `read` and `write` (the two halves of `applyTrade`, with an await between)
-> `publish`. `done` is the `#done` cache, consulted on delivery; `attempt` counts
InfraErrors. The executor is one step with five outcomes: it trades, it refuses, it
fails before anything was sent, its receipt is lost, or (in the fold) the table refuses
the number. `book` holds both books, keyed by `simulated`; the executor folds into the
one of its mode, while the guards read the one the intent is stamped with. `Restart`
empties everything but the books. The history variables: `fills` counts real trades,
`ledger` folds them at once in the order they happened, `astray` marks the tokens whose
book is known to have left the ledger (both loops at once, or a refused write),
`answer` the last outcome published.

An absent row and a row of zeros are one state (`Flat`): no operation tells them apart.
Realized profit is left out: nothing is decided by it.

### Strategies and StrategyRunner

`Strategies` has one operator per strategy, from stored state, price, holding and time
to a decision: an intent or none, and the next state. Prices and amounts are small
integers; the divisions are the code's.

`StrategyRunner` has the table (`store`), the timer, and for each tick under way the
rules it listed (`copy`, a snapshot), those it still has to deal with, and where it is
in `#evaluate` / `#apply`. `Save` upserts the whole rule made from the snapshot, over
whatever is there by now. `Arm` is the upsert by which a buy arms an exit again.
`Crash` is a rejected call: nothing catches `tick()`'s rejection, so it ends the process.
The market, the book and the clock move freely (`Move`). `Tick` is the set of ticks that
may be under way at once: one element where calls are faster than the interval, two
where they are not.

### Worker

One token from detection to exit. Topics (`detected`, `requests`, `fills`) survive a
restart, what a handler had in hand does not - the bus's at-most-once promise. The
engine here is one step per trade, which may fail; its inner steps are `TradingEngine`'s.
Boot starts the subscriptions and the runner with an empty `registry`.

### RpcPool

Requests in flight over endpoints. `breaker[e]` is a `ManagedEndpoint`: status, failures
in a row, cool-down, and the time left of it (`retryAt` is only ever compared with the
clock, so the model keeps the difference and `Tick` counts it down - no bound on time is
needed). `credit` is `currentWeight`. An answer's bookkeeping and the choice of the next
endpoint happen between two awaits, so `Fails` is one step: record, choose, send or give
up. `timer` and `checking` are the background health checks, whose probes race the
requests. Latencies are left out; `isEndpointFailure` is the choice between `Answered`
(a result or an application-level error) and `Fails`.

### CopyRules, CopyStore and CopyTrading

`CopyRules` goes from the transfer logs of a transaction to the swap it was
(`DecodeTx`), and from a swap, a rule and what is held to the size of the copy
(`Evaluate`, 0 for a skip). Logs with null fields, which `decodeSwaps` ignores, are not
among the `Transfers`. `CopyStore` is the cap of `upsertWallet`: the enabled wallets are
counted in one query and the wallet stored in another, so calls (`Request`) can interleave.

`CopyTrading` adds the runner. `tick[t].at` is where a tick stands: `list` (the active
wallets), `head` and `cursor` (the two reads of `scan`), `begin` (a wallet's first scan),
`scan` (two `getLogs`, decode and `setCursor`), then `decide` / `publish` / `mark` for each
swap of the `batch` in order. `setInterval` starts a tick whether or not the last one is
over, hence the set `Tick`. The head may come from a node one block behind
(`rpc-manager` fails over); it counts as a fault. `Fail` is any rejected call after the
head: the runner's `catch` goes on to the next wallet. `Crash` leaves only the store. A
transaction is in one block, so a range decodes to its part of the whole chain's swaps
(`SwapsIn`). `hasCopied`, `amountOf`, the policy and the gate are one step: what the last
three read belongs to the environment, and another tick's mark that falls between them
might as well fall after them. A wallet's rule does not change while it is followed. A
wallet followed again resumes at its old cursor, as the table's row stays. `from` (the
last block a first scan passed by), `published`, `dropped`, `raced`, `unmarked` and
`overlapped` are history; `from` grows when two ticks both make the first scan.

### Scanner

One venue. A `Loop` is a chain of timers: `Start` sets one, a tick that ends sets the next
(`Schedule`) unless the scanner was stopped. `timer` is the entry of the code's map, which
holds the timer set last - so after `Stop` and `Start` with a tick in flight there are two
loops and the map knows one. `tick[l]` says where a tick stands: the head is read (`Fire`,
maybe from an endpoint that lags), then the cursor (`FirstRun`, `CaughtUp`, `GetLogs`),
then one log after another (`PassOver`, `TooThin`, `Irrelevant`, `Take`, `PublishPool`,
`PublishToken`, `MarkSeen`), then the cursor is stored (`Advance`). `durable` chooses the
Drizzle store or the one in memory that the worker uses. `excuse` counts, per pool, the
occasions on which the code lets it be announced again; `base` is the first cursor,
`thin` the pools passed over for want of liquidity.

### LiveExecutor

A call of `execute()` is an order; its stages are its awaits. Quote and floor are taken
from the reserves (`AmountOutV2`, `ApplySlippage`, in integers as the code has them), the
allowance is read, an approval or the swap is prepared (pending nonce and gas estimate),
sent, waited for, and the receipt of the order's own hash gives the fill. Between any two,
blocks are mined (`Mine`), others trade (`OthersTrade`), and the other handler's order goes
on. Nodes are external: one may not know of a pooled transaction, so a nonce can be handed
out twice, and two transactions of one nonce compete; the wait ends with the receipt of
whichever was mined, as the client follows the nonce. `MineAs` lets a token keep a part of
a transfer, or log it in a way that `realizedAmountOut` does not see.

### Shield

A token is a record of the tiers its reads fall in (`World`), a detector a function from
it to a score, a fault mix a set of reads that fail or are late. `Seen`, `Blind` and
`Factor` follow the detectors' branches, also those that take a failed read for an answer;
`Score` and `Verdict` are `aggregate` and `verdictOf` in hundredths. An assessment goes
`code` (getCode) -> `detect` (all detectors at once) -> `answered`; what a world and a mix
make of it is computed once for all (`Assessments`). The cache is the token's entry with
the time it has left, and `age` counts from the reads.

### AlertEngine and Dispatcher

Each replica has its own `series`, `todo` (the rules it still evaluates for the signal in
hand, with a dispatch awaited in between) and `lastFired`; the group hands a signal to one
of them. The dispatcher's `sending[h]` is a handler of `bus.ts` with the channels still to
come; choosing the next channel and taking its token is one step, as between two awaits.
`taken` is history.

### Access, EventsGateway and Portfolio

`Access`: a request reads its row and the clock (`Authenticate`), then the MULTI adds and
counts the hit (`HitServed`, `HitDenied`), then a second call takes a denied one out
(`GiveBack`), or the handler runs. `late` marks a request that reached Redis after one
with a later time: its hits may have been pruned already. `StoreFails` covers a MULTI that
ran although its reply was lost. `promise` is the time a Retry-After gave and `broken` the
requests that waited it out alone and were denied; a promise reckoned from a hit that is
itself about to be given back (`FromOneThatStays` is false) is not counted. `EventsGateway`: `auth` is the check in flight, which
outlives the socket; `waiting` the command held back for it; `Vanish` is a peer that goes
without a close event, which only the heartbeat notices; `CheckRejects` is a check that
throws, whose promise has no handler, so the process ends. `Portfolio`: `work[r]` is a
handler of the ingestor between its calls, `Fold` is `applyTrade` with realized PnL,
`Analytics` folds the log again in the order of its times, trades of one time in any order,
as the query sorts by time only; the reader follows the cursors.
`folded`, `gains`, `raced`, `lost` are history.

## The runs

`CHECK_DEADLOCK FALSE` is set where the system may really stop (every entry handled,
every subscription closed, every intent answered, the bounds of the counters reached).

| run | bounds | what it shows |
|---|---|---|
| `bus` | 2 consumers, batches of 2, 3 entries, 1 fault | `NothingAbandoned`, `DeliverySpec`, `EveryEntryDispatched` |
| `engine` | 3 buys of 2 tokens and a sell of part, one intent delivered twice, ceilings of 1 position and 2 quote, 1 retry, 1 fault | `OpenPositionsWithinCap`, `DeployedWithinCap`, `SettledAtMostOnce`, `BookMatchesFills`, `EveryIntentAnswered` |
| `engine_width` | a column that holds 1, fills of 2 | violation of `FailedDidNotTrade` |
| `runner` | limit, stop-loss and DCA rules, 1 tick at a time, 2 armings, 1 crash | `NeverRefires`, `StaysRetired`, `ClosedExitsRetire` |
| `worker` | snipe, take-profit and trailing stop, 2 detections, 1 failed trade, 1 restart | `OneSnipe`, `StopStands`, `ProfitIsTaken` |
| `worker_restart` | the same with a stop-loss, no failed trade | violation of `RestartKeepsStop` |
| `rpc` | pool: 2 endpoints with weights 2 and 1, 2 requests in flight, threshold 2, cool-down 1 then 2; executor: a buy and a sell, 2 states of the reserves, slippage 10%, 1 lost call | `UnavailableOnlyAfterFailures`, `Rejoins`; `CreditedOnlyOwnSwap`, `UnreportedOnlyByLostCall` |
| `copy` | 1 leader with a buy, its sale and a token-to-token swap in one block, a chain of 3 blocks scanned 1 at a time, 2 ticks at a time, 1 fault | `GapOnlyByFailure`, `TwiceOnlyInRace`, `CopyWithinMeans`, `CatchesUp` |
| `scanner` | 2 loops, a launch, an unpaired pool and an undecodable log in 2 blocks, ranges of 1 block, a head one behind, 2 faults | `NoPoolPassedBy`, `TwiceOnlyWithCause`, `LoopsOnlyByHandover`, `EventuallyAnnounced` |
| `gateway` | requests: 4 of a key that expires and its admin, budget 1 per window of 2, 1 failing call; feed: 2 clients, one with the scope, 1 topic, 3 events, 1 rejected check; read-model: a buy and two sells of one time, 2 replicas, pages of 1, 1 failure | `WindowHolds`, `RetryAfterSuffices`; `RefusedOnlyWithCause`, `SubscribedMeansFed`, `GhostsReaped`; `BookMatchesFolds`, `AnalyticsAgree`, `PagesComplete` |
| `risk` | shield: 2 callers, 59 tokens from spotless to rotten, every mix of 8 kinds of lenient failures and the extremes; alerts: 2 replicas, rules of window 1 and 3, 3 signals, 1 restart; dispatcher: 2 handlers, 2 channels, 1 token, 1 retry, 4 events | `DangerSurvivesFaults`, `AnswerIsRecent`; `GroupSpikeFires`, `OnePagePerCooldown`; `RateWithinTwice`, `DispatchReturns` |
| `shield_blind` | one token in a V3 pool without liquidity, a liquidity read answered or late | violation of `NoFalseSafe` |

`rpc`, `gateway` and `risk` each check several modules that share no state: `part` says
which one runs while the others rest in their initial states, so the state space is the
sum of theirs and each is explored in full. (An executor reaches the chain through the
pool; what the pool does to it - a call rejected, an answer lost after a broadcast - is
part of `LiveExecutor` as `CallRejects` and `SendUnanswered`.)

Why these bounds are enough:

* `bus`: three entries with batches of two give a batch that is cut short, one that
  follows another, and an entry left for the other consumer; one fault is each single
  failure at each point, including a crash in the middle of a batch and a restart with the
  rest still queued.
* `engine`: a second buy of the same token and a buy of another one meet the two
  ceilings from both sides; the sell rewrites the position between the guard's read and
  the buy's write; `Fill = {2}` and `ColumnMax = 3` make the first buy fit and the second
  overflow; the second delivery reaches the cache in each of its states. A fault is a call
  after which the engine cannot answer truly, or a restart; `Refused` and `InfraFails` are
  ordinary outcomes and are not counted.
* `runner`: prices on both sides of each trigger and one exactly at it; `MaxArms = 2` lets
  an exit be re-armed while a tick holds an older copy of it; one crash falls
  between the intent and the upsert.
* `worker`: prices 10, 15, 20 with a target of +50% and a trail of 30% make each exit
  fire first in some run, and at the boundary; two buys' worth of holdings.
* `rpc`: two requests are enough for a failure to arrive after the endpoint went down or
  came back; threshold 2 and two cool-downs show counting, tripping and doubling; the
  pool's state space is finite without a bound on time or requests. Two orders are the two
  handlers; two reserves 50% apart are a fill within the slippage and one beyond it; the
  allowance is there or not on each side, so approvals compete for a nonce with swaps.
* `copy`: ranges of one block make a late tick put the cursor back and a later one read a
  block again; two swaps in a batch leave one to lose; a buy with a router's fee, a rate of
  150% and a ceiling of 5 meet the clamp, and a holding of 0 or 2 under a sale of 9 meets
  the cap of a sell. One fault is each failure, crash or lagging head at each point.
* `scanner`: two faults are a stop with a tick in flight and a failure in one of the two
  loops, or a failed mark followed by a restart; the launch shares its block with a pool
  that is remembered silently; a head that lags makes the second loop's range older.
* `gateway`: four requests over a budget of one are a hit that is served, one that is
  denied, one that is denied because of that one, and a retry; the
  window of two and a clock of 0 to 3 have hits that age out, hits of one time and hits
  overtaken; the key expires at 3. A buffer of one frame makes a consumer slow with the
  third event. Two sells of one time, published out of the order of their ids, straddle
  every page boundary; the second empties the position.
* `risk`: tokens differ in everything a failing read hides, fault mixes in every
  combination of the failures that lower a score; a timeout of 1 within a TTL of 2 lets an
  assessment end after a later one. A threshold of two and three signals over two replicas
  reach the bound of `GroupSpikeFires`. A bucket of one token over a window of 2, four
  instants and four events put sends of two windows side by side.

Fairness. Every liveness property assumes weak fairness of the loops' own steps: on one
event loop a continuation whose promise settled is run, and the awaited calls settle
(Redis, quotes and receipts have timeouts; a handler that never returned would block its
subscription in the code too). Subscribing again after a crash is fair: the process is
supervised and subscribes at boot. The environment (publishing, price moves, deliveries,
faults, stop and restart) is never fair. Strong fairness is used once: the runner's price
question for a rule is asked in every tick and does not fail for ever (`SF` on an answered
quote); a rule whose quote always fails never fires, which is the code's intention. In
`rpc` the callers keep asking and time passes, but the health checks are not fair: the
worker never calls `start()`, so an endpoint must come back without them. In `copy` the
interval fires and every call of a tick settles, for each tick; starting, following and
the growth of the chain are not fair, and `CatchesUp` asks for no more than that they have
come to rest. Faults are bounded: a wallet whose every call fails is never scanned. In `scanner`
timers fire and calls answer (weak fairness of a tick's steps), and an endpoint does not
answer with a stale head for ever (`SF` on a fresh one: the pool rotates its endpoints); in
`gateway` the heartbeat's interval fires, a check ends and what waited for it goes on; in
`risk` a send settles. The last is an assumption about the channels: `http.ts` sets no
timeout of its own.

## Where code and words disagree

Three are runs expected to find a violation; `PROJECT.json` quotes the lines.

1. `engine_width`: the engine's position columns are int64 (`schema.ts:9`). A buy that
   returns more than that is executed, refused by the table and answered `failed`. The gateway's own
   schema explains why such a column does not do.
2. `worker_restart`: "a restart never drops an open position or its stop-loss". The rules
   and the book are kept, the pool registry is not: the stop fires, is saved as triggered,
   and its sell fails for want of a pool.
3. `shield_blind`: "never a crash or a false `safe`". A detector that fails scores 50, which
   is less than what it gives a thin pool: with the liquidity read late, a V3 pool without
   liquidity goes from `caution` to `safe`. `DangerSurvivesFaults` shows how far the promise
   holds: not for `caution`, but for `danger` while the code can be read or is all that
   cannot, and for a token of which nothing can be read.

Others are stated by the exceptions of a property that holds:

* "If the handler throws, the message stays pending and is redelivered" (`redis.ts:45`, and
  the auditor re-throws for it): it stays pending, nothing reads the pending list
  (`DeliverySpec`: an orphaned entry stays so).
* "One intent at a time per wallet" (`live-executor.ts:67`, `signer.ts:49` and `76`): a buy
  and a sell are two subscriptions. One's fold can overwrite the other's
  (`BookMatchesFills` excepts it), and their transactions can carry one nonce
  (`CreditedOnlyOwnSwap` shows that the receipts are told apart all the same).
* A rule that emitted "can't re-fire on the next tick" (`runner.ts:25`): a second tick that
  listed the rule before the first one saved it does; `NeverRefires` needs ticks that end
  before the next starts.
* The watcher resumes "after a restart - no gap" (`watcher.ts:24`): the cursor is stored
  before the swaps of the range are handled (`GapOnlyByFailure`). "A swap is never mirrored
  twice" fails when two ticks have it in hand, or its mark failed (`TwiceOnlyInRace`).
* A pool too thin gets "a second look" from a restart that replays its range
  (`scanner.ts:205`): the cursor has passed it, and no restart replays; range overlaps
  "never duplicate" (`ports.ts:22`): they do after a failed mark, with two loops, or with
  the store in memory (`TwiceOnlyWithCause`).
* "The whole window is exact" (`redis-store.ts:9-10`): not for a request overtaken on its way
  to Redis (`WindowHolds`). And Retry-After may be reckoned from
  the hit of a request that is itself denied and about to be given back, or be waited out
  while such a hit is in the set; only one that rests on a hit that stays holds
  (`RetryAfterSuffices`).
* "Max sends per `rateWindowMs`" (`dispatcher.ts:24`): twice that across a refill
  (`RateWithinTwice`), and retries take no token.
* "Each trade is folded exactly once" (`ingestor.ts:12`): at most once - a handler that
  fails after its append leaves the trade in the log and out of the book
  (`AnalyticsAgree`).
* "The slippage floor the mined tx already guaranteed" (`live-executor.ts:115`): guaranteed
  of what the pool paid out, not of what a token that keeps a part lets arrive.
* An outage of every endpoint reaches the engine with its `RpcInfraError` wrapped by the
  client (`pool.ts:136-140` says so), so the engine does not retry it.

## The proofs

`tlapm` checks every leaf; nothing is assumed but the named assumptions on constants
(`BusAssumption`, `EngineAssumption`, `RunnerAssumption`, `PoolAssumption`, `StoreAssumption`,
`CopyAssumption`, `ExecutorAssumption`, `ScannerAssumption`, `ShieldAssumption`,
`AccessAssumption`, `FeedAssumption`, `AlertAssumption`, `DispatcherAssumption`,
`PortfolioAssumption`), which TLC evaluates in the runs of their modules, and the hypotheses
written in a theorem. Every invariant and every action property that a run checks is the
conclusion of a theorem; the run shows it on an instance, the theorem for every value of the
constants. Four hypotheses occur:

* `OneBook` - every intent is stamped with the executor's book. The worker starts one
  executor, and stamps what it emits with its mode.
* `NoEmptyFill` - no buy is filled with nothing. The code does not check it: an amount too
  small to buy one unit of a token is filled with 0 (`quote.ts:37`, `live-executor.ts:120`).
  Its cost is then in the book under an amount of 0, which the guard does not count
  (`guard.ts:81`), and comes back with the next buy. With `Fill = {0, 2}` TLC finds
  `DeployedWithinCap` violated, so the hypothesis cannot be dropped.
* `OneTick` - a tick is over before the next one starts. `setInterval` does not ensure
  it; it holds while calls are faster than the interval. Without it two ticks that both listed
  a rule both fire it, and the theorems are false.
* `WholeExits` - the exits sell all that is held, as the armer stores them
  (`EXIT_SELL_FRACTION_BPS`).

**`FoldLemmas`.** Sums and folds are defined by a recursion over the subsets of a set. The
library's induction theorems take an operator as a parameter and cannot be used here; instead
a finite set of finite sets has a minimal member (`MinimalSet`, from the well-foundedness of
strict inclusion), so a least counterexample has none below it. From this follow what a
sum is after one element changed, that it is bounded by a bound of its terms, and what a fold
does at its last element.

**`RedisEventBusProofs`** - `TypeCorrect`, `NoEarlyAck` (`AckedWasSettled`), `AtMostOnce`
(`HandledAtMostOnce`), `Ordered` (`InStreamOrder`), `NoneLostWithoutFault`
(`NothingAbandoned`), `ImplementsDelivery` (`DeliverySpec`), for any finite set of consumers,
any batch size, any number of faults. `HandledAtMostOnce` is not inductive: it says
nothing of what a consumer is about to hand over. The invariant `IInv` (`BusInvariant`) adds
that batches are proper intervals of what was read, that they are disjoint, that nothing in
hand or unread has been handed to a handler but the entry being handled, and that what a
consumer last handled lies before its batch. With it, `NothingAbandoned` is inductive. The
refinement follows by showing which arrow of `Delivery` each action takes for each entry.

**`TradingEngineProofs`** - `TypeCorrect`; `OpenPositionsCapped` (`OpenPositionsWithinCap`)
under `OneBook`; `DeployedCapped` (`DeployedWithinCap`) under `OneBook` and `NoEmptyFill`. The
guard's check goes stale before the write; the invariants `CapInv` and `CostInv` say
why that is harmless: from guard to write the buy has its place *reserved* (with it, the open
positions, and the quote deployed in them, are still within the ceiling), only the buy loop
opens positions and it has one intent at a time, a sell that read an open position finds it
open when it writes, and sells only take cost away; a closed position has none left
(`Dustless`, for which `NoEmptyFill` is needed).
`TradedAtMostOnce` (`SettledAtMostOnce`) needs `OneFill`: between the trade and its result the
intent is held by one loop, and after it the cache has the result, so a redelivery does not
trade; a restart is what empties the cache. `BookFollowsFills` (`BookMatchesFills`): the
invariant `MatchInv` relates a token's book to its ledger in each phase of the fold under way -
the ledger is ahead by the fill of the loop that is folding, and what that loop has read
is the book.

**`WorkerProofs`** - for the runner, `TypeCorrect`; `TradesWithinAllowance` (`NeverRefires`) and
`RetiredForGood` (`StaysRetired`) under `OneTick`. The invariant `Affordable` is a budget: what a
rule has emitted plus what its stored state - or the copy in the tick's hands, or the plan
it is about to save - still allows never exceeds what it was armed for, plus one per crash;
`Listed` says that what a tick still has to do is active in the table too. For the worker,
`WorkerTypeCorrect`; `SnipedOnce` (`OneSnipe`) under `OneTick`: the snipe rule is stored once,
so its budget is one; `PositionKeepsStop` (`StopStands`) under `OneTick` and `WholeExits`, for
any prices, amounts and either kind of stop. Its invariant `StopInv` follows the one buy of a token
and the sale of it through topic, engine and armer: before the fill is handled the stop is to
come, after it the stop is stored, or a tick is about to sell, or the sale is on its way.

**`ExecutionProofs`** - for the pool, `TypeCorrect` and `RefusedOnlyAfterFailures`
(`UnavailableOnlyAfterFailures`). Typing already needs that the weighted choice finds an
endpoint: a finite set of credits has a largest one (`MaximumExists`). The
invariant `PoolInv` adds, for each request, that its attempts are the endpoints it tried and
that all of those but the one it waits for have failed, and that an endpoint which is down has
failed. For the executor, `ExecutorTypeCorrect`; `OnlyOwnSwapCredited`
(`CreditedOnlyOwnSwap`); `UnreportedNeedsLostCall` (`UnreportedOnlyByLostCall`), for any
orders, reserves and lost calls. What is mined has to be traced to who holds it: the
invariant `Custody` (`ExecutorInvariant`) says that mined transactions are those of the
nonces below the wallet's, one each, that a swap that was sent is the one its order
remembers, by nonce, and its order is waiting for it or past that, and that a sent swap
whose order is answered failed reverted or had a call lost - so the receipt that ends a
wait may be another order's, and the one that is read is not.

**`CopyTradingProofs`** - `NoBlockPassedBy` (`GapOnlyByFailure`), for any leaders, logs,
range, number of ticks and faults. The invariant `GapInv` also promises what a tick has
*read*: the blocks up to the cursor it starts from are accounted for, so that whatever
order the cursors are written in, back or forth, a range begins where the accounted
blocks end. `CopyBounded` (`CopyWithinMeans`): `HandInv` says how large the copy in a tick's
hands may be, from the policy's clamp and cap (`Evaluate`) for any rule that is `RuleOK`.
`CopiedOnceUnlessRaced` (`TwiceOnlyInRace`): until two ticks overlap, one is at work (`Alone`):
what it has read is the cursor, what it has in hand was not published, and what was published
lies behind the cursor; from then on `RaceInv` says that a swap that was published, was in
one tick's hands only and kept its mark is marked or about to be. `CapOverrunBounded` (`CapOverrun`, of
`StoreSpec`): calls that count before each other's store can pass the follow cap by one less
than their number and no more; the invariant `CapInv` bounds the wallets followed together
with those about to be. The runs have one leader and cannot reach the cap, so this one is
proved and not run.

**`ScannerProofs`** - `TypeCorrect`; `NonePassedBy` (`NoPoolPassedBy`), for any pools,
loops and faults: the cursor moves both ways, so the invariant promises for every range a
tick has in hand that what lies before its end was announced, was thin, or is in the
tick's own list. `TwiceForCause` (`TwiceOnlyWithCause`) counts loops: the publications
of a pool, with those that the ticks holding it have yet to make, never exceed its causes
by more than one, and not at all while nobody holds it and it is not seen. `LoopsBounded`
(`LoopsOnlyByHandover`): the loops alive are no more than the handovers and the one that runs.
For the shield, `ShieldTypeCorrect` and `AnswersAreRecent` (`AnswerIsRecent`): the invariant `ShieldInv` adds age and
remaining time - of a pending assessment they sum up to the timeout, of an entry to no more than
timeout and TTL. `DangerIsSeen` (`DangerSurvivesFaults`), for every token of
`World` and every mix of faults: the score is a weighted sum of the eleven factors
(`ScoreIsSum`, `SumWrittenOut`), each detector's loss under faults is bounded by its branches
(`CodeIsRead`, `OnlyCodeIsNotRead`, `NothingIsRead`), and the losses add up to less than 26
points of the 30 between `danger` and `safe`.

**`GatewayProofs`** - `BudgetKept` (`WindowHolds`): the invariant `HitKept` says that a
request let through is still in its caller's set or a request a whole window later has
been there; the step that lets one more through counts the window it belongs to, unless
it was overtaken. `RetriesSucceed` (`RetryAfterSuffices`): a promise (`Promises`) names a hit
that stays, and a set whose hits all stay is within the budget, so once the oldest is out there
is room. `AccessTypeCorrect`, `AlertTypeCorrect` and `DispatcherTypeCorrect` give the types.
`FeedTypeCorrect`, `NobodyRefusedEarly` (`RefusedOnlyWithCause`) and `SubscriptionsAreFed`
(`SubscribedMeansFed`) from the invariant `Sessions`: a granted client with an open socket is
registered, and only a granted reader has topics. `SpikesFire` (`GroupSpikeFires`): a signal
within the widest window of a rule is still in its series (`StillCounted`), and a series at its
threshold was answered by a firing (`AnsweredSpikes`); some replica has its share of a spike
by the pigeonhole principle. `PagedOnce` (`OnePagePerCooldown`). `RateHolds`
(`RateWithinTwice`): a window meets at most two refills, and between two a bucket's tokens and
those taken since sum up to the limit. `BookIsFold` (`BookMatchesFolds`): what a replica has read
is the book unless it was raced. `AnalyticsMatchBook` (`AnalyticsAgree`): trades folded in the
order of their times are the one chronological list of the log (`SortedUnique`,
`LogInOrderOfFolds`). `PagesLoseNothing` (`PagesComplete`): what was handed out is newer than the
cursor and what is left is older, in a total order.

Only model-checked: the liveness properties (`EveryEntryDispatched`, `EveryIntentAnswered`,
`ClosedExitsRetire`, `ProfitIsTaken`, `Rejoins`, `CatchesUp`, `EventuallyAnnounced`,
`GhostsReaped`, `DispatchReturns`), as fairness, and the `ENABLED` in it, is out of the
prover's reach; and the violations.

## What is left out

* Inside modelled parts: calldata and the quotes of other venues than a constant-product
  pool; several streams or groups (they share nothing); rules of several tokens in one
  runner (ticks treat them independently, in the code one after another); the worker's demo
  seed, live-mode gates and orderly shutdown; several venues of a scanner (they share only
  the set of seen pools, whose addresses differ); alert rules over several keys.
* Not modelled: the components marked so in `PROJECT.json`, each with its reason -
  keystore encryption, login and token signing are cryptography; the auditor and the
  metrics keep no state that a step reads again; the in-memory bus delivers inside
  `publish`; the AI engine, the dashboard and the domain types decide nothing here.
* Two hazards have no property: a sell fraction that rounds to nothing, and a rule carried
  from a paper to a live deployment; `PROJECT.json` says why.
* No application attaches the Shield or the notifications to the bus today
  (`attachShield`, `attachNotifications`); the models show what they do where they are.

## The plan

1. **Done.** The trading path (`RedisEventBus` / `Delivery`, `TradingEngine`,
   `Strategies` / `StrategyRunner`, `Worker`, `RpcPool`, `LiveExecutor`, `Scanner`), copy
   trading, the Shield, and the gateway with its alerts, each with its properties and,
   where the prover reaches, its theorems.
2. **Done.** Every invariant and action property of the runs proved for all values of the
   constants.
3. `Scanner` with several venues over one seen set, and its events through
   `RedisEventBus`'s promise into the worker's topics.
4. The login and the refresh of tokens, once they keep state.
5. Refinements worth proving: the worker's engine step by `TradingEngine`, and the worker's
   topics by `Delivery`.
