# Verification of Sovereign Monad

TLA+ models of the on-chain core of this repository, of its deployment, of its trading
pipeline and of the market agents and services around that, the TLC runs that check them
on small instances, and TLAPS proofs of the properties that matter most for every
instance. Paths are relative to the repository; line numbers of every
definition are in `PROJECT.json` under `map`.

## 1. The system

Two halves that share no state, and the scripts that put the first on a chain:

* **On chain (Solidity).** A *revenue rail* takes ether in at one contract,
  splits it by a policy and credits six sinks; governance operates every part of
  it. Every contract reports what it does to *Dove*, a permanent log.
* **Deployment (JavaScript).** A script deploys and wires the contracts and can be
  run again after a failure; another one replaces the bootstrap source of the rail.
* **Off chain (TypeScript).** A *trading pipeline* of services joined by Kafka
  topics: market agents publish prices, the scanner finds spreads, the
  opportunity constructor and the risk engine judge them, the portfolio manager
  limits exposure, bots execute. Beside it run monitors and alerting.

### Inventory

| Component | State | Operations | Interacts with | What is hard |
|---|---|---|---|---|
| `InboundReceiver` | router, pause, approved sources, list of inflows | `setRouter` (once), `setPaused`, `setApprovedSource`, two receive functions | calls the router with the ether | the record precedes the router's verdict |
| `RevenueRouter` | receiver, pause, lock, policy, registry of sinks, allocation history | `setReceiver` (once), `setPaused`, `registerSink`, `updateAllocationPolicy`, `processInflow` | calls six sinks one by one | one sink failing after others were paid; rounding; registry changed mid-life |
| six `RevenueSink*` | router, pause, total received; per sink: MEV's second caller, DataYield's target and phase, the founder and the draw pause | `setRouter` (once), `setPaused`, `receiveAllocation`, withdrawals, setters | DataYield calls MEV inside the router's call | two-hop transfer in one transaction; zero shares |
| `GovernanceController` | owner, executors | `execute`, `setEmergencyPause`, `setExecutor`, `transferOwnership` | calls any setter of the rail | executors outlive the owner who named them |
| `DoveCore` | owner, observers, list, log, two indexes, counter, status cache | `observe`, register, deactivate, reactivate, `transferOwnership`, queries | called by everything | several copies of one fact, updated one by one |
| `DoveAware` | – | `_observe` in a try/catch | every contract → Dove | the report may be lost and nobody notices |
| `DoveRouterObserver` | eight addresses, set once | `initialize`, `snapshot` | reads the rail | – |
| `EmergenceRecorder` | agents, claims, indexes | `registerAgent`, `recordClaim` | – | duplicate claims |
| deployment sequence (`scripts/phase1a-sequence.js`, `deploy-phase1a.js`) | checkpoint file, attached contracts | deploy or attach, register, wire; publish the checkpoint | node, chain, operator | crash between a transaction and its checkpoint, or inside the write of the checkpoint; transactions not waited for; a resumed run that crashes in its turn |
| handoff (`scripts/slot-source-handoff.js`) | – | approve or revoke the sources of its configuration, then revoke the bootstrap source | governance, chain | stopping between two transactions; authority that changes meanwhile |
| `monad-market-agent` | connection, endpoint, listener, check timers, last block | connect, reconnect, push or poll, fetch, publish | RPC nodes, Kafka | a connect loop without time limit, sockets refused before anything listens for it, an adapter older than the connection, checks of dead connections, overlapping handlers |
| `eth-market-agent` | connection, callback, pool object, last block | connect, reconnect, rebuild the pool, publish | RPC node, Kafka | two events of one socket each start a reconnect; a pool that is read before it is initialised |
| `spread-scanner` | last snapshot per chain, last fingerprint | join, emit when changed | Kafka | reordering, a failed send after the fingerprint is stored, what the fingerprint leaves out |
| `opportunity-constructor` | – | size a spread signal, publish a candidate | Kafka | messages before the first commit are passed over |
| `risk-engine` | gas price, cached | evaluate both modes, publish each | Kafka, RPC node | a crash between the two modes; both modes approved |
| `portfolio-manager` | exposure in memory | constrain, emit plan, book | Kafka | plan out before it is booked, restart, limits that are skipped |
| `monad-arb-bot`, `eth-arb-bot` | wallet, nonce | execute plan | Kafka, chain | redelivery, approval flag, nonce, a broadcast or a wait that fails although the transaction goes on |
| `bridge-exec-bot` | wallet | execute transfer with timeout | Kafka, chain | timeout racing the receipt, redelivery after a restart or because the wait outlasts the consumer's session |
| `stress-monitor` | gas history, last block, last pool balance | poll: gas, block times, pool | RPC node, Kafka | polls overlap, answers out of order, a send that fails before the balance is stored |
| `alert-rules` | cooldown per rule | evaluate an event, alert | Kafka, Discord, Slack | the cooldown starts before the delivery |
| `model-feedback-logger` | a file | append | Kafka | – |
| operator tools, `monitoring/*.py`, `sovereign-site`, `*.ps1` | – | reports, web pages, outreach | – | out of scope |

What makes each correct, in a sentence: the *rail* neither loses nor invents a
wei, an inflow arrives whole or not at all, the treasury keeps its floor, and
wired addresses stay; *Dove*'s copies of the log agree, nothing is taken back,
and every change of registry or owner is in the log; *governance* is exercised
only by whoever holds it now; a *deployment* that calls itself complete is wired
wherever it was interrupted, and the rail never loses its last source on the way; the
*agents* do not go deaf, publish a block once and say of a price what it is; the
*scanner* tells what it knows; an *executor* that waits for a
receipt reports as success only what the chain has done (with the relay, which is not
waited for, what was accepted), and moves assets again only when it reads its request
again; *monitors* and *alerts* are never silent for
longer than they may be; the *pipeline* trades
only what was approved, passes nothing over, repeats a trade only for a reason, and
keeps books that agree with its plans.

## 2. Modules

| Module | What it is |
|---|---|
| `AllocationMath` | the policy, its acceptance test and the split of an amount (`updateAllocationPolicy`, `_calculateAmounts`) |
| `RevenueRail` | receiver, router, six sinks and governance's operations, call by call |
| `RailLedger` | what the rail promises: a deposit is spread over the sinks to the wei, payers pay out of what they hold |
| `MCRevenueRail` | the instance TLC checks: policies, registrations |
| `DoveCore` | the log, its registry and owner, and contracts that report through the try/catch |
| `DoveWitness` | what Dove promises: one entry at a time, by an active observer, and an entry for every change of registry or owner |
| `Messaging` | Kafka topics, positions, committed offsets, sends that go wrong, restarts, reassignments |
| `RiskEngine` | opportunity constructor and risk engine, from signal to evaluations |
| `PortfolioManager` | constraints, plan, send, booking |
| `ArbBot` | the Monad bot: trade, report |
| `TradePipeline` | the four services composed, their restarts and reassignments, and the fairness |
| `AtLeastOnce` | what a consumer promises: what is published is carried out, in order, at least once |
| `MCTradePipeline` | what the documentation says of the books, and liveness, for TLC |
| `MonadRpc`, `MonadMarketAgent` | the Monad agent: its WebSocket client, and on top of it start-up, the life of the process, blocks, prices and publication |
| `EthMarketAgent` | the Ethereum agent: client, pool and blocks |
| `SpreadScanner` | latest snapshots, spread, fingerprint, signal |
| `BridgeExecBot`, `EthArbBot` | the two executors that send transactions |
| `StressMonitor`, `AlertService` | the three checks of a poll; rules and cooldowns |
| `MCServices` | the six modules from `EthMarketAgent` to `AlertService` side by side, for TLC |
| `Phase1aDeployment` | the deploy script, its checkpoint, the handoff, the governance of both, and the chain with its pending transactions |
| `MCDeployment` | sinks of the instances TLC checks, and the sources of the shipped example configuration |
| `Sums` | the sum over a list that a getter or a book computes in a loop |
| `Sums_proofs`, `RevenueRail_proofs`, `DoveCore_proofs`, `TradePipeline_proofs`, `MonadMarketAgent_proofs`, `EthMarketAgent_proofs`, `Services_proofs`, `Phase1aDeployment_proofs` | the theorems and their proofs |

### RevenueRail and the code

`receiver`, `router`, `sinks`, `dataYield`, `mevSource` and `founderCtl` are the
storage of the contracts that governance sets. An inflow is a single Ethereum
transaction of up to eight nested calls, and its hazards lie between those
calls, so it is modelled in steps: `ReceiveInflow` (`_receiveInflow` up to the
router's call), `ProcessInflow` (the router up to the first sink), `Route` (one
`_route`, with DataYield's forward to MEV inside it), `FinishInflow`. They work
on `book`; `committed` is what the chain holds. `Revert` is any failing
`require`, or running out of gas: the book is thrown away. Where a call would
certainly fail, its step is not enabled and `Revert` is the only step left.
Nothing else runs while a transaction does, as on the chain; every other
operation is one step between transactions.

`Init` is not the finished deployment alone. `WiredUpTo(k)` is the rail after the
first `k` of the seventeen wiring operations of `phase1a-sequence.js`, and a
configuration chooses which `k` to start from, so that traffic meets a rail that
is half wired.

What governance may register as a sink is one of the six sinks of the deployment, in
any role, or a contract that was replaced before and answers to no router. A further
sink deployed later, wired to this router and registered (`registerSink`, line 146), is
outside the model: `EveryWeiRouted`, `ImplementsLedger` and the theorems on them are
about rails without one.

Left out: inflow identifiers, labels, metadata, timestamps, events. The reports
to Dove cannot change a transaction's outcome and are the subject of `DoveCore`.
Zero-address checks are in the sets the arguments range over.

### DoveCore and the code

One action per function. `observe` and `_selfObserve` store an entry with the
same statements, so both are `Logged`: log, counter, the two indexes, the
caller's count and the status cache. The caller and the source it names are
different parameters, as in the code, and an observer may use any event type,
Dove's own included. `ActWitnessed` and `ActUnwitnessed` are a contract doing its
work and calling `DoveAware._observe`: the second is the empty catch, taken when
Dove refuses (inactive observer, payload over the limit) or when the gas left for
the call does not suffice. `acted` counts what contracts did while they were
active; it exists for one property and no guard of the contract reads it.

Left out: payload bytes, labels, block numbers, timestamps. Payloads that Dove
writes itself are shorter than its limit (an address or two, a label of at most 64
bytes), so `_selfObserve` always writes.

### The trading pipeline and the code

Each service is one process that handles its inbox message by message; a module
extends the one upstream of it and adds its own memory. An action is a stretch of a
handler between two awaits: `Construct` is the whole of the constructor's handler,
`EvaluateMode` one turn of the risk engine's loop, and the portfolio manager's
handler is `AcceptEvaluation`, `EmitPlan`, `UpdatePortfolio`, so that a failure
falls between the plan and its booking. `RefuseEvaluation` is the early exit. The
bot's is `ExecuteTrade`, `EmitResult`; `executeTrade` is a placeholder in the code and
a trade is a call of it. All handlers catch every error, so that a message is
handled whatever happened (`Handled`), and a failed send ends the handler.

`Messaging` is external: kafkajs and the broker, as the services use them. A send
appends; or fails; or appends and reports failure, its answer lost; or appends twice.
A topic only grows, and no service has a rival in its group. When offsets are
committed is the library's affair, and matters only when an inbox is read again:
so `ReadAgain` chooses there among all offsets that may have been committed by then
(`Committed`), which is the same as committing at any earlier moment and far fewer
states. Without a committed offset, reading resumes behind the last message
(`fromBeginning: false`). `Restarted` loses the service's memory: the books, the
plan in hand, the place in the loop. `Rejoined` keeps it.

Sizes are percentages of the portfolio. The risk engine's verdict is floating point
(spread decay, Kelly size, gas, four thresholds) and is a choice here: a size up
to the suggestion, approved or not, and never approval of nothing.

Left out: keys, venues, directions and time windows, which no guard reads; the
approval threshold's arithmetic; `chainExposure`, which is configured and initialised
but neither updated nor read, so that the README's chain limit has no code. A
comment of the constructor (`service.ts:110`) has the suggestion as a minimum with
`minSizeUsd`; the code, and the model, refuse below that size instead.

### The market agents and the code

Both agents are single processes whose handlers interleave at every await, so an action
is a stretch between two awaits, as above, and several handlers of blocks may be in
progress (`fetching`, `handlers`). Connections are numbered as they come. In `MonadRpc` one
reconnect runs at a time, because the close listener belongs to an established
connection. A turn of the loop in `connect` awaits the answer to a test of the connection
(`rpc.ts:98-108`), without a time limit and before anything listens to the socket, so it
has four ends: `ConnectSucceeds`; `ConnectFails`, an answer that is an error, after which
the endpoints rotate; `ConnectHangs`, no answer, after which nothing happens any more; and
`ConnectRefused`, a socket that cannot be opened, which is an uncaught exception and ends the
process (`index.ts:57-60`), so that the next one begins with the first endpoint.
`CheckFires` the timer that looks, five seconds after a subscription, whether a block
has come, and falls back to polling. In `EthMarketAgent` nothing keeps reconnects apart:
`Reconnect(n, ..)` is what the listeners of one socket event do, `callback` the block
callback, `loops` the attempts in progress, of which one may have saved the
callback to set it again. `HandleNewBlock` is a handler up to its first await; it remembers the block
before it waits, which is what keeps a block from being published twice.

A price is abstracted to what may be wrong with it: read or generated (Monad), the
right way round or not (Ethereum). Volatilities are left out. A node is external: it may
refuse, stay silent, lose a socket, lose a call, answer a
call of a dead connection with an error, push blocks or not. A connection that is open and
silent is not noticed by the code, and is not a fault here: an endpoint in `Pushing` pushes.
Restarts are those of the container (`docker-compose.yml`: `unless-stopped`,
`docker-compose.prod.yml`: `always`). `docker-compose.testnet.yml` says `on-failure`, and since
the shutdown after an uncaught exception exits with code 0 (`index.ts:49`), the container is not
started again there: the liveness property is not about that file.

### The services and the code

The services share no state and meet in topics. Each module leaves open what its service
reads (any message may come at any time, a failed send may or may not have arrived, a
restart may read an inbox again), so that one service is checked in every environment
the others could be. `MCServices` therefore lets each behaviour run one of them; a
composition would only multiply the states. `ServicesRunAsSpecified` proves that it is
no other specification that is checked there.

`SpreadScanner` is one asset, as assets do not interact. Prices are whole numbers of a small
unit, so that the fingerprint rounds as `toFixed` does: a price to `PriceStep` units, the
spread to hundredths of a basis point; like the code's it leaves the volatilities out.
`BridgeExecBot` and `EthArbBot` handle an inbox in order; `transfers` and `swaps` are what
they have sent to the chain, which executes, reverts or forgets it at any time, before or
after the bot has stopped waiting. A broadcast may fail although the node has taken the
transaction, and a wait may be given up while it is pending. An inbox is read again from an
earlier offset after a restart (`BridgeRestart`, `ArbRestart`) and after a rebalance
(`BridgeRejoin`, `ArbRejoin`): a handler that waits, up to 120 s for the bridge
(`bridge-exec-bot/src/config.ts:37`) and without limit for the receipt of a swap, sends no
heartbeat, while a session of kafkajs lasts 30 s unless configured. `StressMonitor` has a program counter per poll,
since the timer starts polls whether or not earlier ones are done. `AlertService` counts
time in fractions of a cooldown; its deliveries never throw and are a step of their own.

### Deployment and the code

`Steps` is the script as data: which contracts it deploys and which slots of which
contract it writes, in the order of `phase1a-sequence.js`, and how it treats a slot that
holds something else (skip, overwrite, throw). The actions interpret a step as
`attachOrDeploy` and the helpers around it do: `AttachResumed`, `SendDeployment` and
`Deployed` are a deployment with its receipt and the checkpoint written after it;
`WriteStep` reads the slot and sends the transaction it needs, for which the script does
not wait. The chain mines in the order of nonces and may lose what is pending. `Run` is
the operator starting the script, which reads the checkpoint; whatever ends the process
empties its memory and leaves the file, except that `Interrupted` may come while a file is
written: `writeFileSync` truncates first, and half a checkpoint (`torn`) or half a final
report is left. `Run` is not enabled on half a checkpoint, whose `JSON.parse` throws
outside the script's `try`. `HandoffStarts` to `HandoffStops` are the cutover
script, which needs a final report and nothing else, runs through the sources of its
configuration in their order, approved or not and the bootstrap source possibly among
them, and waits for every receipt. `Govern` is what governance may do meanwhile, at any time:
`setExecutor`, `transferOwnership`, and `execute` with a `setApprovedSource` of its own. There is a
controller, with an owner and executors, for every time one is deployed; a transaction whose
sender has lost authority is refused when it is mined.

Left out: addresses and code other than by the number of the contract; gas; the `isActive` flag of a sink
(a sink that is switched off is the subject of `RevenueRail`); a
`PHASE1A_RESUME_REPORT` that points elsewhere, and an operator who repairs or deletes a torn
checkpoint. The operator runs one of the two scripts at a time. `SinkOrder` is one order where the
script has two (the founder's and the delegate sink change places between deploying and
wiring); no step depends on the order of two sinks.

## 3. Runs

| Run | Shows | Bounds and why they suffice |
|---|---|---|
| `revenue_rail` | `EtherInFlight`: between any two calls the ether not yet in a sink is with the contract whose turn it is. `SinkBooksBalance`: a sink's received total is its balance plus what left it. `HistoryMatchesInflows`, `TreasuryFloorInHistory`: both histories tell the same story and the floor held every time. `EveryWeiRouted`: balances and withdrawals add up to the inflows. `WiringLocked`. `ImplementsLedger`: the whole is the ledger. | Two inflows (one before, one after a change), three governance operations, one withdrawal per sink. Inflows of 0 (rejected), 7 wei (DataYield's share rounds to nothing: failure at the fourth sink, after three were credited) and 39 wei (largest rounding remainder for the founder). Starts after 6, 14, 16 and 17 wiring operations: sinks without router, MEV not yet accepting DataYield, all but the sources, all. |
| `founder_hard_cap` | The document's "hard cap" is violated: see findings. | One inflow of 20 wei, the smallest that reaches every sink. |
| `dove_core` | `IndexesAgree`, `StatusAgrees`, `RegistryAgrees`, `EveryEntryCounted`: the copies of the log agree. `PagesTileLog`: paging returns the log for every page size. `HistoryPreserved`: records only grow. `ImplementsWitness`. | Two contracts beside Dove, two owners, an event type of the contracts and one of Dove's, four entries: enough for register, deactivate, reactivate and a report, or two double deactivations. |
| `dove_active_count` | The status cache may count too few active observers: see findings. | As above, five entries. |
| `dove_invisible` | An act may leave no trace: see findings. | As above. |
| `trade_pipeline` | `EveryTradeJustified`: every trade goes back to a signal within all sizes and limits. `BookedWithinLimit`. `BooksFollowPlans`: the books never overstate the plans, and equal them while nothing went wrong. `RetradedOnlyAfterReplay`: a plan is traded once, and once more per reading of an inbox. `ImplementsAtLeastOnce`. `EveryPlanTraded`, `EveryCandidateEvaluated`: nothing stays undone. | One signal and any two faults (send, restart, reassignment, of any service). A second bridge trade, which the limit needs, comes from a replayed evaluation. Capacities of 1 (refused as too small), 2 (fits the limits) and 4 (a trade to be cut). The constructor's group starts without an offset, the others with one. |
| `monad_market_agent` | `NeverDeaf`: a running agent with a connection polls or has a listener that works or is being checked. `OneSnapshotPerBlock`. `BlocksHeardAgain`: after every failure blocks are heard of again, unless a test of a connection is never answered; it takes an accepting endpoint ahead of every refusing one, as each refusal ends the process and the rotation starts over. | Four endpoints: one answers its test with an error, one accepts and does not push blocks, one does, one refuses. Two faults of any kind, a test that hangs and a refused socket among them: enough for a check of a dead connection to meet a new one, for the rotation to pass every endpoint it can, and for the process to die in the middle of it. Three blocks; a market read through MON and the MON market itself. 93 000 states. |
| `synthetic_prices` | Generated prices on a healthy connection: see findings. | As above. |
| `services` | `FeedWatched`, `BlockPublishedOnce`, `OrientedUntilRebuilt` (Ethereum feed). `SignalTracksMarket`: the readers of the topic know direction, capacity, prices and spread to the digits of the fingerprint. `SuccessMeansMined`, `MovedOncePerRead` (executors): see their comments for the relay and for what makes a bot read again. `OneAlertPerWindow`. `DrainNeverSilent`. | Feed: four connections, three faults (both events of one socket and a failed rebuild), two blocks. Scanner: six snapshots, which differ in volatility only, in less than a fingerprint tells apart, by a small and a large spread, and in a liquidity that is too small; two signals, two failed sends or restarts. Bots: two requests or plans, any two of a restart, a rebalance, a failed call or send. Monitor: three overlapping polls, balances 15 %, 29 % and 40 % apart. Alerts: two topics, four units of time with a cooldown of two, one restart. 2 292 000 states. |
| `deployment` | `CompleteMeansWired`: a completed deployment is wired once its transactions are mined, whatever earlier runs left. `RecordedBeforeUsed`: nothing is wired before a checkpoint lists it. `SurvivesOneInterruption`: one crash between two writes of files, or one loss of transactions, does not keep it from completing; half a checkpoint, and a lost deployment that is being awaited, do. `AlwaysASource`: an orderly handoff does not take a receiver's last source. | The two sinks that depend on each other; the two sources of the shipped example, the bootstrap source among them, and revocation on; two pending transactions, so that a write is behind an unfinished one; two interruptions, losses or calls of governance. 1 130 000 states. |
| `checkpoint_forgets` | A resumed deployment deploys a contract again: see findings. | All six sinks, the sources of the example, three pending transactions, two faults. |
| `exposure_after_restart` | Bridge plans add up to more than the limit: see findings. | Two signals, or one and its replay, and one fault. |

The runs switch deadlock checking off because the bounds on inflows, operations,
entries, signals, blocks, polls and faults stop the model; the contracts themselves may
be called for ever, and the services run for ever.

Every property of a passing run is also shown to be breakable: `PROJECT.json`
lists for each one a mutant of the code (a dropped check, a missing rollback, an
index with the wrong key) under which TLC finds it violated. The mutated
definitions stand beside the originals and nothing uses them.

**Fairness.** For the pipeline, weak fairness of each service's steps: a consumer
polls for ever, an `await` of a send or of a fetch ends (kafkajs and the fetch have
timeouts), and `docker-compose.yml` restarts a dead process (`restart:
unless-stopped`). Nothing is assumed of the publisher, and faults are never fair.
`EveryCandidateEvaluated` is stated for runs without failed sends, because a send
that fails for good drops the evaluation by design.

For the Monad agent, weak fairness of the turns of the connect loop whose test is answered,
with success, an error or a refusal, of the timers of its checks and of its start-up; a test
that is not answered ends it all, and `BlocksHeardAgain` says that nothing else does.
Nothing is assumed of the pushes of a node or of the arrival of blocks. For the deployment,
weak fairness of one thing: that something goes on while the script can take a step (it
waits for nothing but receipts), the chain has something to mine, or there is a failed
script for the operator to run again, as the runbook tells him. Governance and the
handoff are never fair.

For the contracts and the other services none is assumed. Contracts do nothing until
somebody calls them, and an inflow is a transaction that ends within its block: there is no
scheduler whose promises a liveness property could rest on.

## 4. Proofs

TLAPS checks the following for every value of the constants that satisfies
the assumption of its module (`RailAssumption`, `DoveAssumption`, and so on): any set
of amounts, policies, sources and registrations, any number of inflows, observers,
entries, endpoints, connections, polls, sinks, pending transactions and faults.

* **The split** (`RevenueRail_proofs`, first part). `SplitIsExact`, `TreasuryFloorHolds`,
  `FounderCapHolds` for every accepted policy and every amount. They rest on the
  bounds of one rounded share (`ShareBounds`) and a bound on products. The
  founder's exact cap does not hold: rounding may add less than five wei.
* **The rail** (`RevenueRail_proofs`). Neither `EtherInFlight` nor
  `HistoryMatchesInflows` is inductive alone: to add a record to the history one
  must know that the shares of the transaction in progress are the split of its
  amount under the current policy, and that the committed history and the book's
  differ by exactly that transaction. The invariant `RailInv` adds these facts;
  `RailInvariant` proves it, one lemma per action, and the theorems on the
  separate properties follow. `RailImplementsLedger` shows that every step is a
  deposit, a payout or a stutter of the ledger: `FinishInflow` is the only step
  that deposits, and the sum of the sinks' gains is the inflow because nothing
  is left unrouted. `EveryWeiIsRouted` is inductive together with `RailInv`: the inflow
  that `FinishInflow` commits is the next term of the getter's sum, and what the sinks
  gain by it; a payout moves ether between the other two sums, and a forward from
  DataYield to MEV is received by one sink and paid by another (`FinishRoutes`,
  `PayOutRoutes`).
* **Dove** (`DoveCore_proofs`). `DoveInv` is the conjunction of the type invariant,
  `IndexesAgree`, `StatusAgrees`, `RegistryAgrees` and two facts about records (Dove
  is known; an unknown address has no count). The hard part is the cached active
  count, which the code lets drift: what is provable, and proved, is that it never
  exceeds the number of active observers. `EveryEntryIsCounted`: an accepted report changes
  one term of the sum by one, that of its caller, because the list names an observer once
  (`EntryCredited`); a registration appends a term and credits Dove with its own entry.
  `PagesAlwaysTile` is about `getObservations` alone: after `k` pages of any length a reader
  has the first `k` times `limit` entries, or all of them (`PageStep`).
* **The pipeline** (`TradePipeline_proofs`), for every number of signals and
  faults, every set of sizes and every limit. `TypeInv` adds to the types that a handler
  which has not returned still has its message; each step also shows that topics
  are only extended (`Sound`), so that what justified a message once does so for
  good. Provenance needs the plan in hand to be justified already when it is
  decided on. The bridge limit needs `PlanInHandFits`: exposure plus plan in hand is
  within the limit from the decision to the booking, because nothing else is booked in
  between. `PipelineAtLeastOnce` rests on `CarriedOut` (everything before the
  bot's position is traded, and the offset is never ahead of the position) and holds
  for a bot whose group has an offset. `PipelineRetrades` counts: a trade at or
  before the position is the first, every other one has a reading of its own.
  `PipelineBooksFollow` needs `FollowInv`: between a plan and its booking the books are
  behind by the size of the plan in hand and no more, the plan in hand is the last of the topic
  while no send has gone wrong, and plans are numbered in order, so that a plan that a
  send has doubled is counted once.
* **The Monad agent** (`MonadMarketAgent_proofs`). `NeverDeaf` needs `CallbackKept`: a
  started client has its callback, so that a reconnect subscribes again. `OneSnapshotPerBlock`
  needs `OneHandlerPerBlock`: what is fetched or published for one block belongs to one handler,
  and no block is newer than the last one remembered.
* **The Ethereum agent** (`EthMarketAgent_proofs`). `WatchInv` follows the callback: it
  is set or saved by a reconnect in progress; a watched connection has its listener and is
  open or has its close event still to come; and when no reconnect is in progress, the
  connection in use is watched. The orientation of prices (`OrientInv`) needs that the first adapter is initialised
  before anything is subscribed to.
* **The services** (`Services_proofs`). `ScannerInv`: while no send has gone wrong, the
  fingerprint is that of the last signal of the topic, and of the signal of the latest
  snapshots when they make one; equal fingerprints are equal directions, capacities and
  digits, which is what the theorem says and all it could. `DrainInv`: a poll that has sent its drain has done so down to the balance it will remember.
  `BridgeInv` and `ArbInv`: a success in hand names a transaction that is executed, for the
  request in hand (`HandMined`, `HandSwapped`; with the relay it names one that was
  accepted), and what was sent is counted in the readings of its request, these in the
  restarts and rebalances (`TransfersCounted`, `SwapsCounted`). `AlertInv`: a rule's
  cooldown started when its last alert was sent.
* **The deployment** (`Phase1aDeployment_proofs`). That nothing is used before it is
  recorded rests on a fact about the script as data, `StepsOrdered`: every step uses
  contracts of earlier deployments only. It follows from `StepPlaces`, which says which step
  is where for any list of sinks. The invariant `RecordInv` adds that the
  contracts of all deployment steps passed are attached, and that what is attached is
  recorded. `AlwaysASource` needs `SourceInv`: while the configuration is orderly and
  governance has revoked nothing itself, every lasting approval behind the handoff has been
  stored at the receiver of its report, and a pending revocation is one of the
  configuration's, of a receiver that has a lasting source already. That holds because the
  handoff waits for every receipt, its transaction being the last one sent (`HandoffInv`).
  The bootstrap source may be among the sources; the configuration must be orderly
  (`Orderly`), which the script does not check: with one that revokes first, or that
  revokes the only source it approves, the last source does go.

  `DeploymentIsWired` is the hardest of all, as the script does not wait for its writes: a
  run may find pending what earlier runs sent, and must not be misled by it. Its invariant
  has these parts, each of which TLC found to hold on instances like the
  `deployment` run before it was proved.
  - `ScriptInv`: the contracts attached are those of the deployment steps passed, and the
    checkpoint lists them.
  - `BoundInv`, `AwaitInv`: nobody knows the number of a contract that does not exist;
    the deployment waited for is the last pending transaction, and the pending deployments of
    its key, counted, will give it the number it was promised. This is where the nonces matter.
  - `PendingInv`, `FactShape`: what is pending is a write of the script or an approval or
    revocation of a source, between existing contracts; it agrees with every
    system that a run or a checkpoint may still continue, never contradicts another
    pending write of the same slot, and a write-once slot it is meant for holds nothing else.
  - `LineageInv`: the one write that names all contracts, the initialisation of the
    observer, names those of the system the observer belongs to.
  - `SettledInv`: unless the node lost something or the chain refused something to a deployer
    without authority, every write behind the script is stored or pending, the approval of
    the bootstrap source excepted where somebody may revoke it. At the end nothing is
    pending, and this is `Wired`.

  The number of observers is then a bijection between the registered keys and the facts in
  Dove's slot (`ObserversCounted`). The theorem needs what the code has and a weaker
  assumption would not say: `SINK_REGISTRY` (phase1a-sequence.js:4-11) lists six different keys,
  none of them that of another contract, and a receiver's router is not one of its
  sources (`DeploymentAssumption`). Of the sources it assumes nothing else.
* **Sums** (`Sums_proofs`). The library's induction theorem takes a predicate, which no
  installed prover can instantiate. `InductionOnNat` states it of a set of numbers
  instead, and follows from the well-foundedness of the naturals. With it, and since a
  recursive function is the choice of a solution of its equation, `SumsExist` and
  `SumsAgree` show that there is a solution and only one; the rest are the equations the
  three properties about sums use: the next term, a term changed, terms alike. The pages of
  Dove are proved in the same way (`PagesSolved`).

Every invariant and every action property that a passing run checks, the refinements
included, is the statement of a theorem. Only model-checked are the four liveness
properties, `EveryPlanTraded`, `EveryCandidateEvaluated`, `BlocksHeardAgain` and
`SurvivesOneInterruption`: they rest on fairness, hence on ENABLED, which is out of the
prover's reach.
The six violation runs are counterexamples and have no theorem.

## 5. Findings

1. `RevenueRouter.registerSink` (line 146) lets governance register the founder's
   sink under another name; the founder then draws more than 5 %.
   `docs/sovereign_monad_MOF_v2.3.0.md:1146` says no override pathway exists.
2. `DoveCore.deactivateObserver` (line 312) decrements `activeObservers` for an
   observer that is inactive already. The cache that dashboards read is then wrong
   for good, and once it is at zero no observer can be deactivated.
3. `DoveCore.sol:13` says no action is invisible to Dove; the try/catch of
   `DoveAware.sol:26` makes an action invisible whenever the report fails.
4. `portfolio-manager/src/service.ts:14` keeps the exposure in memory and starts
   with none, so that after a restart the limit of `portfolio-manager/README.md:8`
   ("Max bridge exposure: 30%") admits a second limit's worth of bridge trades.
5. `monad-market-agent/src/agent.ts:77` builds the adapter once, with the first
   connection. After a reconnect it reads through a connection that is gone, and every
   price is generated although `adapters/kuru.ts:321` says of such a price that "on-chain
   data [is] unavailable". (The Ethereum agent rebuilds its adapter.)
6. `scripts/phase1a-sequence.js:78` writes to the checkpoint only what the current run
   has attached. Interrupted again, a resumed run leaves fewer contracts in the file than
   it found, and the next run deploys the others anew, against
   `docs/PHASE1A_DEPLOYMENT_SEQUENCE.md:134` and `test/phase1a.expansion.js:33`.

Observations that contradict a text of the repository and have no run of their own:

* `monad-market-agent/src/utils/vol.ts:57` wants one price more than a window has samples, and
  lines 28-33 keep as many prices as the longest window has: the volatility of an hour is 0 for
  ever, although `vol.ts:92-95` promises "volatility estimates for all windows" and
  `config.ts:108` sets the window to an hour.
* The Ethereum agent may publish prices the wrong way round after its adapter was rebuilt
  (`agent.ts:45-58`), against `adapters/uniswap.ts:60` ("we must invert"): a block is handled before the
  new pool is initialised, and a failed initialisation is not repeated.
  `OrientedUntilRebuilt` says until when they are right.
* `docs/SLOT_SOURCE_HANDOFF.md:53-54` asks to "verify it can receive inflow" and to revoke the bootstrap
  source "only after the live source is confirmed". With `revokeBootstrapAfterCutover` the
  script revokes in the same batch as it approves (`slot-source-handoff.js:78-87`), before anybody
  can have verified anything.
* A kill inside `writeFileSync` (`deploy-phase1a.js:23`) leaves half a checkpoint, and every
  rerun throws in `JSON.parse` (line 18, called at line 34) until somebody repairs it, against
  `docs/PHASE1A_DEPLOYMENT_SEQUENCE.md:134`. `SurvivesOneInterruption` excludes it.

Observations where no text says otherwise: a connection test without an answer stops the
Monad agent for ever (`rpc.ts:98-108`), and endpoints behind one that refuses are never
tried; deploying again after a cutover approves the bootstrap source again (the last
step of the script); after a failed send the scanner suppresses the repetition of the
signal that was lost, and a change of the volatilities alone is never sent, although the
opportunity constructor reads them; a bridge transfer whose confirmation comes too late is
reported as failed and mined all the same; waits longer than the session of a consumer make it
read, and move assets, again; the Ethereum bot does not look at a plan's approval, and
reports a bundle's acceptance as success.

## 6. Not modelled, and what is left

Worth adding, in this order:

1. `RevenueRouter.isActive` in `Phase1aDeployment`: a resumed run keeps a sink that
   governance has switched off.
2. The feeds and the scanner as the source of the pipeline's signals, which
   `TradePipeline` leaves open; snapshots of both feeds may be late and out of order.
3. A sink deployed later and wired to the same router, in `RevenueRail`.
4. `EmergenceRecorder`: an append-only registry with one writer and no interaction
   between two records.

Not modelled, with reasons: the Monte Carlo engine and the arithmetic of prices,
volatilities and Kelly sizes (floating point: their verdicts are choices, bounded as in
the code); the decoding of the DEX and RPC adapters; `monitoring/alert-rules.ts`, which
repeats the rules of `AlertService` without state and is imported by nothing; the
snapshot of `DoveRouterObserver` and the operator tools other than `verify-phase1a.js`,
which read and print; `model-feedback-logger` and `monitoring/*.py` (input and output
without state of their own); interfaces and test doubles; the web site; the outreach
scripts.
