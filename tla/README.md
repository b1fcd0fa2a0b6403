# Tradebaas: a TLA+ development

Tradebaas trades one Deribit instrument with one strategy at a time: it analyses
ticks, opens a position with a stop and a target, records the trade, watches the
position until it is closed, and starts again. This directory holds TLA+ models
of the parts in which ordering, failures, restarts and numeric edges decide whether
that works, the TLC configurations that check them, and proofs checked by TLAPS.

Paths below are relative to `src/apps/backend/src/` unless they start with
another directory. `PROJECT.json` names, for every definition, the lines it
models, and lists runs, mutants, findings, hazards and theorems.

## 1. Inventory

| Component | State it keeps | Operations | Interacts with |
|---|---|---|---|
| `lifecycle/StrategyManager.ts` | lifecycle state in memory, `strategy-state.json` | seven transitions, `initialize`, `cleanup`, `reset`, `saveState`, `loadState` | `api.ts` and `recovery/` call it; the file system |
| `strategies/razor-executor.ts` | status, `currentTradeId`, cooldown, candles | `onTicker`, `executeTrade`, `maybeAdjustStops`, `checkPositionAndResume`, `reconcileStateOnStartup`, `forceResume` | Deribit client, trade history |
| `services/trade-history.ts`, `SqlTradeHistoryStore.ts` | trade records | `recordTrade`, `closeTrade`, `updateOrderIds`, queries | written by executor, reconciliation, order lifecycle |
| `services/reconciliation-service.ts` | a timer; snapshots inside a check | `runCheck`, `verifyProtectiveOrders`, `checkReverseOrphans` | Deribit client, trade history |
| `services/order-lifecycle-manager.ts` | none of its own | `cleanupTradeOrders`, bulk and periodic cleanup; emits `tradeClosed` | Deribit client, trade history, state manager, executors |
| `strategy-service.ts` | executors, client, timers | `initialize`, `connect`, `startStrategy`, `stopStrategy`, `closePosition`, `reconcileAllOpenTrades`, `shutdown` | everything above |
| `state-manager.ts` | strategies, connection, disclaimer in one JSON file | one setter per field, `save`, `cleanupStoppedStrategies` | strategy service, order lifecycle |
| `deribit-client.ts` | socket, pending requests, subscriptions, reconnect counter, circuit breaker | `connect`, `sendRequest`, `handleMessage`, `scheduleReconnect`, `subscribeTicker` | all trading components |
| `recovery/RecoveryManager.ts` | none of its own | `recover` | StrategyManager, broker |
| `orchestrator/` | queue, workers, entitlements | start and stop a runner, spawn and restart workers, health check | `strategy-runner/` in child processes |
| `strategy-runner/` | one worker's position, orders, risk counters, state store | tick, order placement, position monitor, reconciliation | orchestrator, broker |
| `user-strategy-service.ts`, `services/user-strategy-repository.ts`, `user-broker-registry.ts` | strategies and broker clients per user, database rows | connect, disconnect, start, stop, auto-resume | database, Deribit clients |
| `brokers/DeribitBroker.ts` | client, active orders | `placeOCOWithRiskManagement`, single-position guard, orphan scan, `reconcileState` | Deribit client |
| `risk/PositionSizer.ts`, `strategy-runner/RiskEngine.ts`, browser `riskEngine.ts` | none (pure) | position size, leverage and margin limits | brokers, runner, browser |
| `strategies/thor-executor.ts`, registry | status, current trade, candles | like Razor, with the order lifecycle manager for clean-up | strategy service |
| `services/auth-service.ts`, `user-credentials-service.ts`, `encryption-service.ts` | accounts, roles, encrypted credentials | register, log in, administer, save and load credentials | PostgreSQL, routes |
| `credentials-manager.ts`, `kv-storage.ts`, `notifications/telegram.ts` | `.env`, `process.env`, key values with expiry | save and delete credentials, configure alerts | routes, file system |
| `migrations/run-migrations.ts` | schema versions of both databases | migrate, roll back, version | PostgreSQL, SQLite, next to a running server |
| `server.ts`, `api.ts`, health | sockets | routes, start and shutdown order | everything |
| metrics, WebSocket feed, scripts, deployment | counters | formatting, one-shot commands | nothing depends on them |
| frontend `lib/deribitClient.ts` | sockets, timeouts, subscriptions | connect, reconnect, stale check, requests with retries | Deribit |
| frontend `lib/orders/`, `lib/strategies/` | tracked positions, timers | place entry, stop and target; verify, roll back, sweep | frontend client |
| frontend `state/store.ts` | shown connection, strategy, position | connect, kill switch, start, stop, close; three polls | backend API |
| frontend `components/`, `hooks/` | what is on the screen | overlapping polls; close, delete and toggle buttons | backend API |

### What is hard here, and what makes each part correct

* **Nobody waits.** The ticker callback is started per message and never
  serialised; `setInterval` starts a check whether the last one has ended or
  not; HTTP handlers run next to both. Every `await` is a place where the others
  run. The executor is correct when the position is never doubled, its current
  trade is the record of the position it holds, and a trade is closed in the
  database only after its position was.
* **Requests fail in three ways**: refused, lost, or executed with the answer
  lost. Each catch block resumes the strategy, so what was done before the
  failure remains. Ghost trades must be closed in the end, untracked positions
  must be found, and the strategy must resume.
* **The process dies** between the entry order and its record, between a
  closed position and its closed trade, or in the middle of a state save. The
  restart has to find out from the exchange, the database and the files.
* **Snapshots go stale**: the reconciliation service acts on trades and
  positions read long before.
* **Files are shared**: all saves of the lifecycle manager use one temporary
  file. Correct is: no torn file, nothing fabricated, memory and disk equal when
  nothing is going on.
* **Loops of the browser** do what those of the server do, over a connection that
  drops, with a status on the screen that several polls write.
* **Schemas and secrets change** while they are in use: a rollback next to a
  recording server, a master key replaced between a save and a load.
* **Scores and sizes** are sums and quotients with edges nobody tests: zero ranges,
  rounding after a comparison, an RSI without losses.
* **Limits**: reconnect attempts, worker slots, queue length, one strategy at a
  time; each is checked first and acted on after an `await`.

`PROJECT.json` lists each of these as a hazard, with its line and the properties
that look at it.

## 2. How the project is built

| Modules | Model | Checked in |
|---|---|---|
| `StrategyManager`, `DurableLifecycle` | lifecycle and its file; the abstract durable lifecycle it implements | `StrategyManager_*` |
| `TradeLedger`, `RazorExecutor`, `TradeReconciliation`, `TradeLifecycle` | executor, reconciliation and service composed over one ledger | `trade_*` |
| `StrategyService` | strategy service over the state manager's file | `strategy_service`, `one_active`, `stopped_returns` |
| `Accounts`, `UserStrategies` | accounts, credentials; the strategies of one user | `services` |
| `Broker`, `Sizing` | Deribit adapter, recovery; the three sizings | `services` |
| `Brackets`, `BrowserClient`, `Dashboard` | bracket placers, WebSocket client and views of the browser | `services` |
| `ThorExecutor`, `Indicators`, `Signals`, `Candles` | Thor; what executors, worker and browser calculate and decide | `services` |
| `ManualOrders` | what an operator does by hand with one position | `services` |
| `DeribitClient`, `Orchestrator`, `StrategyRunner` | WebSocket client, queue and workers, one worker | `machinery` |
| `BrowserStrategies`, `TradingStore` | loops and store of the browser | `machinery` |
| `TradeStores` | both trade stores side by side | `services` |
| `Settings`, `Migrations` | `.env`, key values, alerts; schemas | `machinery` |

The trade lifecycle is a real composition: executor, reconciliation, service and
market act on the same position and records. The parts of `MCServices` and
`MCMachinery` share no state in the code as it is modelled, or only through an
external party that each module has as a choice of its own. They are combined by
a sum, not a product: `part` names the one a behaviour exercises, and `Init` puts
the others in one state. The checks are those of as many separate runs.

Most modules have one type invariant (`TypeOK`, `ServiceTypeOK`, ...). Those of
`StrategyManager`, of `TradeLifecycle`, with the ledger, the executor and the
reconciliation it is composed of, of `DeribitClient`, `Orchestrator`, `StrategyRunner`,
`ThorExecutor`, `Accounts`, `UserStrategies`, `Broker`, `Brackets` and `BrowserClient`
are proved; the other proofs state the typing they need in their inductive invariants.
The rest were checked with the configurations here, and are not among the properties
listed.

## 3. The lifecycle manager

`StrategyManager.tla` models `lifecycle/StrategyManager.ts`. A transition is one
action: the guard the method checks, the new state, and the start of a save. A
save is a process of its own, because `saveState` awaits `mkdir`, `open` (with
truncation), `write` and `rename`, and nothing keeps the next transition from
starting another one:

| Code | Model |
|---|---|
| `this.state` | `state`; `held` is a history variable |
| one pending `saveState()` | `save[s]`: program counter, serialised data, open file |
| `strategy-state.json.tmp`, `strategy-state.json` | `tmp`, `final`: names of inodes; `content` is what inodes hold |
| `JSON.stringify(this.state)` after `mkdir` | `SaveSerialize`: the state at that moment, not at the transition |
| `loadState`, `isValidState` | `Loadable`, `LoadState` |
| a file that exists and cannot be read (379-386) | `LoadFail`: the default state in memory, the file as it was until the next save |
| a failing call, swallowed | `SaveFail`; a failed write may leave part of the data |
| process exit and restart | `Crash`, `Boot` |

The file system is external: a write of a text over a longer one leaves its
tail (`Overwrite`), and an inode that was renamed stays writable for whoever had
opened it. `metadata`, `version`, prices and time stamps that travel with the
fields kept are left out.

`DurableLifecycle.tla` is what the manager promises: a current lifecycle that
makes legal transitions, a durable copy that takes over the current one in one
step, and a restart that falls back to the copy, or to nothing when the copy cannot be
read. `DurableSpec` maps the memory to
`cur` and what `loadState` would make of the file to `disk`.

| Run | Bounds | Shows |
|---|---|---|
| `StrategyManager_serial` | 2 strategies, 2 sides, 1 save, 4 transitions, 2 faults | `QuiescentDurable`, refinement of `DurableLifecycle`, when callers await each call |
| `StrategyManager_overlap` | 1 strategy, 1 side, 2 saves, 3 inodes, 2 transitions, 1 fault, calls while loading | `LoadsOnlyHeldStates` with overlapping callers |

`TypeOK`, `StatesConsistent` and, for one save, `FileNeverTorn` are proved
(section 8). With two saves `FileNeverTorn` fails without any fault: the "atomic
write" of the code is one for a caller that waits.

Two saves are what it takes for every race on the temporary file (one renames or
truncates what the other has open), and three inodes are the most that two names
and two open files can need besides reuse. Four transitions lead to an open
position; two faults allow a failed save followed by a crash.
`CHECK_DEADLOCK FALSE`: the bounds on transitions and faults end a behaviour.

`QuiescentDurable` excepts what the code swallows: after a save that failed, or after a
load that failed, file and memory differ until the next save succeeds (history `lost`).
Such a load leaves the manager idle next to a file that says, perhaps, `position_open`.
It too holds only for callers that await: with two saves the older
one may be the last to rename, and the file keeps a state the memory has left.
Overlap is real: the start and stop routes of `api.ts` (287-352) are handled
concurrently, and memory is updated before the save is awaited.

## 4. The trade lifecycle

`TradeLedger.tla` holds what the components share. The position counts entries
(`size`: 0 flat, 1 held, 2 doubled), `orders` are the reduce-only orders of the
exchange by kind, `trades` the records of the database. Prices are left out: the
market (`Fill`) chooses which order fills and when. `flat` in a record is a
history variable: the position was flat at some time since the record was made.

`RazorExecutor.tla` models `strategies/razor-executor.ts`. Every ticker message
starts an activation, `task[t]`, with the locals it carries over its awaits.

| Code | Model |
|---|---|
| `onTicker` | `TickAnalyze`, `TickSignal`, `TickMonitor`, `CooldownEnds` |
| `executeTrade` | `Verify` or `Refuse`, `PlaceEntry`, `PlaceStop`, `PlaceTarget`, `Record`, `Opened`; `ExecuteFail` and `ReduceOnlyRefused` are its catch |
| `maybeAdjustStops` | `AdjustSkip`, `AdjustDecide`, `PlaceBreakeven`, `CancelOld`, `UpdateIds`, `AdjustFail` |
| `checkPositionAndResume`, `closeTradeHistory` | `CheckPosition`, `CloseHistory`, `Closed`, `CheckFail` |
| `initialize`, `reconcileStateOnStartup` | `Begin`, `ReconcileFlat`, `ReconcileTracked`, `ReconcileOrphan`, `Adopt`, `InitFail` |

`TradeReconciliation.tla` models `services/reconciliation-service.ts`: `check[c]`
is one `runCheck` with the trades and positions it has read. `TradeLifecycle.tla`
composes both with the market and with `strategy-service.ts`: start, stop,
`closePosition` with `cleanupTradeOrders` and `tradeClosed`, crash and restart
with `reconcileAllOpenTrades`. The reconciliation service is created once, at boot, and
only when there is a client by then (`server.ts` 2101-2110): `sweeping` says whether this
process has one. A boot that cannot restore the connection (`RestartOffline`) has none,
and a connection that is made later is not given to one.

With `Slow = TRUE` an activation may outlast the minute in which it began: its three or
four requests have 30 s each. `late` remembers that a trade was begun while another one
was being executed (`"candle"`), or a cooldown ended under an activation (`"cooldown"`).

### Properties

* `NeverDoubled`: the position is never doubled but by a trade that was begun while
  another one was being executed. Failed requests, lost answers, restarts, a handover
  between executors and slow requests in any other order do not double it.
* `ClosedOnlyAfterFlat`: a trade closed in the database had a flat position, as long as
  no activation has outlasted its minute.
* `CurrentTradeMatches`: while no request has failed, the executor's current
  trade is the record of the position held, after a crash between any two steps.
* `PositionTracked`: while no request has failed, a position nobody is working
  on has an open trade.
* `NoStopGap`: no step takes the last stop of a position that stays open, but
  for the cancel with which `closePosition` begins.
* `GhostTradesClose`: when the position stays flat and the process has a reconciliation
  service, all open trades are closed, infinitely often.
* `ResumesWhenFlat`: when the position stays flat, the executor analyses again,
  infinitely often.

### Runs

Executors, activations and checks are model values (symmetric, except in the
liveness runs). Bounds: E executors, T activations, C checks; then faults,
restarts, stops, closes.

| Run | E T C | entries, orders, trades | faults, restarts, stops, closes | Question |
|---|---|---|---|---|
| `trade_executor` (`Slow`) | 2 2 0 | 2 3 2 | 1, 0, 1, 0 | do overlapping activations, requests that outlast their candle, failures and a handover between executors keep position and record right |
| `trade_restart` | 1 2 0 | 2 5 2 | 0, 1, 0, 1 | does a restart after a crash between any two steps track the right record |
| `trade_recon` | 1 2 1 | 2 4 2 | 1, 0, 0, 0 | do the snapshots of a check harm a new trade; is there ever a gap without a stop |
| `trade_live` | 1 1 1 | 1 2 1 | 1, 1, 0, 1 | are ghost trades closed in the end, and does the executor resume |

Two activations are enough for a race, since an activation meets others only
through the ledger and the executor's fields; two entries make a doubled position
and a stale record possible; two trades tell the current record from an earlier
one (`trade_live` has one of each, for the size of the liveness graph).
`CHECK_DEADLOCK FALSE`: bounded counters end a behaviour.

One run shows a violation, of a comment that `PROJECT.json` "findings" quotes:
`trade_untracked`. The reverse-orphan check never runs in the case it is for,
because `runCheck` returns when no trade is open.

More formulas of `TradeLifecycle` fail: `StoppedStartsNothing` (the ticker
subscription of a stopped strategy goes on trading), `ResumesClean` (the order
left of a closed bracket is never cancelled), `RefusalStops` (the status `stopped`
of a refused entry is overwritten by the catch of the same function), and
`ClosedOnlyAfterFlat` where a check misses the stop and sees the price beyond it
(`ClosePastStop` closes the record, not the position). `trade_executor` checks the
last without reconciliation, where it holds. `NeverDoubled` without its clause about
`late` fails too: two candles that close within one slow execution pass the position
check twice before either has entered, and nothing in `onTicker` keeps them apart.

### Fairness of the trade lifecycle

Only the program's own steps are fair. `WF` of an activation: every request is
answered or rejected by its 30 s timeout (`deribit-client.ts` 239-264), and the
ticker keeps starting `TickMonitor`. `WF` of a check: the same, and
`setInterval`, but only in a process that has created the service (`Reconciling` is
guarded by `sweeping`): after a boot without a client no check ever runs. `WF` of
`closePosition` once begun, of `Listen`, and of a restart, online or not: the process
manager starts the server again. The market, signals, cooldowns and
the user owe nothing. A number of faults is bounded: a connection that is down
for ever makes every promise void.

### Assumptions of the model

* `Slow = FALSE` in `trade_restart`, `trade_recon` and `trade_live`: activations and
  manual closes end within the minute in which they began (candles and cooldowns last at
  least one). It is an assumption about the network, not about the code, and
  `trade_executor` goes without it.
* The statuses `initializing` and `signal_detected` are read by every guard like
  `analyzing`, and folded into it; `stopped` is overwritten in the same step.
* One instrument, one user, one strategy name, the SQL store
  (`src/MASTER.md:237`).
* At most one entry in the state manager; starting a strategy while a stopped
  one is kept for its position is left out. `stopStrategy` asks the executor's
  status where the code reads the copy of it in the state manager.
* Deribit refuses to close a position that does not exist, and refuses or drops
  reduce-only orders without a position.
* `reconcileAllOpenTrades` is one step, as nothing else runs before it returns;
  each subset of its cancels and closes may fail. One `Fault` may stand for an
  outage that hits several requests of `Restart` or `CloseCancel`. The
  subscription round trip is merged into `Subscribe`, and the four queries of
  `maybeAdjustStops` are one snapshot.
* The stop of a trade is missing and the price beyond it (`ClosePastStop`) only
  if no stop rests at the exchange, where it would have filled.

## 5. The services

### Strategy service and its state file (run `strategy_service`)

`StrategyService.tla`: handlers (`h`) are requests in flight; a handler goes on at
each await. Memory (`strategies`, connection, manual flag) is changed at once; a
save opens the file, which empties it, and writes what memory was when it was
serialised. Either call may fail, before the file was touched or after it was emptied:
`save()` logs the error and returns (`state-manager.ts` 118-125), so that the operation
goes on and is answered as if it had been saved (`WriteFail`). A boot that cannot read the
file begins with the empty state and saves it. `Crash` loses memory and leaves the file
as it is. `unsure` is a history variable: the last save failed or overlapped another one.

* `QuietFileCurrent`: when no write is in flight and the last save neither overlapped
  another one nor failed, a restart would find what is in memory. One save that lands
  heals what earlier ones have left.
* `ManualDisconnectLasts`: after a manual disconnect that was answered and saved no
  client is created until the user starts a strategy, over faults, failing saves and
  restarts.
* `StoppedReturnsByClose`: a strategy whose start and whose full stop were both
  answered, the stop saved, has an executor again only after a manual close of a
  position: no boot, late or failing write, crash or shutdown brings it back.
* `ResumesAllActive`: once the server listens after a restart with a connection, every
  active strategy has an executor, or is marked as one that could not be resumed.

Two runs show violations, of statements quoted in the findings:

* `one_active`: the check for an active strategy and `addStrategy` are separated by
  awaits, so that two requests start two strategies;
* `stopped_returns`: a stop leaves the ticker subscribed. A tick while the stop saves
  opens a position and notes it in the stopped strategy, which is therefore kept; the
  manual close of that position sets the strategy active, and the next boot resumes it.

When the save of a disconnect or of a stop itself fails, the answer is the same, and the
next boot connects or resumes: section 7.

Bounds: two handlers, kinds, strategies and client objects, two requests, one fault and
one failing read or write; handlers are symmetric. The runs that show a violation have
no failing one, so that what they show does not come from it. `stopped_returns` needs
three requests (start, stop, close), and one strategy. The properties of
`strategy_service` were also checked with three requests and with two faults, then
without failing saves, which takes longer than the run may.

Two consecutive saves of `cleanupTradeOrders` are one; `LinkChange` stands for what
the client's reconnects do to the connection. Handlers that overlap on the file, or a
start next to a stop of the same strategy, are explored, and excluded from a property
by its history condition where it says so.

The other parts of this section are checked in `MCServices`, run `services`.

### Accounts, strategies of a user

`Accounts.tla`: each route is one statement over PostgreSQL, but for login and the
loading of credentials, which read, await, and act. `SavedReadable`: credentials saved
under the master key in use can be decrypted and belong to an account that exists.

`UserStrategies.tla`: one user, as users share nothing. Every query may fail, with what
its catch does: the update of a status is logged and forgotten, in a start after the
instance was registered, in a stop after it was removed, in the pause of auto-resume
(`UpdateFails`; `unsaved` remembers the rows); the query of the active rows ends
auto-resume (`BootGivesUp`). `ActiveRowsRun`: when no request is in flight, what the table
calls active has a running instance, or the last update of that very row failed. Until
the next start, stop or restart writes the row, such a row stays active without a runner:
nothing retries the update. Seen on the way: a manual disconnect refuses every later
connect, so that its flag is only cleared by a restart; auto-resume always pauses,
`shutdown()` is never called, two concurrent starts leak a heartbeat, and the ticker
callback of a client is taken over by the executor that subscribed last.

### Broker adapter and sizes

`Broker.tla`: entries behind the single-position guard, the orphan scan and `recover`
with its `reconcileState`, interleaving at every request. Nobody asks
`reconcileState` to close what it does not know, and that branch is left out.
`ScanSparesProtection`: the scan never cancels stop and target of an exposure that is
there.

`Sizing.tla`: worker, `PositionSizer`, browser, as functions over every combination of
bounded equities, prices, risks, steps, leverages and minima. Quotients are compared by
cross-multiplying. `SizedSafely`: what is ordered loses at most the risk asked for (up to
half a tick where the stop is put on the tick later: `WithinRisk`), keeps to the leverage
over the cut, the rounding and the refusal (`WithinLeverage`), and in the browser is the
size its risk engine weighed, as the second rounding and the second minimum of the
strategies change nothing (`AsWeighed`). `validateOrder` is not part of it:
`placeOCOOrder`, which sends what `PositionSizer` calculated, does not call it.

### Orders of the browser and of an operator

`Brackets.tla`: the three procedures that put stop and target behind an entry, request by
request, each of which may fail be it executed or not. `EndsProtected`: with at most one
failure none ends with an open position that no stop of its own protects. The advanced
manager looks for `order_id` one level too high in the answer, takes every stop for refused
and closes; both managers are imported by nobody.

`BrowserClient.tla`: sockets, timers, rejections and calls of the WebSocket client.
`LossIsRetried`: `isReconnecting` is only set while a timeout will fire or an attempt is
undecided. A reconnect never closes the socket it replaces, and the stale check runs
`handleClose` without closing. The guard on a missing access token is left out.

`ManualOrders.tla`: add-sl, ensure-sl, sync-position, both test orders, the deletion
of a record and Fast Test. `StopsCoverPosition`: as long as nothing fails, resting
stops cover the whole position, but between the cancel and the placing of an add-sl.
Seen on the way: Fast Test reads `order_id` where Deribit nests the order, ends in
`error` and leaves its position unprotected; sync-position never finds stops and
records duplicates; test-micro-order answers success when the order failed; two
concurrent ensure-sl place two stops; the cancelling branches of
`monitorPositionCleanup` are unreachable.

### Thor, signals, candles

`ThorExecutor.tla`: a timer starts activations without waiting for the last; the
clean-up goes through the order lifecycle manager. Requests may take longer than a
candle, and a second trade may begin during the first. `ThorNeverDoubled`: nothing but two
trades executed at the same time (`overlapped`) adds an entry to a position, neither a lost
answer, nor a restart, nor an activation that comes late. `ThorClosesOwn`: neither a late
clean-up nor a restart closes the record of the open position.

`Indicators.tla`: the five versions of RSI, averages, ATR, Bollinger bands, exact
(fractions). `MCServices` ASSUMEs that the versions agree on every bounded series
(`IndicatorsAgree`). `Signals.tla`: each decision over every reading, a reading being
what the decision tells apart. `SignalNeedsExtreme`: whatever scores add up, Razor
never enters without an extreme of the RSI in its direction, nor while a checkpoint
shown as a requirement is not met. `SignalsMirrored` (ASSUME): long and short are
treated alike. The configuration is the one the service passes (RSI 40/60, minimal
volatility 0.01, no multi-timeframe, no advanced filters). Redundant there: the
scalper's "confidence too low" never rejects, and the check for a strength of 55 lies
behind a threshold of 58. `calculateBollingerBands` of the worker slices twice.

`Candles.tla`: closes, highs, lows and the groups of several minutes, from ticks that
pause. `GroupsRise`: no candle counts twice in the longer timeframe. Razor loads up to
150 closes with empty highs and lows and shifts all three while there are more than
100 closes, so that highs and lows stay empty (no ATR, no compression) and "keep last
100 candles" never holds. `CandlesPart` (ASSUME): aggregated candles part those of one
minute.

### Trade history

`TradeStores.tla`: every operation on the SQL and the in-memory store side by side.
`HistoriesAnswerAlike`: the same trades in the same order, the same pages and totals and
the same open trade; and the same exit reasons, profits and statistics, with two
exceptions the code has. SQL answers a profit of 0 as undefined (`row.pnl || undefined`,
`RowToTrade`). And each deployment derives the exit from its own record (`ExitOf`): the
in-memory store loses an order id that is updated with undefined, and SQL does not take a
stop that was moved, so that a trade closed on records that differ (`parted`) may have
another reason and profit in each. Not compared: the history of one user (the other store
ignores the user), an offset without limit (an error in SQLite), trades of one
millisecond. A sorted sequence is defined by the rank of its elements.

### Dashboard

`Dashboard.tla`: position card, strategy card, trade table and analysis dialog, each
with polls that overlap and are answered when they are, and the routes that answer.
`AnalysisOfSelected`: an analysis that comes to be shown is that of the strategy
selected now. Seen on the way:

* the position card closes over its last stop: a new position without one is shown
  with the previous; it says "Positie succesvol gesloten" whatever `closePosition`
  answered;
* the close and test-order routes check the user's client and close with the
  service's;
* the toggle stops `strategies[0]`, whichever is shown; its "backend check" is never
  true, and with a recorded position pressing it starts a strategy;
* the two effects that select a strategy alternate when the recorded trade and the
  active row differ;
* an HTTP error counts as no rows, although a comment says the last known state is
  kept;
* the trade table lists late answers of an earlier filter, keeps ticks across filters,
  and `toggleSelectAll` compares counts; the orphan check sends no token and never
  warns;
* the analysis is given up for good after more than five consecutive errors;
  `connected` is never sent by the status route; a hook documented to poll every 3 s
  polls every second.

### Bounds

Two handlers, calls, activations, polls or requests in flight per part, but one API call
of `BrowserClient` (its races are between sockets and timers, of which there are three and
as many as losses make): an actor meets others only through the state they share, so that
a race takes two. Two trades in `TradeStores`, at two times. Two of each object
(strategies, clients, accounts, markets, executors, positions) tell the current one
from an earlier one. Limits of the code (ten reconnects, eight trigger orders, 150
candles, five errors) are parameters, given small values above their special cases.
Faults: one per behaviour, two for `Brackets` and `BrowserClient`.
`CHECK_DEADLOCK FALSE`: bounded counters end a behaviour, and `Sizing` and `Signals`
are single calls.

## 6. The machinery (`MCMachinery`, run `machinery`)

`DeribitClient.tla`: connecting, authentication, requests with timeouts, reconnect
with back-off and circuit breaker, subscriptions and their renewal, and the process
that an unhandled rejection ends.

* `PendingOnOpenSocket`: no request outlives its socket.
* `SubscriptionsRestored`: once connected, every channel with a callback is fed or
  being subscribed, unless the renewal failed.
* `KeepsTrying` (liveness): the circuit breaker delays the attempts to reconnect and
  never ends them.

`Orchestrator.tla`: queue, worker limits, entitlements, health check with restarts.

* `QueueNeverOverbooks`: while no worker was restarted, the queue never starts more
  workers than the highest limit the user had. `JobsDecided` (liveness): every queued
  job is decided.

`StrategyRunner.tla`: one worker with overlapping ticks, over `IBroker` (external).
With the Deribit adapter `getCandles` throws, so that no tick trades; the state store
never finds anything to load.

* `RunnerNeverDoubles`: in one run whose ticks, starts and looks do not overlap there
  is never a second position. `FlatRunnerResumes` (liveness): it finds out that its
  position is gone.

`BrowserStrategies.tla`: start, timer and portfolio callbacks of the three browser
strategies.

* `SiblingSwept` (liveness): when stop or target has executed, the loop cancels the
  other.

`TradingStore.tla`: three polls and the user write one status. `StatusConverges`
(liveness): once backend and user rest, a store that polls shows the strategy and the
connection as they are.

`Settings.tla`: rewrites of `.env` with `process.env`, key values that expire, the
alerts. A rewrite reads the file, opens it, which empties it, and writes it; each of the
three may fail (`ReadFails`, `EnvWriteFails`). A read that fails, for whatever reason, is
an empty file to a save, which then drops the other services, and ends a deletion; a
failed write leaves the environment changed. A deletion clears every variable that begins
with the prefix, those of a service with a longer name too (`Under`).
`CredentialsPersist`: when no request is open, file and environment agree about each
service, so that a restart brings back what was saved and nothing that was deleted, but
for the services that an overlap, a failed call or such a deletion has touched
(`unsure`), until they are saved once more or the server restarts. Of two saves that
overlap (`met`) the later write drops the section of the other: nothing is said of any
service until the next clean write of it. The file written is `apps/.env` while the file
loaded is that of the working directory (one file in the model). Sending and throttling
of alerts are left out.

`Migrations.tla`: the tool statement by statement, next to a server that records.
`SchemaAsRecorded`: the version recorded in PostgreSQL is that of its tables, always;
in SQLite after commands none of which ended between two statements; and no trade is
lost but by a rollback next to a server.

**Fairness.** `ClientFairness`: timers fire, an attempt to open a socket ends, a
request is answered or times out. `OrchestratorFairness`: `processQueue` goes on, as
its awaits are answered or time out. `RunnerFairness`, `BrowserFairness`:
`setInterval` fires again and each look ends, with an answer or an error.
`StoreFairness`: the polls fire and what is awaited is answered. All weak. The user,
the market, the exchange's drops and the other faults owe nothing, and are bounded in
number.

**Bounds.** Two ticks, health checks and credential requests at a time, as in section 5,
but one start call of the runner and one trader and one watcher in `BrowserStrategies`:
the two race with each other and with the market, while two callbacks of the same kind at
once are allowed by the module and not explored by the run. Two reconnects before the breaker opens, one restart of a
worker, two jobs, two faults of the migration tool in four commands, one crash between
two credential writes; any number of them may fail.

## 7. What does not hold

Beside the findings (`one_active`, `stopped_returns`, `trade_untracked`), formulas of
the modules that TLC refutes. They stay in the modules, with the comment or document they are taken from,
as limits of the code:

| Formula | Module | Why it fails |
|---|---|---|
| `FileNeverTorn` with two saves | `StrategyManager` | one temporary file for all saves |
| `StoppedStartsNothing`, `ResumesClean` | `TradeLifecycle` | subscription kept after a stop; the sibling order is never cancelled |
| `RefusalStops`, `ClosedOnlyAfterFlat` with a missing stop | `TradeLifecycle` | the catch overwrites `stopped`; a check closes the record of a position that is open, and so does `closePosition` when another one was opened after its order |
| `NeverDoubled` and `ThorNeverDoubled` without their clause about overlap | `TradeLifecycle`, `ThorExecutor` | a candle closes while the requests of the last entry are open; both pass the position check |
| `PausedHoldsPosition` | `StrategyService` | `stopStrategy` asks the copy of the status in memory, which may be old |
| `OnlyUnreadableDeactivated` | `Accounts` | a row replaced between read and decryption is deactivated |
| `StoppedGetsNoTicks` | `UserStrategies` | a stop leaves the ticker subscribed |
| `RecoveryAdopts`, `OnePositionPerMarket` | `Broker` | recovery opens the lifecycle only from `entering`, which is no mismatch; two entries pass the guard |
| `FailedIsFlat` | `Brackets` | an emergency close may itself fail |
| `DisconnectLasts` | `BrowserClient` | an attempt under way is rejected after `disconnect`, shows `Error` and may start the next |
| `ThorResumes`, `ThorKeepsStop` | `ThorExecutor` | `initialize` overwrites the status; a late sweep cancels every reduce-only order |
| `EngineBandsFit` | `Signals` | the engine's bands slice twice: with a period of 20 every price off the mean is at a band |
| `FlatIsQuiet` (several timeframes), `EngineSells` | `Signals` | RSI is 100 without losses and equal averages count as falling; the volume rule only buys |
| `HistoriesAligned` | `Candles` | highs and lows are dropped as soon as they come |
| `DisconnectStaysDown`, `LossSurvived` | `DeribitClient` | the close event that follows `disconnect` schedules a reconnect; the rejection of a heartbeat that nobody handles ends the process |
| `WithinLimit` | `Orchestrator` | a health check restarts a worker without counting |
| `RunnerRemembers` | `StrategyRunner` | the state store never loads |
| `NotForgotten` | `BrowserStrategies` | a look at a bracket that is not complete yet takes the position for closed |
| `DisconnectShown` | `TradingStore` | the answer to a poll asked before the disconnect shows `Active` |
| `OddCredentialsPersist`, `AlertsAsShown` | `Settings` | headers the parser does not recognise; keys that expire |
| `MigrateCompletes`, `TradesSurvive` | `Migrations` | on a new machine there is no table to record in, after the server's first start the column exists; a rollback cut short before its rename loses the table |

Four properties hold but for a case the code has and does not report, which a history
variable names (`lost`, `unsure`, `unsaved`): a failed save of `StrategyManager` or of the
state manager is logged and answered like one that landed, so that a disconnect or a stop
may be undone by the next boot; an active row of `user_strategies` whose update failed has
no runner and no retry; and of two credential requests that overlap, or one whose read
failed, the later write drops the sections it has not read. In the worker, the minimum is
compared before the size is cut to the leverage and rounded down
(`strategy-runner/RiskEngine.ts` 73, 93, 102), so that what is ordered may be below it;
`SizedSafely` does not promise a minimum.

## 8. Proofs

A theorem holds for every value of the constants that the `ASSUME` of its module
allows: any number of executors, activations, requests, sockets, records, faults and
crashes. The last column names what it assumes beyond that.

| Module | Theorem | Property | Assumes |
|---|---|---|---|
| `StrategyManager_proofs` | `TypeCorrect`, `AlwaysConsistent`, `NeverLoadsFabricatedState` | `TypeOK`, `StatesConsistent`, `LoadsOnlyHeldStates` | |
| | `SerialFileNeverTorn`, `SerialDurable`, `SerialImplementsDurable` | `FileNeverTorn`, `QuiescentDurable`, `DurableSpec` | at most one save, no calls while loading |
| `TradeLifecycle_proofs` | `TypeCorrect` | `TypeOK` | |
| `TradeSafety_proofs` | `PositionNeverDoubled` | `NeverDoubled` | |
| | `ClosedWhenFlat` | `ClosedOnlyAfterFlat` | no checks, no `closePosition` |
| | `StopKept` | `NoStopGap` | `~Slow`, no `stopStrategy`, no `closePosition` |
| | `CurrentIsHeld` | `CurrentTradeMatches` | `~Slow`, no checks, no `stopStrategy` |
| | `PositionHasTrade` | `PositionTracked` | `~Slow`, no `stopStrategy` |
| `StrategyService_proofs` | `ServiceInvariant`, `FileIsCurrent`, `DisconnectLasts`, `ReturnsOnlyByClose`, `ResumesAll` | `QuietFileCurrent`, `ManualDisconnectLasts`, `StoppedReturnsByClose`, `ResumesAllActive` | |
| `Strategies_proofs` | `OnlyOverIsClosed`, `EntersOnce`, `ThorTypeCorrect` | `ThorClosesOwn`, `ThorNeverDoubled`, `ThorTypeOK` | |
| | `TimeframeRises`, `HistoriesStayShort` | `GroupsRise`, `HistoryBounded` | |
| `Machinery_proofs` | `NoRequestOutlivesSocket`, `AlwaysRestored`, `OneWayForward`, `ClientTypeCorrect` | `PendingOnOpenSocket`, `SubscriptionsRestored`, `OneLink`, `ClientTypeOK` | |
| | `NeverOverbooked`, `RunningIsServed`, `JobsTypeCorrect` | `QueueNeverOverbooks`, `RunningJobsHaveWorkers`, `OrchestratorTypeOK` | |
| | `RunnerOpensOne`, `RunnerTypeCorrect` | `RunnerNeverDoubles`, `RunnerTypeOK` | |
| | `VersionsTell` | `SchemaAsRecorded` | |
| `Services_proofs` | `CredentialsReadable`, `AccountsTypeCorrect` | `SavedReadable`, `AccountsTypeOK` | |
| | `ActiveRun`, `UserTypeCorrect` | `ActiveRowsRun`, `UserStrategiesTypeOK` | |
| | `ScanSpares`, `BrokerTypeCorrect` | `ScanSparesProtection`, `BrokerTypeOK` | |
| | `RiskKept`, `SizesSafely` | `WithinRisk`, `SizedSafely` | |
| | `ExtremeNeeded` | `SignalNeedsExtreme` | |
| `Operator_proofs` | `ReconnectNeverStuck`, `BrowserClientTypeCorrect` | `LossIsRetried`, `BrowserClientTypeOK` | |
| | `NeverEndsBare`, `BracketsTypeCorrect` | `EndsProtected`, `BracketsTypeOK` | |
| | `ShowsAnalysisOfSelected` | `AnalysisOfSelected` | |
| | `StopsCover`, `CredentialsReturn`, `StoresAgree` | `StopsCoverPosition`, `CredentialsPersist`, `HistoriesAnswerAlike` | |

The parts of `MCServices` and `MCMachinery` are proved about one by one, each as the
specification of its own module (`BrokerSpec`, `RunnerSpec`, ...), of which the run's
behaviours of that part are behaviours.

### The arguments

**Lifecycle.** `TypeOK` and `StatesConsistent` are not inductive: they say nothing
of the files a rename may bring into place. The inductive invariant `IInv`
(`HeldEverywhere`) follows a state from the memory through the serialised data of
a save to an inode: each of them is in `held`, and all of those are consistent.
The serial theorems add `SInv` (`OneSave`): what the one save carries is the
current state, and the temporary file is its own and not the state file, so the
rename brings a complete and current state into place. Refinement follows step by
step: `SaveRename` is `Publish`, a crash and a load that fails are `Recover`, operations
are transitions, everything else stutters.

**Trade lifecycle.** `TypeInv` strengthens `TypeOK` with the ranges ids need:
whatever trade id an executor, activation or check carries is that of a record
that exists, a check has read the trades it compares, and one that is comparing
has one left, so that the updates it makes are defined. On it rest six invariants:

* `EntryInv` holds until `late` has `"candle"`, which the step that begins a second
  execution sets, and which is never taken back: at most one activation is in
  `executeTrade` (`OneExecution`: a signal needs a closed candle), while one is between
  its position check and its entry the position is flat (`EntersFlat`: nothing else ever
  opens a position), and the position is not doubled. `NeverDoubled` is what is left of
  it on both sides of that step.
* `ActivationInv` says what an executor is while its activations go on: those that
  monitor find it holding its trade or already cooling down, the one that executes
  finds it analyzing, the two never meet, and one that initializes is alone.
* `FlatInv` (`ClosedWhenFlat`), while `late` is empty, follows a close back to the look at the position that
  led to it: an activation that has come to close a trade carries one that is flat
  (`DerivesFlat`), and all records are marked as long as the position is flat.
* `GapInv` (`StopKept`): only one executor is ever at work (`OneExecutor`), and while
  an activation is between placing the breakeven stop and cancelling the old one, the
  new stop rests or the position is gone (`BreakevenRests`). A restart cancels orders
  only where it has read a flat position.
* `TrackInv` (`CurrentIsHeld`): while no request has failed, the book is right (`Book`:
  a position has at most one record that is open and not flat), and each place of an
  activation says which record goes with the position: between entry and record there
  is none yet, in the monitor it is the current one, in the initialization the one
  found or adopted, in `closePosition` the one it closes.
* `KeepsTrade` (`PositionHasTrade`), next to any number of checks: `Sized` names the
  places of an activation that tell of a flat position. `Recorded` is the property with
  all who still work on it: the position has an open record, or is being closed
  (`Leaving`), or its record is on the way from an execution, an initialization or a
  check. Two facts keep the checks from closing it. A check that has read no position
  while one is held now (`Lagging`) holds only records older than that position
  (`Apart`), and a stop rests meanwhile (`StopsRest`), so that none of its steps takes
  the record for that of a position without one. A check that did read the position and
  closes its record, because the stop is missing, goes on to the reverse orphans and
  records the position again (`Watching`).

The other three theorems take `~Slow`, under which `late` stays empty (`NeverLate`).

*Why the hypotheses.* Each of them is needed: TLC refutes the property without it.
With `Slow` two activations pass the position check, and the three that assume `~Slow`
fall. `closePosition` waits between the
market order and the search for the record, and closes the latest one, also when the
executor has opened another position meanwhile (`ClosedOnlyAfterFlat`), whose stop its
`cancel_all` may take (`NoStopGap`). A check closes the record, not the position, when
the stop is missing and the price beyond it (`ClosedOnlyAfterFlat`,
`CurrentTradeMatches`). After `stopStrategy` two executors, the stopped one still
subscribed, clean up and trade on one position (`NoStopGap`, `CurrentTradeMatches`,
`PositionTracked`). The configurations of `trade_executor`, `trade_restart` and
`trade_recon` satisfy the hypotheses of the properties they check: what the runs find
within their bounds the theorems state without them.

**Strategy service.** `ServiceInv`: while the last save neither overlapped nor failed
(`~unsure`) there is at most one write, and it writes the memory (`FileFollows`); a save
with no other under way makes this true again; the boot runs alone (`BootsAlone`) and what it
has passed has an executor (`ResumedRun`); after a manual disconnect neither memory,
file nor a pending write says "connected", and no operation is on its way to a client
(`StaysOff`); a strategy that was started and fully stopped is active nowhere, not in a
file, not in a write under way, not at the boot (`Out`), unless a close revived it. Both
histories begin only when the answer found the save done, and from there on a failing
write leaves a file that agrees as well: the old one, or one that is torn.

**Services.** *Accounts*: salt and ciphertext of a row are of the same save.
*Strategies of a user*: an active row without an instance is owed one by a request or
by the boot (`Owed`), or its update failed. *Broker*: ids rise, so that an order the scan saw as orphaned is
never the protection of an entry that fills later, and the second request of the scan
leaves out those of an exposure (`CallsInv`). *Sizes*: arithmetic on integers, for each
sizing from its rounding to its last comparison. *Signals*: all that adds up
without the relative strength stays below the threshold.

**Thor.** A clean-up goes on for several awaits after it found the account flat, and
another activation may open a position meanwhile. `RecordInv` adds `ForgetsOwn` to
`ThorClosesOwn`: a clean-up carries a record older than the position that is open now.
`EntryInv` is the argument of the Razor executor again (`OneExecutes`, `EntersFlat`), until
`overlapped` is set.

**Candles.** `CandlesInv`: closes are numbered in order and the forming candle is newer
than all of them; the newest group is not newer than the newest close, and older once
a minute has begun since it was sampled. `HistoryInv`: highs and lows are cut where the
closes are, not where they end themselves, and are never longer than those.

**WebSocket client.** `ClientInv`: there is one way forward at a time (`OneLink`), so
that a timer or a late close event never finds an open socket; a socket starts without
pending requests; and the request that renews the subscriptions is pending exactly
while `connect` waits for it. Its types say that ids stay below the counter, so that no
answer is taken for that of a later request, and that attempts never pass their maximum.

**Orchestrator.** `processQueue` counts in one step and registers in a later one.
`QueueInv`: while no process stalled, health checks are quiet (`AllQuiet`), and a
worker the queue is about to spawn still has its place (`PlaceKept`), because one job
is in hand at a time. `JobsInv` holds next to stalls and any number of health checks: a
running job has a worker, or the queue or a check is about to spawn one for it
(`RunsSomewhere`), and what a check found is what that worker was, because ids are not
used twice (`FoundAsWas`).

**Strategy runner.** A tick asks for the held position long before its order, and the
store learns of the entry after it. `RunnerInv`: while nothing overlaps one tick is
out, and only while none is held (`OneTick`), every live position is held or that of
the tick that placed it (`LiveIsHeld`), and a look that saw neither leg was right
(`LooksTrue`), since a live position keeps one (`LiveKeepsLeg`).

**Migrations.** `MigrationsInv` follows a command statement by statement: a transaction
of PostgreSQL changes version and table together, the column of SQLite is there before
it is recorded (`RecordedLast`), and during a rollback the trades are in the table or in
its copy (`TradesKept`).

**Browser.** *Client*: sockets are made in order and stay known, and each retry adds a
timeout or an attempt that is to be decided. *Brackets*: the place in the procedure
tells how many requests have failed (`StopInv`: an attempt that is undone has met a
failure), with more than one try, as in the code. *Dashboard*: `PanelInv`, each request
of the panel that is not cancelled is for the strategy of now (`AsksForShown`), because
the effect cancels all others when the strategy changes.

**Stops of the operator.** `DeskInv` counts: there are as many stops, with those that
are being replaced, as units of the position, each over at least one unit
(`EachUnitStopped`), one Fast Test runs at a time, and only the mock calls it stopped
(`TestsAlone`). That the amounts then add up to at least the position is a fact about a
sum over a set, `SumAtLeast`: of the subsets that contradict it take a least one
(well-foundedness of the naturals), and remove the element its sum ends with.

**Credentials.** `SettingsInv`: a section of the file holds the credential of the service
it is named after, and of others only such as have no section of their own (`InOrder`,
which parsing keeps although it joins sections); while nothing overlaps one request is open
(`EditsAlone`), the file agrees with the environment about each service that is not
`unsure`, but for the one a save is about to write (`FileRight`), and what is about to be
written agrees too (`WriteRight`), also about that service. An overlap makes all unsure, so
that nothing is to be shown until the file is at rest, and a clean write brings its service
back. Parsing and building are folds: `FoldDefined` gives their values at each
prefix, and what holds of the empty prefix and is kept by each step is shown for all by
the least prefix that breaks it.

**Trade history.** `StoresInv`: both stores hold the same trades, each once, of the same
owner, time and status (`SameTrades`), and of the same reason and profit, unless they were
`parted`; and an open trade has no exit reason, which is why the SQL statistics, which are
computed over the rows and not over what `rowToTrade` makes of them, may count reasons
without looking at the status. The sort is a rank in the model: an element is
at the place that as many are before. Elements of different times have different
ranks, and each rank is taken (an injection into a set of its own size meets all of it),
so that the bijection by trade ids carries one order to the other (`RankSame`). Sets
that are alike one by one have the same sizes, extremes and sums (`SumSame`), and the
parts of a set sum to its size (`SumOfParts`), both by a least counterexample.

Each proof has one step per action; what the operations preserve is stated once, in
lemmas. The inductive invariants of the trade lifecycle, the runner, the migrations, the
stops of the operator, the credentials and the trade history were checked by TLC on small instances before
they were proved, `KeepsTrade` on one with
two checks and two entries and one with two activations, a restart and a close.
`OneLink`, `WithinRisk` (but as part of `SizedSafely`), `HistoryBounded`,
`RunningJobsHaveWorkers` and the type invariants are not checked by a run of their own.

### Model-checked only

Every invariant and action property a passing run checks is stated by a theorem, some
under the hypotheses of the last column. What stays with TLC:

* Liveness, since fairness and `ENABLED` are beyond the provers: `GhostTradesClose`,
  `ResumesWhenFlat`, `KeepsTrying`, `JobsDecided`,
  `FlatRunnerResumes`, `SiblingSwept`, `StatusConverges`.

The modules with theorems declare no recursive operators.

## 9. Not modelled

Metrics, the WebSocket feed of the analysis, scripts and deployment (`not_modelled` in
`PROJECT.json`, with the reason). In components that are `partly` modelled the note
names what is left out: getters and queries that decide nothing, what is only
displayed, the stubs of other brokers, the license check, `BracketRunner`,
`cleanupOrphanOrders` of Razor, which nobody calls, and the dialogs and pages that edit
and display. The hourly backups of `StrategyManager`, which `initialize` starts (412-464),
copy the state to files that nothing reads, and change no state that is modelled. Prices,
P&L, wording and logging are abstracted for good where no property is about them: there
the market chooses, so that the properties hold whatever is calculated.
