# Verification of finbar

TLA+ specifications, TLC configurations and TLAPS proofs kept beside finbar, a
backtesting and market-data service. Everything is translated from the source;
`PROJECT.json` maps each definition to the lines it models.

Paths: `runtime/` stands for
`src/packages/strategy-runtime/finbar_strategy_runtime/`, `services/` for
`src/finbar/infrastructure/services/` and `use_cases/` for
`src/finbar/core/application/use_cases/`.

## 1. Inventory

| Component | State | Operations | Interacts with | What is hard |
|---|---|---|---|---|
| Bar loop (`services/backtest_runner.py`) | bar index, `SimulationState` | per bar: execute pending, check exits, margin call, funding, signal, equity, sync; liquidate at the end | executor, strategy | order of the calls, one-bar delay between decision and fill |
| Executor, sizer, opener, closer (`runtime/simulation/`) | position, cash, totals, trades, diagnostics | enter, exit, intrabar exits, liquidation, sizing, cap | margin manager | fees charged in several places, gaps, rounding |
| Full-margin account (`margin_account_manager.py`) | account cash, margin book | lock, credit, settle, fund, sync, margin call | writes `state.cash` back | two copies of the same money |
| Result builder and metrics | none | reconciliation, metrics | result store | rounding |
| Indicator jobs (`services/in_memory_indicator_job_manager.py`, `indicator_job_runner.py`) | jobs, tasks, results, frames, semaphore, artifact rows | start, cancel, delete, expire, evict, run, store | event loop, thread pool, SQLite, backtests, pipelines | cancellation of threads, status races, reuse by hash, restart |
| Strategy pipeline (`use_cases/run_strategy_pipeline.py`, `services/strategy_pipeline_job_*.py`) | pipeline jobs, polling time | validate, start indicator jobs, poll, backtest, store, cancel with a sweep | indicator jobs, backtest, result store | timeout against late completion, cancelled counted as done, sweeping other pipelines' jobs |
| Optimization jobs and optimizers (`services/in_memory_optimization_job_manager.py`, `grid_search_optimizer.py`, `walk_forward_*.py`) | jobs, progress, rankings, folds | start, cancel, evict; grid, random, walk-forward | event loop or own thread, artifacts, backtests | late writes of a thread, fold boundaries, failing combinations |
| Fetch jobs, price cache and fetchers | jobs, cached bars | fetch in chunks, save, delete, cancel | HTTP sources, rate limiters | chunk boundaries, partial fetches |
| Rate limiters (Hyperliquid, CoinGlass, Yahoo) | bucket, deadlines, counters | wait, on error, on success | concurrent fetch threads | backoff set while others wait, weight above the bucket |
| Result store (`services/in_memory_backtest_result_store.py`, SQL repository, projections) | records, rows | save, get, list, delete, evict, pages and curves | SQLite, pipelines | memory and SQL written apart, merging two sources |
| Strategy definition parser (`runtime/parser/`) | none | parse, resolve, validate, collect columns and warmup, serialise | every user of a definition | references between sections, overrides, nested features |
| Metric catalogue (`runtime/parser/_metric_*`, `unified_metric_catalog.py`) | none | list, check, resolve a concept | parser, tools | what is accepted against what can be computed |
| Indicator calculator (`runtime/indicators/pandas_ta_indicator_calculator.py`, handlers) | the frame | expand, order and compute columns | backtests, jobs | families computed at once, order of a set |
| Definition backtest (`use_cases/backtest_strategy_definition.py`) | the request | input, parse, guard, frame, features, required data, run | all of the above | which columns are there for which mode, parity flag |
| JSON strategy evaluation (`runtime/evaluation/`) | crossover memory | on_bar, on_reset | bar loop | memory of skipped bars |
| Streaming indicators (`runtime/indicators/streaming/`) | online states, windows, session profile | update, reset, latest | causal enrichment | agreement with the definitions, session changes |
| Causal enrichment (`causal_multi_timeframe_streaming_enricher.py`, `as_of_informative_cursor.py`, `bar_merger.py`) | cursor, rows | append, advance, reset; sequential, parallel, batch | strategies, artifacts | no look-ahead, three paths that must agree |
| Profiles and signals (`runtime/domain/services/`) | none | profiles, value areas, structure, zones, VSA, phases | calculator, streaming | confirmation delays, windows, edges |
| Statistical proxies, presentation, startup | none | formulas, routing, wiring | use cases | floating point |

What makes the parts correct:

- *backtest*: no money appears or vanishes, whatever mixture of fills, fees,
  borrow, funding and margin a run has seen; the two copies of cash agree;
  orders do not outlive their bar; stops protect; fills are at prices that
  traded; what is reported adds up;
- *jobs of every kind*: an outcome does not change once nobody can write it, a
  completed job has its result, a job nobody cancelled comes to rest; permits are
  neither leaked nor forged; bars stored for a job are bars of its request; what
  was persisted stays;
- *pipeline*: no backtest without the bars of its own jobs, and a result id that
  leads to a result;
- *search*: every combination once and ranked, folds tested on unseen bars;
- *rate limiter*: all threads together stay below the exchange's limit in every
  window of time, and none of them starves;
- *price fetches*: an answer has every bar once, whatever the chunks; a fetch that
  fails leaves nothing behind; a job's status becomes final;
- *result store*: what was saved can be read, what was deleted cannot, and every
  view of it is complete;
- *definitions*: a strategy runs with the columns and parameters it asks for,
  whatever is accepted can be computed, and a result claims live parity only if
  it has it;
- *strategy evaluation*: a signal depends on the bars and the position shown, not
  on the path that led there; the bracket of an entry is on the right sides;
- *indicators*: a value on a bar uses nothing that came after it, is what its
  definition says, and is the same on every path that computes it.

`PROJECT.json` lists every component (also those not modelled, with the reason)
and, under `hazards`, what is hard to test in this code, line by line.

## 2. Modules

| Module | Content |
|---|---|
| `BacktestEngine`, `MCBacktestEngine` | the bar loop, executor, sizer, opener, closer and margin account as one state machine; small markets for it |
| `BacktestEngineProofs` | its inductive invariant and the theorems |
| `IndicatorJobs`, `MCIndicatorJobs`, `IndicatorJobsProofs` | manager, runner, thread pool, artifact table, clients, restart; the theorems |
| `HyperliquidRateLimiter`, `HyperliquidRateLimiterProofs` | the shared token bucket, its backoff and the threads that call it; its theorems |
| `PriceFetch`, `MCPriceFetch`, `PriceFetchProofs` | fetch job, pagination, fetch use case and price cache; the theorems |
| `JobLifecycle` | abstract: what a background job promises to its client |
| `ParameterSearch` | ranges, grid and random enumeration, ranking, folds, as operators |
| `OptimizationJobs`, `MCOptimizationJobs` | the optimization job manager and the threads that run a search; refines `JobLifecycle` |
| `OptimizationJobsProofs` | grid, ranking and windows for every input; the search and its refinement |
| `ResultProjection`, `ResultStore`, `MCResultStore` | pages, curves and listings; the two-level store |
| `StrategyPipeline`, `MCStrategyPipeline` | pipelines over indicator jobs and the result store, which it extends; refines `JobLifecycle` |
| `StrategyPipelineProofs` | the store, the pipeline and its refinement |
| `StrategyValues` | names and values of a definition |
| `MetricCatalog` | the metrics, their computation paths and requirements, resolution of concepts |
| `StrategyParser` | the sections of a document, resolved and validated; required columns |
| `IndicatorCalculator` | which columns a batch computes, in which order, and what is in them |
| `StrategyBacktest` | the use case from the request to the engine, stage by stage |
| `StrategyEvaluation`, `MCStrategyEvaluation` | condition trees, crossover memory, risk prices; composed with `StrategyBacktest`: the strategy that runs is the one parsed from its document |
| `StrategyEvaluationProofs` | the evaluation and the use case |
| `Rational` | exact fractions with NaN |
| `StreamingStates` | the online states of the indicators |
| `VolumeProfile`, `PriceAction`, `SignalFamilies` | profiles, structure, zones and signals of a frame |
| `StreamingEngine` | classification, windows, update and reset of one engine |
| `CausalEnrichment` | a primary engine, an informative engine and the cursor between them; the parallel path and the batch merge |
| `CausalEnrichmentProofs` | the cursor and the rows it shows |
| `IndicatorProperties`, `MCCausalEnrichment` | definitions the streaming values are compared with, and the properties |

How they meet: `StrategyPipeline` extends `ResultStore` and runs its saves as
steps of a pipeline; `MCStrategyEvaluation` composes parser, catalogue,
calculator, use case and evaluation; `CausalEnrichment` instantiates
`StreamingEngine` twice; `OptimizationJobs` and `StrategyPipeline` implement
`JobLifecycle` under the mapping `Lifecycle`. Elsewhere a neighbour is free: the
strategy in `BacktestEngine`, the position in `StrategyEvaluation`, the indicator
jobs of a pipeline in how long they take and how they end. Each module then
assumes less of its neighbour than the code does.

### BacktestEngine and the code

`state` is `SimulationState` with the `MarginAccount` beside it; `pc` names the
call of `_run_loop` that runs next; `i` counts the bars read, so it is the index
and the date of the current bar. One action per call of the loop body:

| Action | Code |
|---|---|
| `NextBar` | head of the loop; a warmup bar only feeds the strategy |
| `ExecutePending` | `_execute_pending`: pending exit, then pending entry, at the open |
| `CheckExitConditions` | `check_exit_conditions`: liquidation, then the intrabar resolver |
| `CheckMarginCall` | `check_margin_call`, which closes with an empty date |
| `ApplyFunding` | `apply_funding` and the re-sync of cash |
| `ProcessSignal` | `_process_signal` for any signal in `SignalSet` |
| `TrackEquity` | `_track_equity`, then `sync_margin_equity` |
| `LiquidateOpen` | `liquidate_open` after the loop |
| `Done` | the result has been returned |

The operators `Enter`, `Open`, `ResolveSize`, `AffordabilityCap`, `Close`,
`SettleExit`, `ResolveLong`, `ResolveShort` are the methods of the same name.

*Data.* Prices are integer ticks and sizes integer lots; rates are whole per
cents; a division rounds down. The identities proved are exact over this
arithmetic; floating-point error is not modelled. The trade list is kept as its
running sums and last record, the equity curve as its length and last point, the
diagnostics as a set of dated codes. A market is any sequence of bars that
`validate_backtest_frame` accepts. The strategy is not modelled: `ProcessSignal`
lets it return anything at every bar.

### IndicatorJobs and the code

Four kinds of actors interleave: the event loop, a pool thread per job, request
threads that cancel and delete, and a restart. A section under the manager's
lock, or one SQL transaction, is one step.

| Action | Code |
|---|---|
| `Start`, `Register` | `start`: `cleanup_expired`, then task creation, registration and `_enforce_max_jobs_locked` |
| `CancelRequest`, `CancelWrite` | `cancel`: the unlocked status test and `task.cancel()`, then the write |
| `DeleteArtifact`, `DeleteRow` | `delete_artifact`: memory, then SQL |
| `FetchDerivatives` | `FetchDerivativesUseCase.execute` persists new data |
| `Acquire`, `CancelledWaiting`, `CancelledAwaiting`, `Resume` | `_gated_runner` and `run`: the semaphore, `CancelledError` before and after the permit, the thread's outcome |
| `Begin`, `MarkLoading`, `Prepare`, `FindByHash`, `FetchBars`, `MarkReused`, `ApplyIndicators`, `ApplyCausalEnrichment`, `EndCalculation`, `ApplyFeatures`, `Finish`, `StoreFrame`, `StoreResult`, `Persist` | `_sync_run`, with its failing and raising paths |
| `Restart` | memory is lost, the table stays |

Bars are represented by the request they were computed for and the version of
the derivatives data merged into them. `BacktestAccepts` is what
`_artifact_bars` of the backtest use case accepts. All jobs are started from the
event loop, as the HTTP and MCP routes do. A live-parity request always comes
with a strategy definition: `compute_strategy_indicators.py` is the only caller
that asks for that mode, so it is always computed by the causal enricher.

### HyperliquidRateLimiter and the code

Each `with self._lock` block is one action and a thread sleeps between two of
them. The code only compares and subtracts readings of the clock, so the clock is
kept as ages and remaining times; ages saturate where the code stops telling them
apart (an empty bucket, the minimal interval, the capped backoff).

| Action | Code |
|---|---|
| `Call` | `_fetch_chunk` and the ticker requests call `wait(weight)` |
| `CheckBackoff` | first loop of `wait` |
| `WaitForCapacity`, `WaitForSpacing`, `Grant` | the branches of the admission loop |
| `OnSuccess`, `OnRateLimitError` | the methods, called after the request |
| `EndSilently` | the request ended and the limiter was not told |
| `Tick` | external: time passes; a sleeper may wake late, never early |
| `OpenWindow` | observer: a window of time opens at any moment |

### PriceFetch and the code

One symbol and interval, time counted in bars, a bar is its timestamp.

| Action | Code |
|---|---|
| `Run` | `_sync_run_fetch_job` marks the job, `fetch` dispatches |
| `RangeChunk`, `HistoryChunk` | one pass of `_fetch_date_range` or `_fetch_max_history`; the last one ends with the deduplication, after the reversal for the history |
| `ChunkFails` | `_fetch_chunk` answers `None`, the loops raise, `fetch` answers with no bars |
| `NoData`, `SaveBars`, `Raises`, `Complete` | the use case, `save_bars` (which may fail unnoticed) and the end of the job |
| `Cancel`, `CancelTask`, `CancelledError` | `FetchJobManager.cancel`: unlocked read, then cancel and write; the delivery in `_run_fetch_job` |
| `DeleteBars` | `delete_bars` before a date |

### StrategyEvaluation and the code

`previous` is `_previous_values`; a condition tree is a table of nodes; a column
holds a number, a boolean, `None` or NaN, and an operand may have fallback
columns. `OnBar` is `on_bar` for any bar and any position; `OnReset` is
`on_reset`. `history` and `seen` are observers. Prices are whole cents and are
rounded as `round(x, 2)` rounds them, from ten-thousandths of a cent; where the
float is NaN there is a value for it.

### JobLifecycle, OptimizationJobs, StrategyPipeline and the code

A job of `JobLifecycle` is new, active or at rest with its outcome. At rest means
that no coroutine, thread or half-done `cancel` can still write the status. The
promise is conditional where the code is: a job somebody asked to cancel may have
a result and another outcome, and need not come to rest, since cancelling a task
does not stop the thread.

| Action of `OptimizationJobs` | Code |
|---|---|
| `StartOptimizationJob`, `StartWalkForwardJob`, `PostOptimizationJob` | the tools and the route: argument checks, `start` with expiry and eviction, as a task or in a thread without a loop |
| `CancelRequest`, `CancelWrite` | `cancel`: unlocked test and `task.cancel()`, then the write |
| `Dispatch`, `CancelledScheduled`, `CancelledAwaiting`, `Resume` | the coroutine around `to_thread` |
| `GridBegin`, `GridLoad`, `GridStep`, `GridFinish` | `GridSearchOptimizer` in its thread: validation, bars, one combination, ranking |
| `FoldBegin`, `FoldStep`, `FoldFinish` | `WalkForwardOptimizer`: fold indices, one fold with its search and test, the end |

| Action of `StrategyPipeline` | Code |
|---|---|
| `StartStrategyPipeline`, `CancelRequest`, `CancelWrite` | `StrategyPipelineJobManager` |
| `Resume`, `Validate`, `CheckPriceCache` | the coroutine, `validate`, `compute_strategy_indicators` |
| `PollJob`, `AfterPoll` | `_await_jobs`: one `get` of the inner loop, then done, failed, timed out or asleep |
| `ReadArtifactJob`, `ReadArtifactBars`, `RunEngine` | `_artifact_bars` and the backtest |
| `RecordResult`, `PutResult`, `PersistResult`, `Complete` | `_run_backtest`: the save of the result store, step by step, then the status |
| `SweepRead`, `SweepWrite` | `cancel_all_non_terminal` from the `CancelledError` branch, job by job |
| `JobHandOver`, `JobCancelled`, `JobWrites`, `JobStores`, `JobDeleted` | the indicator jobs, reduced to status, thread and bars |

The event loop runs one coroutine up to its next `await` (`loop`), request
threads and pool threads interleave with it everywhere. An indicator job may be
deleted whatever its thread is doing (`thread` says where it is: queued, working,
storing, gone): its updates are then lost, and a thread that goes on to store its
bars brings the job back as a row (`restored`), which no cancellation reaches any
more.

### ResultStore and the code

`memory` is `_records`, `rows` the table, `saver` where the thread of a save is.
`Record`, `Put`, `Persist`, `PersistRaises` are `save`, with eviction in `Put`;
`DeleteRecord` and `DeleteRow` are the two halves of `delete`; `StoreRestart`
clears the memory. `list_results` copies the records under the lock
(`ListRecords`, kept in `listing`) and reads the table afterwards (`ListRows`),
with anything in between; what it returns then is `ListResults`. The other reads
are operators on one state: `Get`, `GetBacktestTrades`, `GetBacktestEquity`. A
day is a date; `IsoDays` are those whose text is at least as long as an ISO date,
which is what decides how the daily curve is cut (`HasIsoDates`).

### Definitions and the code

A document is a record of its sections, each of them valid or at fault; a name is
a base and a number (`sma_20`); a value is tagged with its JSON type, and decimals
are hundredths. A column of a frame holds a class: `value`, `partial` (NaN on some
bars after the warmup), `nan` or `text`.

| Action of `StrategyBacktest` | Code |
|---|---|
| `CheckInput`, `ParseDefinition` | `DefaultBacktestInputValidator`, `StrategyDefinitionParser.parse` |
| `GuardCoverage` | `_apply_streaming_coverage_guard` |
| `EnrichBatch`, `EnrichCausally`, `PrepareFrame` | the three ways to a frame |
| `ComputeFeatures` | features and formulas, in their order |
| `CheckColumns`, `CheckWarmup` | missing columns; `RequiredDataValidator` |
| `RunEngine` | the engine, its exceptions and the parity flag of the result |
| `ApplyFeatures` | the apply-features use case |
| `ResolveMetric` | the concept resolution tool |

The order in which a set of names is walked is a free choice, since it depends on
the hash seed of the process.

### Indicators and the code

`UpdatePrimary`, `UpdateInformative` and `Reset` are the methods of the causal
enricher; an update runs the whole engine, that is every state, the windowed
recomputations, the session profile and the values derived from it. Numbers are
exact fractions; a standard deviation is kept as its variance. The code weighs
the buckets of a bar by a normal density around its typical price;
here the weights fall off evenly to both sides of the typical price (a tent), in
units of `Grain`. Batch signals are functions of the frame and the row. Windows and
periods are constants, small in the instance.

`EngineWith(n)` is an engine whose window resolver knows sessions of `n` bars, and
`EngineWith(0)` one without a resolver, which falls back to the fixed window. The
enricher builds its engines with one (`InfoRows`), the threads of the parallel
form theirs without (`ThreadRows`). Session-count metrics share one buffer with
the other windowed metrics, so the resolver changes what those see too.
`wyckoff_phase` and `value_area_migration` are NaN in a stream: the last value of
a windowed column must be a number, and theirs is a label.

## 3. Runs

`tlc -workers 2 -config <cfg> <module>` in this directory.

| Run | Properties | Question |
|---|---|---|
| `spot` | `Reconciles`, `ExitWithinBar`, `OrdersWithinMeans`, `PositionsClose` | Does an unleveraged run that rejects oversized orders stay in its means, fill where bars traded, end flat and add up? |
| `margin` | `TypeOK`, `MoneyAccounted`, `MarginAccounted`, `OrdersLiveOneBar`, `StopProtects`, `TradesDated` | Do the double books of full margin agree under leverage, shorts, funding, borrow and rebased stops? |
| `lifecycle` | `TypeOK`, `PermitsAccounted`, `ArtifactsMatchRequest`, `NothingLost`, `JobsLive` | Do cancellation, deletion, reuse and a restart at any moment keep permits, rows, live jobs and the right bars? Does a job nobody cancels settle, whatever happens beside it, and become readable or failed? |
| `limiter` | `TypeOK`, `WindowEnvelope`, `AllServed` | Do threads that share the bucket stay below its rate in every window, and are they all served? |
| `fetch` | `FetchExact`, `CacheFedWhole`, `FetchesSettle` | Are paginated answers exact, failed fetches without trace and jobs settled, with cancellation at any moment? |
| `signals` | `SignalsReplayable`, `BracketAroundClose`, `RunsAsDefined`, `CatalogueHonest`, `ParityHonest` | From the document to the signal: does a strategy run with what it asks for, can what is accepted be computed, is the parity flag honest, is a signal determined by bars and position? |
| `optimize` | `SearchSound`, `ProgressForward`, `KeepsLifecycle` | Are rankings complete and folds out of sample? Does the job manager keep the promise of a job? |
| `pipeline` | `ResultsBacked`, `PipelinesSettle`, `KeepsLifecycle` | Does a pipeline only backtest on its own bars, come to rest, and report an id that can be read? |
| `store` | `SavedIsReadable`, `DeletedStaysGone`, `ViewsAgree` | Do cache and table together behave as one store, and do listings, pages and curves show all of it, each item once and in order? |
| `indicators` | `StreamExact`, `NoLookahead`, `EnrichmentAgrees`, `ProfileSound`, `SignalsSound` | Do streaming, causal, parallel and batch computation agree, does nothing look ahead or change later, and are rises and falls treated alike? |
| `resolver` | `ParallelEqualsSequential` (violated) | Are the informative values the same in the parallel and in the sequential form of causal enrichment? Not if a session-count metric is among them: the parallel engines have no window resolver. |
| `negation` | `NotGroupsAccepted` (violated) | Can a strategy use every kind of group the schema offers? A `not` group makes the parser raise. |

Several of these properties are conjunctions of parts that are stated and
explained one by one in the modules (`MoneyAccounted` is `CashLedger` and
`CostLedger`, `SearchSound` holds the type invariant, `RankingComplete` and
`FoldsOutOfSample`, `ViewsAgree` the store's type invariant, `ListingFull`,
`PagesCover` and `EquityViewsAgree`, `SignalsSound` is `SignalsCausal` and
`PatternsMirror`, and so on). The violated properties state what a comment, a
docstring, a test or the schema says; the findings in `PROJECT.json` give the
lines. Each property
of a passing run has a mutant, a plausible bug in one definition, that violates
it; the mutated forms stand before the definition they replace.

*Bounds of the backtest runs.* Four bars: quiet, one that touches stop and
target, a gap down and a gap up, each through every level the signals use. A
round trip needs three bars (signal, fill, exit), so five and six bars hold two
trades back to back, a trade reopened after a stop, and an entry on the last
bars that the final liquidation closes. Cash is chosen so that the default and
risk sizes fit and the largest explicit orders do not. Prices such as 1003 or 887
make percentages and margins round.

*Bounds of the job runs.* Two jobs on one permit are enough for a permit to be
contended, a job to be evicted by the next (`MaxJobs = 1`) and an artifact to be
reused, or not. The requests are chosen at the start (`RequestChoices`): the same
for both jobs, or two that differ in their mode only. The first job may be
cancelled at any moment (`Cancellable`), the second is the one that has to settle.
One restart and one fetch, since a second meets no state the first does not. Jobs are numbered in creation
order, which eviction uses, so they are not symmetric. Deadlock checking is off
for all jobs and for the store: when everything has ended nothing needs to happen.

*Bounds of the optimization and pipeline runs.* Two optimization jobs, one of them
cancellable and evictable, over requests that reach every end of both runners:
empty, invalid and oversized ranges, random draws, missing artifacts, skipped
folds. Fold indices are checked for all lengths up to 17 bars, 2 to 5 folds and
every tenth as ratio, which covers every remainder. Two pipelines, one with an
informative timeframe, one of them cancellable; one poll before the timeout is
enough for it to race a completion; a cache of one result evicts the other's. The
first child of the first pipeline may be deleted (`Deletable`), at any moment.

*Bounds of the store run.* Three results in a cache of two, one with a lower-case
symbol and one without trades, so that eviction, merging and filters meet; trades
with equal and missing values, days with several points, and a curve whose dates
are no ISO dates. One listing at a time, since listings do not meet. Page sizes
from 0 to 3 reach the clamp, a page of one and a page that holds everything.

*Bounds of the limiter run.* Two threads with two requests each, one light and
one that takes most of the bucket, so that capacity is contended and a thread has
to wait for it more than once; two 429 answers in a row reach the cap of the
backoff; the observed window is longer than it takes to empty the bucket. Time
itself is not bounded: ages saturate.

*Bounds of the fetch run.* All 64 markets of six bars, in chunks of two bars:
ranges of one and of three chunks, aligned and not, open on either side, empty;
full histories that end at an empty chunk or at the third. The limit of five bars
is hit by the longest range only. One job, since jobs share nothing but the cache
and the cache is a set of timestamps.

*Bounds of the signals run.* Documents with each section at fault in turn, every
catalogued name alone and in the combinations that share a family, overrides on
and beyond their bounds, raw, enriched, informative and scarce bars in both modes,
with and without coverage (the shipped matrix covers everything, so the fallback
needs a name that it would not). For the strategy, three bars between resets: one
to record a crossover, one on which an operand is missing or a position is held,
one on which the memory decides. Memory of a key is one pair, so a longer history
meets no new state.

*Bounds of the indicators run.* Up to seven primary bars over three days, rising,
falling, inside, flat and without volume, two informative bars delivered at any
moment, twice or not at all, and one reset. Periods of two to four and four
buckets: windows fill, slide and cross session ends. Minima of sessions are
scaled with the three days: two instead of the five that `profile_shape` waits for
(`MinSessions`), so that a frame below the minimum and one at it are both there,
and `WyckoffSessions` two. No informative indicator of this run is a
session-count one; the `resolver` run has `wyckoff_phase` beside `bos`, with one
bar per session (`InfoBarsPerSession`), and four deliveries. A few signals never fire on
these bars (lower lows after lower highs, zone failures, no demand and no supply,
effort to fall); what `SignalsSound` says of them rests on its proof.

*Fairness.* The backtest loop is one thread that never waits: weak fairness of
`Next`. For the indicator jobs: the event loop and every pool thread go on when
they can (weak fairness of `Loop(j)` and `Work(j)`), a call to `start`, `cancel` or
`delete_artifact` that has begun ends, and asyncio's semaphore serves waiters in
FIFO order (strong fairness of `Acquire(j)`). For optimization jobs and pipelines:
coroutines, threads and a `cancel` that has begun go on; nothing is assumed of the
indicator jobs a pipeline waits for, since its timeout is what makes it settle.
Nothing is assumed of users. `JobsLive` is about the jobs nobody cancels, beside
which others are cancelled and deleted: after a cancellation nobody awaits the
thread, and a job whose thread then raises stays `running`. For the limiter: time passes, and a thread that is awake runs. No
fairness between the threads is assumed beyond that, and none on the answers of
the exchange; requests are finite. For the fetch jobs: the thread pool runs a
thread that was started, and a `cancel` call and the event loop end what they
began. The parser, the use case, the store and the enrichment have no liveness
property: they are called and return.

## 4. Proofs

Every theorem is proved for all values of the constants that satisfy the named
assumptions of its module. An assumption says what the code guarantees of its
inputs: a chunk has at least one bar, the numbers of a document are numbers, a
request fits in the bucket. TLC evaluates each of them on the runs.

| Module | Theorem | States |
|---|---|---|
| `BacktestEngineProofs` | `TypeCorrect`, `MoneyConserved`, `MarginConsistent`, `OrdersBounded`, `StopsProtect`, `EveryTradeDated`, `ResultReconciles` | `TypeOK`, `MoneyAccounted`, `MarginAccounted`, `OrdersLiveOneBar`, `StopProtects`, `TradesDated`, `Reconciles` |
| | `ExitsAreTraded`, `EntriesAreHonest` | the action properties `ExitWithinBar`, `OrdersWithinMeans` |
| `HyperliquidRateLimiterProofs` | `LimiterTypeCorrect`, `LimiterEnvelope` | `TypeOK`, `WindowEnvelope` |
| `IndicatorJobsProofs` | `TypeCorrect`, `PermitsNeverLeak`, `ReuseIsSound`, `NothingIsLost` | `TypeOK`, `PermitsAccounted`, `ArtifactsMatchRequest`, the action property `NothingLost` |
| `PriceFetchProofs` | `FetchesAreExact`, `CacheIsFedWhole` | `FetchExact`, the action property `CacheFedWhole` |
| `OptimizationJobsProofs` | `GridComplete`, `SortedIsPermutation`, `FoldsAreSound` | the grid, the ranking and the windows, for every input |
| | `SearchIsSound`, `ProgressNeverFalls` | `SearchSound`, the action property `ProgressForward` |
| | `SearchesRefineLifecycle` | every step is a step of `JobLifecycle` or a stutter |
| `StrategyPipelineProofs` | `CacheBounded`, `SavesAreReadable`, `DeletesAreFinal` | `StoreTypeOK`, `SavedIsReadable`, `DeletedStaysGone` of the store alone |
| | `ListingsAreFull`, `PagesShowAllTrades`, `CurvesShowAllDays`, `ViewsAlwaysAgree` | `ListingFull`, `PagesCover`, `EquityViewsAgree`; together `ViewsAgree` |
| | `ResultsAreBacked`, `PipelinesRefineLifecycle` | `ResultsBacked`; the refinement of `JobLifecycle` |
| `StrategyEvaluationProofs` | `ReplaysAgree`, `BracketsHold` | `SignalsReplayable`, `BracketAroundClose` |
| | `RunsStartAsDefined`, `ParityIsHonest` | `RunsAsDefined`, `ParityHonest` of the use case |
| `CausalEnrichmentProofs` | `OnlyClosedBarsShow`, `NothingIsSeenEarly` | the cursor for any indicators; `NoLookahead` without session profiles |
| | `FormsOfEnrichmentAgree` | `EnrichmentAgrees`: parallel, sequential and merged rows |
| | `SignalsNeverRepaint`, `RisesMirrorFalls`, `SignalsAreSound` | `SignalsCausal`, `PatternsMirror`; together `SignalsSound` |

Each module has one inductive invariant, `IInv` where it has no other name. It
was checked with TLC before it was proved, and its proof has one lemma per action.

*BacktestEngine.* (`MarketAssumption`, `ConfigAssumption`.) `IInv` is

- `Booked(state)`: the ledger, the cost ledger, the mirror and the margin book
  together, because closing a position uses each to re-establish the others; with
  `Sided` (size, direction and entry price agree, a flat position is the reset
  one), since the branches of `Close` test the direction and the ledger is about
  the size; and `Rounded` (reported and exact profits differ by at most half a
  cent per trade), which bounds the reconciliation for any number of trades;
- `Protected`: the stop, after slippage and rebasing;
- the order invariant, and that the loop body only runs past the warmup bars;
- at the margin call, the position is not in the liquidation range of the bar:
  this, with `low <= close <= high`, is why the margin call never fires;
- at the head of the loop after a tradable bar, the last equity point is the
  cash plus the position at the bar's close, so that a run that ends flat reports
  its cash, and `done` means flat.

The argument is by operator: `CloseLemma` says what any close does to `Booked`,
`OpenLemma` and `EnterLemma` what an entry does, `BookedSame` that bookkeeping
untouched is preserved. The two action properties read off which actions can open
or close a position, and then are about `ResolveSize` and the resolver of a bar.

*Rate limiter.* (`LimiterAssumption`, `ErrorsAssumption`.) `WindowEnvelope` does
not know how much room the bucket has. The strengthening `Envelope` does: what the
window has been granted is either still recorded in the bucket or has been
replenished since the window was opened (`winWeight <= weight + winAge - updated`).
A grant adds the same weight to both sides, a replenishment moves the elapsed time
into the bucket, and a tick ages window and bucket alike. That every request fits
in the bucket is an assumption; the fetcher's weights (at most 103 of 960) satisfy
it.

*Indicator jobs.* (`JobsAssumption`.) That a permit is neither leaked nor forged
needs that a job gets its coroutine once (`Ordered`). That stored bars are of the
job's own request needs what a thread carries between its steps (`Carried`): the
artifact it found by its hash may have been deleted or overwritten meanwhile. That
a row is never rewritten needs that a thread that has not stored yet has no row.

*Fetches.* (`FetchAssumption`.) What has been read so far is the market from one
date to another (`RangeRead`, `HistoryRead`) with the bars at the boundaries of
its chunks twice; the deduplication leaves each once. How often they are there
twice matters for the safety limit only, which counts them.

*Search.* (`OptimizationAssumption`; in it, that a metric the engine reports lies
between the two infinities, so that the profit factor of a run without losses
ranks first. A combination that fails is scored 0, whatever its neighbours.) The grid is a recursive function over the ranges; that it lists
every point once is an induction with the digits of a position (`Digits`). The
invariant follows a thread by what it has tried, found and announced (`Thread`);
`RankingComplete` and the refinement are read off it. An induction over the
numbers is stated for a set instead of a predicate (`SetInduction`).

*Store and pipeline.* (`StoreAssumption`, `PipelineAssumption`.) That a saved
result can be read does not depend on the cache: whatever it evicts, the row
decides (`Written`). That a deleted one stays gone does: no `Put` of the same
result may come between the two halves of a delete (`Removable`). That a backtest
has its bars rests on the event loop: the coroutine that has it keeps it until it
sleeps or ends (`LoopHeld`), so nobody moves the cursor with which it collects its
artifacts (`Collected`).

*Views of the store.* (`StoreAssumption`: values of trades and points are numbers
or missing, and upper case is upper case of itself.) The model makes a list by
giving each element a rank; distinct ranks up to the number of elements list every
element once (`RankedOnce`). A listing is the rows up to the limit followed by the
cached results that are not among them: either the rows already reach the limit,
or every row that matches is there, and then with the records copied before every
result that could be read all the while. A record that was copied and is not
cached any more was evicted, and has a row, or was deleted (`ListInv`, one lemma
with the invariant of the store, then `ListedFull`). Pages are about places: the items
before page `p` are `p` times the page size (`Skipped`), every place of a sequence
falls on one page, and earlier places come on earlier pages or before it on the
same. What is shown in order then follows from the order of the list that is cut.
A day's place in a curve is that of its first point and its value that of its
last, or its lowest, so each day is there once (`EachDayOnce`); a curve that is
not cut by days is there point by point (`WholePaged`).

*Refinements.* `PipelinesRefineLifecycle` and `SearchesRefineLifecycle` show that
initial states map to an initial state of `JobLifecycle` and every step to a step
or a stutter (`Lifecycle!SafeSpec`). The invariant is needed where a job comes to
rest: its outcome must be what the status already says.

*Evaluation and use case.* (`EvaluationAssumption`, `RequestAssumption`: the
numbers in bars, risk blocks and documents are numbers, and there is one null.)
The crossover memory is, key by key, the pair of the last bar on which the key
could be read, by induction over the bars shown; the bracket is the arithmetic of
`round`. `StagesSound` says what each stage of the use case leaves to the next;
`ResolvedBounded` that a valid definition resolves every parameter within its
bounds.

*Causal enrichment.* (`EnrichmentConstants`.) `CursorSound` ties the p-th row of
the cursor to the p-th delivery it took, and every row passed to the time of the
bar handed out. The rows stay those a new engine computes (`RowsComputed`) as long
as a reset makes the engine new. It does unless an informative indicator reads the
session profile, whose state `reset` keeps (see the observations); the hypothesis
`~Info!HasSessionVp` of `NothingIsSeenEarly` says so. That the rows shown had
closed, `OnlyClosedBarsShow`, holds for any indicators.

*Forms of enrichment.* The availabilities of the rows taken are in order
(`InOrder`), because the cursor refuses a row that is older than its last. So the
cursor of every form, advanced to a primary bar, stands at the last row that had
closed by then (`ClosedBy`), whether all rows were appended before or only those
of bars that had opened (`ParallelStep`, `SequenceStep`): a bar that has closed
had opened. The batch merge finds the same row by its maximum (`MergeShows`). It
differs where a row without any value follows one with a value: it drops that row
and carries the earlier one forward, where the cursor shows the missing one (`ibs`
and a flat bar). `EnrichmentAgrees` says so and compares the merge elsewhere. The
parallel and the sequential form read rows of different engines, so the argument
is about which row is shown, for any rows (the same index for every primary bar);
that the values are the same is then concluded where no window depends on the
resolver (`ResolverIndependent`). Where one does they differ: the `resolver` run.

*Signals.* (`PriceActionConstants`; in it, that a sweep has a row to look back on.)
Two frames that have the same bars up to a row have the same signals there
(`AgreeTo`, with a lemma `Same...` per family); a batch over more bars is such a
frame. Breaks of structure read the swings of the whole frame, but only those that
are confirmed by the row, and what was broken last is a recursion over earlier
rows. For the mirror images, a frame and the frame upside down are related by
`Mirror`: highs and lows swap with the sign turned (`ExtremesMirror`), so do the
order of any two prices (`OrderMirrors`) and every move (`DiffMirrors`), and
ranges and volumes stay (`AveragesMirror`). Each bullish pattern is made of these.
That bars have integer prices and no negative volume is `FeedBars` in
`EnrichmentConstants`. The windows may have any length, so the patterns that do
not fire on the bars of the run are covered here.

*Only model-checked.*

- `StreamExact`: it compares the states of the stream, which are folded over the
  bars, with their definitions on windows, for every indicator and its warmup.
- `ProfileSound`: profiles are folds over buckets and bars, and settle session by
  session: what a row says of a finished session does not change later, except
  that shapes are missing until there is the least number of sessions and are then
  given to all of them at once. With it the signals at the levels of a profile as mirror images
  (`LevelsMirror`).
- `CatalogueHonest`, whose batches are folds over sets of names in any order.
- All liveness properties (`PositionsClose`, `JobsLive`, `AllServed`,
  `FetchesSettle`, `PipelinesSettle`) and the fairness part of the two refinements
  (`KeepsLifecycle`): liveness and `ENABLED` are beyond the prover.
- `NotGroupsAccepted` and `ParallelEqualsSequential`, which do not hold.

## 5. Not modelled

Floating point; performance metrics and the statistical proxies, which are
real-valued estimators over windows of returns; descriptions, the schema document
and other texts; formatting and argument checks of the routes; HTTP. In the
indicator jobs: starts without a running event loop; paging and listing, which
only read. The row expiry of the artifact table is never called by the code. In
the backtest: `used_margin` without leverage, which the code never releases and
never reads. In the search: the figures aggregated over the folds of a walk-forward, computed
from finished results. In the fetches: other sources than Hyperliquid, ticker
lists, the
values of bars, expiry and eviction of fetch jobs (those of the optimization jobs
are modelled). The CoinGlass and Yahoo limiters. In the evaluation: confidences,
labels, and the tolerance of `==`.

### Observations

Behaviours that follow from the models as they stand and that no run states,
mostly against a comment or a document.

*Backtest.* With leverage, liquidation is tested before the stop and a gap through
both fills at the liquidation price, which the bar never traded
(`position_executor.py:172`; `docs/BACKTEST_EXECUTION_MODEL.md:41`: "If `open <=
stop_price`, fill at `open`"). A rejected entry (stop on the wrong side or beyond
liquidation) is only logged, where `docs/BACKTEST_EXECUTION_MODEL.md:339` promises
a structured diagnostic. The reported `reconciliation_error` is not always zero,
as some tests put it, but at most half a cent per trade.

*Indicator jobs.* The thread of a cancelled job overwrites its status
(`indicator_job_runner.py:517`). After a cancellation the permit is returned while
the thread computes, so more jobs compute than
`in_memory_indicator_job_manager.py:77` allows. `cancel` tests the status without
the lock: a job that completes in between is marked cancelled with its artifact
stored. A running job that is deleted is stored again by its thread. A job started
without a running loop would use the semaphore from a second event loop. An
artifact evicted from memory is rebuilt without its enrichment mode and rejected by
causal backtests. The content hash does not change when derivatives data arrives,
so an older artifact is reused (`indicator_job_runner.py:396` says it is not).

*Limiter and fetches.* A thread that waits for capacity is granted during a
backoff set meanwhile (`hyperliquid_rate_limiter.py:104`: "do NOT proceed before
the new deadline"). The answer of a full-history fetch descends inside each chunk
(`hyperliquid_fetcher.py:229`: "recover chronological order"), and ends at the
first gap longer than a chunk. `save_bars` answers 0 when it fails and the job
still completes. Of two concurrent fetches the one that read the live candle
earlier may overwrite the newer one. The CoinGlass client asks its limiter once
for all attempts of a request.

*Search.* A combination that fails keeps the metric 0 and ranks above every losing
one; rolling folds may overlap in their tests and leave the tail untested;
`min_test_bars` is not applied: the announcement counts the folds with
`max(1, min_test_bars)` bars to test (`walk_forward_optimizer.py:110`), the loop
runs those with one (`walk_forward_fold_helpers.py:44`;
`walk_forward_config.py:24`: "Minimum bars required in the test window."), so the
percentage of a walk-forward may pass 100 on the way. A cancelled job whose thread
marks it running and then raises stays running.

*Pipeline and store.* Cancelling a pipeline cancels the indicator jobs of every
other one. A job that is completed and not yet stored ends a pipeline with
"Artifact bars not found". An exception of the engine gives a completed pipeline
whose result has an error, and a failed save a completed one without an id. A
delete between the two writes of a save leaves the row, a failed write leaves a
record in memory only, and the SQL filter on symbols is case-sensitive where the
one in memory is not.

*Definitions.* Undeclared frame-dependent names in conditions leave
`live_parity_safe` true in a batch; so does an engine exception. Names without a
computation (`sma_1`) are accepted and raise in live-parity mode. Coils, power
zones, balance status and breakout levels read columns they do not require, so
they depend on the order of a set (`pandas_ta_indicator_calculator.py:61` promises
transitive dependencies). Sources of a fallback after the first are neither
required nor computed. `timestamp` is accepted as an operand and never a column.
Text columns make a strategy without tradable bars. Two informative timeframes of
one interval collide. The serialised definition drops percentages, ratios,
fallback sources and formulas. A crossover compares with the last bar on which
both operands could be read, which need not be the bar before
(`packages/strategy-runtime/README.md:488`).

*Indicators.* `reset` keeps the VP-derived state and the history of session POCs
(`streaming_indicator_engine.py:268`; `streaming_indicator_calculator.py:49`:
"Clear all per-indicator state"). VP-derived states are given the current levels
for the previous row too. A window of 20 bars never lets stopping and climax
volume fire in a stream. An informative update changes the engine before the cursor
refuses it. Fibonacci levels are drawn from the last swing of the whole frame
(`fibonacci_levels.py:123`), so a bar between its end and the end of the frame
changes or loses its level when a later swing completes; the docstring of the
swing says "Both points must be fully closed (no look-ahead)"
(`fibonacci_levels.py:47`). Day types describe a whole day, on its earlier bars
too. Profile shapes of finished sessions are NaN in a frame of fewer than five
sessions and labelled in a longer one (`profile_shape.py:110`). The resolver the
parallel form lacks is a finding with a run of its own. The higher-highs pattern reads highs at confirmation bars. The
batch merge drops an informative row without any value and carries the one before
forward (`bar_merger.py:96`), the causal cursor shows the missing row: with `ibs`
as the only informative indicator and a flat bar the two paths differ.

## 6. Plan

1. Proofs about the operators of `StreamingStates`: the rolling sums of `sma` and
   `rvol` equal the sums of their windows, and the value area of a profile holds
   its share of the volume.
2. Proofs: that the batches of the calculator compute what `CatalogueHonest` says,
   in any order.
3. Models: the sliding-window limiters, indicator jobs without a running loop,
   the composition of `StrategyEvaluation` with `BacktestEngine`.
