# Milodex in TLA+

Milodex is a personal, autonomous paper-trading system. One process per
strategy (the *runner*), an operator's CLI and a GUI share one Alpaca account,
one SQLite event store, a bar cache and a directory of lock files. No process
is in charge: what keeps the account within its limits is a protocol of locks,
transactions and compare-and-set updates between processes that can be killed
at any time. This directory models that protocol and the rules it enforces,
checks them with TLC and proves central properties with TLAPS. Source paths
below are relative to `src/milodex/`.

## Inventory

| Component | State | Operations | What is hard | What makes it correct |
|---|---|---|---|---|
| Advisory lock, `core/advisory_lock.py` | a file per lock name: pid, start time, mtime | acquire, acquire_blocking, refresh, release | separate system calls, stale takeover, pid reuse, crash between create and write | one holder as long as takeovers remove orphans; the file names it; an orphan is reclaimed |
| Submit path, `execution/service.py`, `execution/state.py` | submit lock, `execution_attempts`, `trades`, kill-switch events, the broker's orders and positions | submit, cancel, halt, reset | crash around the broker call, uncertain answers, a halt that races a submit, snapshots that age | no unknown order, no duplicate, caps hold, a trip stops the account |
| Risk evaluator, `risk/` | none (reads a snapshot) | seventeen checks, all run, fail closed | boundaries, reducing orders, pending orders | each check means what the policy says; a covered exit is never capped |
| Attribution and profiles, `risk/attribution.py`, `risk/profile_activation.py` | two config files, audit rows | fold trades into positions; switch a profile | two writes, check-then-act, hand edits | ledgers add up; limits stay under the ceilings |
| Queue at open, `strategies/runner.py`, `core/event_store.py` | `queued_intents`, `strategy_runs`, the runner's memory | lock in, persist, supersede, sweep, drain, consume | overlapping sessions, crash between any two commits, config edits, hand-over | a decision is sent at most once; an exit never vanishes silently |
| Session loop, `strategies/runner.py`, `data/sessions.py` | watermark, open lot, unresolved attempt | evaluate, truncate, flatten, freeze, rest | deadlines, late bars, moved closes, unknown delivery | no bar is missed; flat or alerted at the close; nothing sold twice |
| Runner control and orphans, `strategies/paper_runner_control.py`, `orphan_reconciliation.py` | lock files, stop-request files, `strategy_runs` | start, request stop, consume stop, reap | check-then-act on files, a reaper against a starting runner | one runner per strategy; a closed row is a dead runner's |
| Reconciliation, `operations/reconciliation.py` | `reconciliation_runs`, trades, adjustments | compare, sync local-only orders, resolve a position | positions, orders and rows read one after another; concurrent syncs; deaths | a clean verdict is right; store and broker agree once settled |
| Promotion, `promotion/` | YAML stage, manifests, promotions | promote, demote, freeze, return | file and database commits are separate; edits by hand | a stage is earned; the ledger is written first |
| Command bench, `commands/bench.py`, `gui/` bridge | proposals, workers, orchestration jobs | preview, submit, revalidate, dispatch | state changes between preview and dispatch | a job says what became of it |
| Backtesting, `backtesting/` | simulated ledger, `backtest_runs`, explanations, trades | simulate, walk forward, screen in a pool, compact | fills and cash at boundaries; concurrent runs, a broken pool, a prune | cash and positions balance; a completed run is explained |
| Market data, `data/` | one parquet file per symbol | get bars, heal, backfill; two scans | unlocked read-modify-write, splits between two calls | a call serves one adjustment epoch |
| Strategies, `strategies/*.py` | none | `evaluate` | boundaries of rules | orders the simulator can account for |
| Broker client, `broker/` | none | submit, cancel, list | errors that say nothing of delivery | an error is never taken for a refusal |
| Analytics, research, CLI, GUI | views | | presentation, statistics | outside this project |

The components meet in few places. A runner takes its *runner lock* for its
whole life and the account's *submit lock* for each submit; both are
`AdvisoryLock` files. The runner drains its queue through
`ExecutionService.submit_paper`, and the consume compare-and-set runs inside
that submit, between the risk checks and the broker call. The operator's halt
writes the kill-switch events that every submit reads. The reaper and a
starting runner close `strategy_runs` rows, which the drain's hand-over
predicate reads. Reconciliation writes the verdict that the risk gate asks for.
Promotion and the runner meet in the frozen manifest; the bench calls all of
them in the operator's name. Backtests and `maintenance compact` share the
explanations table.

`PROJECT.json` lists the components with their status, every hazard at its
line, the runs, the theorems and, under `map`, the lines each definition
translates.

## Modules

| Module | What it is |
|---|---|
| `LockSpec` | the abstract lock: free, or owned by one process |
| `AdvisoryLock` | the lock file, one system call per action; implements `LockSpec` |
| `SubmitPath` | the submit section, the outbox, the broker, halt and reset; takes its lock from `LockSpec` |
| `RiskRules` | the risk checks, the profile's limits and its switching rules, as operators |
| `RiskDesk` | one account: traders judged by `RiskRules` while prices move and the profile is switched |
| `QueuedIntents` | one daily strategy's sessions, queue, drain and market clock |
| `SessionLoop` | the poll loop of one intraday strategy |
| `RunnerSessions` | runner processes, launcher, stop requests, reaper |
| `Reconciliation` | trading, reconciliation passes and the per-strategy ledgers over one broker |
| `Governance`, `Bench` | one strategy's lifecycle; the GUI's command desk on top of it |
| `DailyStrategies`, `IntradayStrategies`, `Backtest` | the strategies as functions; the simulator that runs them |
| `WalkForward`, `BacktestRuns` | windows, aggregate and ranking as operators; the rows of backtests, batches and compactions |
| `BarCache`, `BarQuality` | the shared bar cache; the two scans of bar data as operators |
| `MC...` | model values, scenarios, symmetry, and assumptions TLC evaluates over bounded inputs |
| `...Proofs` | inductive invariants, lemmas and theorems |

Definitions commented `Fault:` or `Mutant:` are plausible bugs. No
specification uses them; each is put in the place of the definition it names to
see that a property notices.

### AdvisoryLock

`file` is the inode the path names, `pc` where each process is in `acquire` or
`release`, `seen` the pid it read. Reading the holder, judging it, unlinking,
the exclusive create, writing the holder, the release check and the release
unlink are separate actions, because each is a separate system call. Processes
in `Mortal` may die anywhere (the file stays), and a dead pid may be recycled,
after which it looks alive. `Age` is the twelve hours after which a file counts
as orphaned; only a file whose creator does not run gets old, because a live
runner refreshes each cycle and a submit lasts seconds. A machine that sleeps
longer breaks this assumption; `RunnerSessions` models the suspension. Reading
a file is atomic: an empty or half-written file has no readable holder.

### SubmitPath

A process goes through the steps of `_submit`: lock, `get_positions`,
`get_orders`, the decision, the outbox row, the request, the answer, the
finalised row, the explanation and trade, the release. `cur` holds its locals.
`attempt`, `intentOf`, `recent` and `trade` are the event store by
`client_order_id`; `order` and `pos` are the broker's truth. A request is
`inflight` until the broker takes it (`open`) or loses or refuses it (`gone`);
the answer the process gets need not agree: only "submitted" implies that the
order landed, since `alpaca_client.submit_order` turns every other `APIError`,
a 5xx included, into a rejection. `killed` is the latest kill-switch event, and
`halting` the operators between `cancel_all_orders` and the flip. A submit that
meets a loss breach halts through the same two steps, inside its section.

`raced` remembers that a fill fell between a process's two broker reads, or
that an order landed after its submitter had stopped waiting. ADR 0056 excludes
both from what the lock can promise, so `PositionCap` and `NoWashTrade` are
stated with that reservation. The lock is `LockSpec`'s, free again as soon as
its owner dies; the lock file is that lock while its takeovers remove orphans
only, and two submitters that judge the same dead owner's file at once are
outside this module and in `lock_race`. `late` remembers the orders sent since the last
trip. Data left out: prices, quantities other than one, stages, manifests,
staleness. The checks over them may veto anything (`Veto` is always possible).

### RiskRules and RiskDesk

`RiskRules` has every check of `evaluate()` over an `EvaluationContext` record,
with the exposure folds, the disable-condition catalogue, the staleness verdict
and the operator's profile: how the selector file becomes limits under the
ceilings, when a switch is refused and when the audit trail disagrees. Money
and percentages are integers and a cap is compared without division.
`RiskDesk` drives those operators: traders start, enter, exit in full and stop,
orders fill at a later price, prices move, and the GUI switches the profile in
its three steps (check, `os.replace`, audit row) while the file may be edited
by hand. An order is *blind* when what it fills into is not what it was judged
on; `FillsWithinExposure` is about the others. The broker nets what everybody
holds of a symbol with what is `Elsewhere`, in no trader's ledger, so a trader's
lot may face a net position that does not cover it (ADR 0055): to the evaluator
its exit is then a naked short, and `ExitsPassCaps` is about the covered ones.
`HeldIsExitable` is stated and
does not hold: after a reduction from aggressive to conservative an account
with three positions against a limit of one cannot exit any of them, because
`_check_concurrent_positions` counts what is left (theorem
`ExitBlockedByCount` says exactly when). The disable-condition catalogue adds
no veto of its own (`DisableConditionsAddNoVeto`).

### QueuedIntents

A key is the UNIQUE `idempotency_key`: with one strategy and one symbol that is
the session day and the class (entry or exit). `rows` is the table, with the
owner's session, the config hash and whether `expires_at` has passed; `runs`
holds `strategy_runs` with the exit reason (`controlled_stop`, or anything else
as `unclean`); `claims` the attempts written by the consume transaction; `sent`
counts broker calls; `sess` is each process's memory, lost when it ends.

Each poll sweeps expired rows, then drains (market open) or locks in (closed).
Every commit is its own action, so a session may die between the sweep and its
alerts, an alert and the retirement it explains, a persist and the supersession
that follows it, the consume and the broker call. The consume hashes the config
file (`Rehash`) before its UPDATE asks the other predicates again (`Claim`); a
file edited in between is not noticed, which `event_store.py:2424-2441` admits. Sessions overlap freely: the
runner lock is not assumed, so what holds here holds however it fails. The
drain's reasons to skip, drop or retire a row are nondeterministic choices with
the code's consequences. A config file that cannot be read behaves as one with
another hash. The seven-day expiry is `TimePasses`, at any time but oldest rows
first. The drain takes its rows in any order where the code goes by row id. A
lock-in does not span an opening.

### SessionLoop

Time is in ticks; a bar is one tick wide. A cycle reads the clock, the session
table and the broker's next close, fetches bars that a vendor publishes up to
`MaxLag` late, decides, and submits with every outcome: accepted, rejected,
blocked, or unknown delivery. In `same` mode the position is flattened before
the close and an unknown sale freezes the lot; in `multi` mode bars are
truncated at the cutoff, the clock as it reads after the fetch, and the runner
rests once the session is drained. Every alert may be refused by the store, and
the cycle goes on: `run.refused` remembers the day of a refusal, of an alert or
of the delivery check, that no later alert made good. `placed` counts orders the
broker accepted; whether they fill is Reconciliation's (`NeverShort`). A
cycle takes no longer than a bar, and `MaxLag + Bar < Allowance`: the runner
reads the clock for the drained margin after its fetch (`runner.py:541-548`),
so a process stalled longer between the two may rest too early. An early close
before any bar is excluded by the bounds: the drained margin is then armed on
yesterday's anchor. Stated and not holding: `EvaluatesFinalBars`, in `multi`
mode only (`session_forming`). Observed while modelling: an unchecked flatten
leaves no alert in that cycle; `NeverOversold` is about `same` mode; a BUY of
unknown delivery never becomes a lot.

### RunnerSessions

A runner goes from the lock file (create, then write the holder) over the
orphan recovery and the append of its `strategy_runs` row to the loop, the
shutdown and the release. The launcher clears a stale stop request and spawns;
a stop request names the holder the operator saw; the reaper lists rows and
holders, checks, closes the row, checks again and unlinks. The machine may be
suspended, after which a live holder's file looks aged. `stolen` and `exposed`
remember whose file was removed by somebody else and whom the reaper's last
check could not have seen. Stated and not holding: `NeverReapsRunning` (a row
may be closed between the reaper's two checks of its runner) and
`MootIsHarmless` (a stop request that names a dead holder stops its successor).

### Governance and Bench

`file` is the YAML file (stage and parameters, which stand for their own hash),
`ledger` and `manifests` the append-only tables, `tests` the evidence on
record, `op` what each operator's process is doing between its reads and
writes, `runner` what the paper runner was bound to. Each step may be its
process's last, a file write may fail, and the file may be edited by hand.
Promotion is to paper only, as Phase 1 blocks the rest. At most one test is on
record at a time, so that "latest" needs no order. `Bench` adds the bridge:
a proposal is previewed, waits, is taken once by a worker, revalidated and
dispatched to Governance, to a backtest or to the runner control. What
readiness finds wrong is chosen anew at every evaluation. A `PromoteError` is a
block to the facade, like a refusal of the gate; a store that refuses an append
raises through governance (`StoreRaises`), which in the return to backtest
leaves the file rewritten and the job running (`bench.py:1485`). Stated and not
holding: `PromotedWasTested` (the hash match that ADR 0015:59 asks for compares
the manifest, not the run that earned the promotion), `NoStageSkipped`,
`DemotionFlagged`, `BlockedWroteNothing`, and in `Bench` `StartNamesItsSession`
(the launch reports the newest row, which may be an older session's).

### Strategies, Backtest

`DailyStrategies` and `IntradayStrategies` have `evaluate()` of every strategy
and benchmark as a function of bars, positions and equity, with indicators
multiplied out so that integers suffice. `Backtest` walks a history that is
chosen bar by bar: decisions at a close fill at the next open, the daily walk
drops an order whose symbol did not open, the intraday walk keeps it, a
same-session strategy is flattened at the close, and of the orders a flattening
overtakes only the sells of what it closed are dropped. A session without volume
has no VWAP, and its rules then neither enter nor leave on it. Money is in tenths, and the
commission is at most the proceeds, without which `NoBorrowing` fails on a sale
of a worthless lot. The policy is BYPASS, the engine's default. Stated and not
holding: `SingleAsset` (a sale whose symbol does not open is dropped while the
purchase is filled; this takes five days). Observed: the NR7 breakout's `stop_price` is never in
the entry state it is read from (`breakout_nr7_inside.py:205-208`); the
opening-range strategies leave a held position alone when the range is missing;
a BUY pending at the close fills in the next session.

### WalkForward, BacktestRuns

`WalkForward` cuts a history into windows, stitches the out-of-sample curves
and ranks rows. `BacktestRuns` is the rows: single runs, and a batch in one or
two worker processes under a parent, beside a compaction. A fill and its
explanation are one transaction, a skipped order takes two, explanations of
"no action" wait until the window ends. Explanation ids are numbered per run.
A foreign-key refusal makes the run fail; a failing close-out leaves its row
`running`; a dead worker breaks the pool, and one prefetched call survives a
cancel. A live run may be marked `orphan_recovered` by another process, and its
own finalize overrides that. `CompletedIsExplained` excludes the runs of
`prune_race`'s finding. Equity snapshots, metrics, VACUUM and backup are left
out.

### BarCache and BarQuality

`BarCache` is one symbol's file read and rewritten by processes without a lock:
the gap fetch, the adjustment probe and its heal, the merge and the atomic
rename, and the CLI's backfill. A bar is its day, whether it was final when it
was fetched and how many corporate actions it is adjusted for. A request is
answered in full or not at all; the requests of a call come in any order,
because a batch sends each range for the symbols that need it. A call is
`overlapped` from another's write until it reads the file again: `merged_view`
does so before it writes, which takes the other's rows in unless the rows it
fetched itself are the older ones; a heal does not. A write by an overlapped
call sets `raced`, and `lost` for the calls whose rows it may have dropped;
`extended` remembers calls that reached before the cache. `HitIsOneEpoch` is
stated without `raced` and `extended`, `ServesItsFetch` without `lost`, and
`NothingTakenBack` excuses only the overlapped write itself. Observed: a
daily bar cached during its session is never fetched again, as `docs/SRS.md:97`
allows; the comment on `backfill_range` is about a probe that passes after the
earliest bar was backfilled. The write-contention alert is left out.
`BarQuality` has the daily scan that blocks or warns before a backtest and the
intraday scan of a session's grid. A day that every symbol lacks is invisible to
the daily scan (`CommonGapIsInvisible`).

### Reconciliation

One log stands for trades and adjustments; time inside a day is its length. A
pass reads the broker's positions, then its orders, compares both with the rows
stamped before it began, and its caller persists a verdict, corrects a
position, or looks the lost orders up and appends rows one by one. Strategies
place and record orders meanwhile, the broker fills in part, in full or
cancels, and any process may die. Left out: incidents and explanations (audit
rows that no step reads) and `--as-of`. A reconciliation from the GUI is a
session's without the runtime lock. "Cancelled" covers rejected and expired.
Observed: `get_order` maps every `APIError` to `BrokerError`, so a lookup that
fails for any reason records the order as cancelled (the properties assume
`AllKnown`); an order filled in part and cancelled is recorded as cancelled; a
slow clean run persisted after a newer dirty one wins; a start-up pass across
midnight counts for the new day.

## Runs

| Run | Instance | Question and answer |
|---|---|---|
| `lock_race` | 3 processes, one may die | **violated**: two waiters judge the same dead holder; the slower unlinks the faster one's fresh lock |
| `submit` | 2 processes, 2 symbols, cap 1, 2 order ids; either entries and exits near the caps, or one entry with deaths, a halt and a reset | the cap holds and no wash trade rests while two strategies race; no unknown order, no duplicate, records agree and one straggler at most when processes die |
| `queue_exits` | 2 sessions, exits of two days, 3 days; or 2 traders, 2 tickers, 3 orders, one price move, one switch of the profile | one order per open, an exit is retired only for a reason; an exit passes the caps and fills stay within the exposure cap while the profile changes |
| `queue_entry` | an entry and 2 sessions or an exit and one, 2 config contents, 2 days, fair; or a lock file and 2 processes, one of which may die, fair | an expired row is settled in the end; the file protocol implements `LockSpec`, and an orphaned readable file is taken over |
| `sessions` | 2 runners, one each of the rare events, fair | one runner at a time, phantoms are dead, the reaper steals only what it could not see, an orphaned row is closed |
| `bench_desk` | two CLI operators, or one worker of the GUI; 2 parameter sets, 2 rows, 1 edit, 1 proposal place | promotions are earned and logged first, jobs tell the truth |
| `backtest` | every strategy over every history of 2 symbols and 4 days, or 1 symbol and 2 sessions; or single runs, a batch and a compaction | the simulator borrows nothing, is flat at the close, enters once, accounts for each order; rows agree with explanations, results with rows |
| `reconcile` | 2 strategies and an operator, lots of 2, 2 orders, 2 passes, one rollover | once settled, store and broker agree; a clean verdict is right unless the account moved |
| `session_loop` | one runner, 13 ticks of `same` or 10 of `multi`, fair | no second sale of a lot, no silent carry unless the store refused a row, no bar missed, overdue positions are settled |
| `session_forming` | the same runner, without fairness | **violated**: in `multi` mode a bar fetched while it formed is evaluated as final |
| `bar_cache` | 2 processes, 3 days, 3 calls, one corporate action | a hit is of one epoch, a call serves what it fetched, a write takes nothing back that its call has seen |
| `prune_race` | one backtest, one worker, one compaction | **violated**: the prune deletes the trade of a skipped order |

Runs combine modules that share no state: a variable `scenario` says which of
them a behaviour is about, so that one run asks what belongs together.

*Bounds.* Two processes race on every shared step and two orders are enough for
a duplicate, a cap of one and a wash trade; the stale-lock race needs a dead
holder and two contenders. Two exits on consecutive days are the smallest case
of supersession, and three days let the older one survive to the same open. Two
sessions are owner and successor, one after the other or overlapping. Three
position lots against a limit of two, and a price that doubles or halves, put an
account on either side of every cap. The two runners of `sessions` are
predecessor and successor with a reaper between. One proposal can be decided
upon by one worker while the operators change what it was previewed on; two
rows are a promotion and what undoes it. Four days are entry, holding limit and
exit of the daily strategies; five slots a session with a range, an entry and
an exit. A single run and a worker that share a strategy sweep each other's
rows, two strategies are enough for one that answers and one that does not,
two windows for a buffer flushed in one and abandoned in the other; a second
compaction meets what the first left. In `reconcile` lots of two allow a
partial fill. In `session_loop` a bar is a tick, the fetch may lag one, the
allowance is three; a day is regular, half, or unknown to the table, and a
close may move unannounced. Three days with one action let a cache span the
ex-date on both sides. Runs switch deadlock checking off where a bounded day
ends: all orders used, all calls made, all sessions over.

*Symmetry* is used only in runs without liveness: over processes and order ids,
sessions and tickers, strategies, and readers.

*Fairness.* A process that runs takes its next step (weak fairness): `run()`
polls without end and `acquire_blocking` retries. Not every write of a lock's
holder fails, whoever makes it; a confirmed close is in the end decided
on, since `_close_lockin_max_wait_seconds` opens the gate anyway; the store does
not fail for ever, neither the delivery check of every cycle nor the alert of
every flatten that was not sent (strong fairness in all three,
because the step competes with a failure or a repeated poll). An orphaned file
gets old, and the GUI's timer drives the reaper. Nobody is forced to die, stop,
edit a file or give up.

## What is proved

All theorems hold for every value of the constants under the named assumptions
in the modules (disjointness of "nobody" values, types of the sets); processes,
sessions, symbols, rows and orders may be arbitrarily many. They are about the
specifications without fairness, `Spec`, of which the runs' are special cases.
Each rests on an inductive invariant that TLC checked on the run's instance
first.

* `SharedFileProofs`, about the two files that processes share. `AdvisoryLock`:
  types; and, however processes die and pids recur, `MutualExclusion`,
  `HolderOwnsFile` and the refinement of `LockSpec`, of every behaviour whose
  takeovers remove files of the dead only (`TakesOrphansOnly`). The condition is
  needed: `lock_race` breaks all three without it. It is about the one step that
  can go wrong, and it holds if calls of `acquire` do not overlap
  (`OneByOneIsSafe`, through `ReadIsCurrent`: the path still names what was
  judged). The invariant says that whoever is past the create still owns the
  inode (`OwnersOwnFile`).
  `BarCache`: `HitIsOneEpoch`, `ServesItsFetch`, the action property
  `NothingTakenBack`, types. In `CacheInv` every bar of the file and of every
  frame in memory was once the vendor's, who only moves on (`Past`), and when the
  oldest bar's adjustment is current all are (`Epoch`): a corporate action
  rescales every day before its ex-date, so the oldest goes stale first. Hence no
  request may put fresh days in front of it (`AsksBehind`). The frame a call
  holds is the file's, or one whose merge takes the file in, unless a write
  overtook it (`FramesInv`). About the scan:
  its grid is the session mask (`GridIsTheSession`) and no count exceeds it
  (`ObservedWithinExpected`).
* `SubmitPathProofs`. Types, `OutboxFirst`, `NoDuplicateInWindow`,
  `TradeFollowsAttempt`, `AtMostOneStraggler`, `PositionCap`, `NoWashTrade`. The
  invariant `IInv` ties a process's step to the submit lock (`SectionInv`), to
  its intent and to its attempt's status (`AttemptInv`), keeps the duplicate
  check true from the decision to the outbox row (`NotDuplicateInv`, because only
  the lock's owner writes attempts), and says what a late order's sender holds
  (`StragglerInv`). `AccountInv` adds what the account may become: behind the
  owner's snapshot the broker's book only shrinks, so what the checks saw is at
  least what there is, until `raced` says otherwise. `CapHolds` supposes
  `StartsWithinCap`: an account handed over with more positions than the cap
  allows is not the code's doing.
* `QueuedIntentsProofs`. Types, `AtMostOneOrder`, `ClaimedTogether`,
  `CleanHandoff`, `OneOrderPerOpen` and `ExitRetiredForReason`. A session past the consume holds the only claim and has
  sent nothing yet (`SendInv`, `SentInv`), a row's claim and status agree
  (`RowInv`), memory names rows that exist (`KnownInv`), and a session has no
  run before it registers one (`RunInv`). `OrderInv` is about two lock-ins of one
  decision: the younger was locked in on an earlier day while the market was
  closed, and its process retires the elders before the open or is dead, in
  which case nobody else may claim the younger one.
  About single checks of `RiskRules`, in the same module, for every context: a
  covered exit meets no cap (`CoveredExitMeetsNoCap`), when the count blocks it
  (`ExitBlockedByCount`), what a passed exposure check means
  (`AllowedOrderFitsExposure`), that the loss check and the drawdown trip agree,
  that the disable conditions add no veto, that no file loads a limit above its
  ceiling. About `RiskDesk`: `ExitsPassCaps` and the action property
  `FillsWithinExposure`. `DeskInv` says that a lot waits unchanged for the order
  that sells it, and that a buy whose verdict nothing has overtaken is the only
  one pending, still fitting under the cap in force: meanwhile others only sell,
  which lowers what is invested and leaves the account's value alone. That rests
  on what a sum over a function is (`SumIsOne`, by induction on subsets written
  as a closed set, `UpThroughSubsets`) and that it follows a change of one of its
  terms (`SumChanges`).
* `RunnerSessionsProofs`. Types, `OneRunner`, `PhantomIsDead`,
  `StealsOnlyUnseen`. `SessionInv` says which runner the lock file names and
  which step it is at, that an open row belongs to a registered process, and what
  the reaper has seen of both at each of its four steps.
* `BenchProofs`. Types, `PromotionsAreEarned`, `DurableFirst`,
  `JobsTellTheTruth`. `BenchInv` follows each call from
  step to step: whoever is about to write `paper` has the row and the manifest
  on record already, a bound runner's stage was the file's, and a proposal at
  work is off the desk with one worker.
* `StoreProofs`, about `BacktestRuns`. `CompletedIsExplained`, `ResultIsOnRecord`, types.
  `RunsInv`: each process owns its row until it closes it, though others may mark
  it; explanation ids are unique and the next one is fresh; what a process has
  counted is on record with its trade; and what a compaction selected has no
  trade, unless its run is in `orphaned`, the history variable for
  `prune_race`. About windows, for every history and number of windows:
  `SpansExistExactly`, `WindowsAsPlanned`, `TestDaysTile`, from the bounds of a
  quotient (`QuotientBounds`). About `Reconciliation`, in the same module:
  `SettledAgrees`, `CleanUnlessMoved`, `LedgersAgree`, types. `AgreeInv`: no row of a trade
  contradicts what the broker's order has come to, unless it is marked as
  nobody's word (`Truthful`); a row is never stamped later than its place in the
  log; and whatever a pass has in hand fits (`Fits`): a snapshot of the broker
  precedes its book, in which every order only gets further (`Rank`), so that a
  snapshot equal to the book is of now, and a clean verdict of now is right.
  Two folds are equal when their summands are, which takes no induction.
  `LedgersAgree`, for finitely many strategies: a ledger is folded in order and
  never goes below zero, the store's fold is a plain sum; they agree if no beginning of a ledger is
  overdrawn (`Covered`, `BalanceIsNet`), and a plain sum does not depend on its
  order (`NetWithout`, `NetByOwner`, by induction on the size of finite sets).
  `LedgerInv` says that no beginning is overdrawn while purchases come: a
  strategy sells only a lot its ledger has and records the sale before it
  trades again (`RecordFits`), what a sync writes is about orders on record
  (`SyncFits`), and after that only sales fall away (`Steady`).
* `SessionLoopProofs`. `NeverOversold`, `NoSilentCarry`, the action property
  `NothingAfterDrained`. The invariant has six parts:
  what the store, the position and the delivery freeze of a lot say of each
  other (`Books`, from which nothing is sold twice); a flatten that is past
  its submit has its attempt and one of three answers (`Attempted`); a cycle stays within its day
  and every tick it remembers is past (`OneDay`, `OnTime`); a drained runner has
  evaluated the last bar (`Rests`); an overdue lot that is carried was alerted or
  the store refused a row about it (`Carries`). The lemmas are the calendar: how a tick splits into day and time,
  which bars are visible when, which clock values mean a closed market. The
  constants must fit each other: bars tile the session, a night is longer than
  a bar, and an early close comes later than the first bar plus the lag
  (otherwise a drained runner could miss that bar).

* `BacktestProofs`. `FlatAtClose`, `OrdersAccounted`, `NoBorrowing`,
  `OneEntryPerSession`, types: for every family, price history, length of session
  and number of days. In `WalkInv` the bars a symbol has printed are of days and
  slots up to now (`Walking`), every lot and order is of a symbol that is walked
  (`Booked`), in a same-session walk every open position has a bar of its session
  (`WithinSession`, so that the flatten finds a close for it), and the tally adds
  up. What recursion computes is needed throughout (a filtered queue, fills one
  after the other, entries in rank order); as the library's induction theorems
  cannot be used, such a lemma takes the least place where the claim fails and
  shows that the place before it fails too. `EntersOnce` rests on `EntryInv`:
  what a rule bought this session, it bought on a bar of its entry window on
  which its signal fired, and bars of a session come in the order of their slots.
  Each of the ten intraday rules asks that no earlier bar of the window gave the
  same signal (`SignalOnce`, `EntryFires`), so a later bar cannot enter again,
  whatever the position did meanwhile. `NeverBorrows` supposes `Commission <=
  10 - Slip`: prices are at least one, so no sale then costs more than it brings.
  Without it `NoBorrowing` is false, in the code as in the model: the commission
  of a sale is never checked against the cash.

### Only model-checked

Out of the prover's reach: everything under fairness (`OrphanReclaimed`,
`NothingLingers`, `OrphanClosed`, `OverdueSettled`). Every safety
invariant and every action property that a passing run checks has a proof.

The type invariant of each module is checked within its inductive invariant;
it is a property of no run of its own. The assumptions in the MC modules check
the operators of `WalkForward` and `BarQuality` against reference definitions
over bounded inputs.

## Claims that do not hold

Each is a definition beside the others, quoting the line it takes its words
from. The three that contradict a sentence about the code in a way a run shows
are its findings: `MutualExclusion` (`lock_race`), `EvaluatesFinalBars`
(`session_forming`) and `PruneSparesTrades` (`prune_race`). TLC finds the others violated on the instances above
(`SingleAsset` with a fifth day); they say what a reader should not rely on:

| Definition | What happens |
|---|---|
| `NeverBlockedByCrash` (`AdvisoryLock`) | a death between create and write leaves a file nobody may reclaim |
| `KilledSendsNothing` (`SubmitPath`) | an order already past its checks is sent after the trip |
| `NoEquivalentPending` (`SubmitPath`) | the duplicate window ends while the first order still rests |
| `SweptExitAlerted` (`QueuedIntents`) | a death after the sweep's commit loses the alert |
| `EveryCloseDecided` (`QueuedIntents`) | a session left running never decides on its second close |
| `HeldIsExitable`, `SwitchesBetweenSessions` (`RiskDesk`) | see above; a runner starts between the switch's check and its write |
| `NeverReapsRunning`, `MootIsHarmless` (`RunnerSessions`) | see above |
| `NoStageSkipped`, `DemotionFlagged`, `PromotedWasTested`, `BlockedWroteNothing` (`Governance`), `StartNamesItsSession` (`Bench`) | see above |
| `SingleAsset` (`Backtest`) | see above |
| `NeverShort` (`Reconciliation`) | the ledger counts a submitted buy that the broker cancels; the exit sells it |
| `HistoryIsFinal`, `AppendOnly` (`BarCache`) | a provisional daily bar is kept; the slower of two writes drops the other's days |

Some properties hold with a reservation, because what it names does happen; the
models contain each of these behaviours, and no property says that they are
harmless:

| Reserved | By | What happens |
|---|---|---|
| a fill between the two broker reads, a request that lands after its answer | `raced` in `PositionCap`, `NoWashTrade` | it is in neither read, so it takes no slot (`service.py:1005`) |
| a buy judged while another is pending without a price | `blind` in `FillsWithinExposure` | the exposure check does not count the other one (`evaluator.py:686`) |
| an exit whose elders could not be retired | `unsuperseded` in `OneOrderPerOpen` | both may be sent at one open (`runner.py:1423`) |
| a live runner's lock file removed | `stolen` in `OneRunner`, `PhantomIsDead` | a suspended machine outlives the twelve hours; two runners work (`advisory_lock.py:297`) |
| a correction of a position | `Adjusted = 0` in `SettledAgrees`; the folds of `LedgersAgree` have none | one made while a sync settles the same order may count twice (`reconciliation.py:435`) |
| a book or log that moved during a pass | `CleanUnlessMoved` | the verdict may be wrong either way (`reconciliation.py:224`); orders are compared within the page of open orders, longer than any the run has |
| a write that replaces rows its call has not seen | `raced`, `lost`, `Overtakes` in the cache's properties | days are dropped, or older bars come back (`alpaca_provider.py:298`) |
| a row or check the store refuses | `run.refused` in `NoSilentCarry` | a lot may be carried without an alert (`runner.py:1240`) |
| the market closes, the process dies | `OverdueSettled` | an overdue lot waits for the next session or process |

## Not modelled

`PROJECT.json` says for each component what is left out. In short: presentation
(CLI, GUI, explanations, incidents, reports), floating-point analytics, the
research and orchestration tables, configuration parsing, schema migrations,
backup and VACUUM, the ENFORCE policy of backtests, multi-session strategies in
the backtest, the wording of anything, the broker's 429 retry.

## Plan

Left to model: the ENFORCE policy and
multi-session strategies of the backtest, the research tables.
