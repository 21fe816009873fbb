# Worthward: TLA+ models, model checking and proofs

Worthward is a local web application for backtests, market data and a personal
investment ledger. It is one Flask process with request threads, a set of
detached worker processes that train and tune probability models, and SQLite
documents on disk that both sides share. There is no database server and no
message bus: everything that two processes agree on, they agree on through
files, file locks, signals and the process table. That is where the code is
hard to test, and what the modules here describe.

This directory holds TLA+ modules translated from the code under `src/`, TLC
configurations that check them on small instances, and proofs that TLAPS
checks for every value of the constants. `PROJECT.json` names, for each
definition, the lines it translates.

- [1. The system](#1-the-system)
- [2. The modules](#2-the-modules)
- [3. The runs](#3-the-runs)
- [4. What the runs found](#4-what-the-runs-found)
- [5. Fairness](#5-fairness)
- [6. What is proved](#6-what-is-proved)
- [7. What is only model-checked](#7-what-is-only-model-checked)
- [8. Abstractions and their price](#8-abstractions-and-their-price)
- [9. What is not modelled](#9-what-is-not-modelled)
- [10. Plan](#10-plan)

## 1. The system

A part in bold has a model; section 9 says why the others have none.

| Component | State it keeps | Operations | Hard behaviour | What makes it correct |
| --- | --- | --- | --- | --- |
| **Structured document store** `app/core/object_sqlite.py` | one SQLite file per document or event stream | write, create exclusively, append, read | publication race of two processes on a new path, kills in COMMIT, busy timeouts | nothing acknowledged is lost or repeated, one owner of a claim, no torn read, a failed call leaves nothing |
| **Probability-model training jobs** `services/research/price_field_training.py`, `scripts/price_field_train.py` | a directory per job: request, launch, status, stop, result | start, stop, delete, list; a detached worker | server threads against a worker that only files and signals reach; a server crash anywhere | one training at a time, a running job is not deleted, a stop ends its worker, completion comes with a result and stays |
| **LSTM training jobs** `services/research/lstm_training.py`, `scripts/lstm_ga_tune.py` | a directory per job, `workspace.lock`, `run.lock` | start, record a Backtest, stop, delete, list; a detached worker | two locks with different owners; a lock file that moves with the directory | one training per ticker, a locked job is not deleted, a deletion is final, evidence appears whole |
| **Genetic search** `scripts/lstm_ga_tune.py` | request, snapshot, checkpoint, evaluation log, selection, result, status | launch, resume, stop; evaluate in batches, checkpoint, rescore, select, report | kills between any two documents, resumes over moved market data, deadlines inside a batch | nothing counted is lost or repeated, one data snapshot, one time budget, the best candidate survives, completion names the frozen winner |
| **Search supervisor** `scripts/lstm_ga_supervise.py` | metadata document, process group | launch, deadline, TERM, KILL, cleanup | two clocks, a child that ignores signals, signals and failures at any step of the cleanup | the group is gone before the deadline and the record says what happened |
| **CRPS search jobs** `scripts/bayesian_crps_ga_job.py` | checkpoint, evaluation log, result | launch, resume | a kill between log and checkpoint; a validator that must accept whatever the writer leaves | an interruption changes neither the course of the search nor its winner; the holdout is looked at last |
| **Process pools** `infrastructure/parallel.py` | executors by worker count | map in order, discard, shut down | a pool that breaks while several threads use it | a map returns all results or falls back to threads; it raises the task's own error only |
| **Investment ledger and import** `importing/registry.py`, `web/runtime_domains/foundation.py`, `infrastructure/storage.py`, `investment_sqlite.py` | ledger, evidence files, derived cache | import, edit, view, clear | a commit of several stores, a cache keyed by fingerprints, re-entrant locks | the ledger changes in whole requests and names only evidence that was written, a view belongs to the ledger it is shown for |
| **Broker statement parsers and merge rules** `importing/brokers/*`, `importing/merge/*` | rows of the ledger | parse, reconcile, merge | reports and exports that overlap, in any order, with limit prices, trades at night and revised rows | a trade is in the ledger once, a report is replaced once, what was accepted stays acceptable |
| **Credit-card ledger** `services/credit_card_ledger.py` | one ledger of transactions and captures | import a page, a statement, a CSV or a bundle | overlapping documents in any order, pending rows that post on another day, two importers, a failed write after a commit | the ledger is the least one that covers its documents; ambiguity is refused; a replay changes nothing |
| **Market data, caches, rate limits** `services/market/*`, `infrastructure/connectivity.py`, `yahoo_chart.py` | tables per ticker, pause, connectivity caches | poll, refresh, backfill, probe | concurrent refreshes of one history, a pause decided before a lock is waited for | merged days are kept, no hole, a limit is obeyed |
| **Backtest engine** `strategies/backtest.py` | cash, shares, orders and a transaction table of one run | simulate a ticker, simulate a rotation | orders that fill on the next row, limits in lots and percent, average costs over partial sales, reinvested dividends | cash and shares balance, no order breaks a limit, the shown table replays to the position, no loss is realized when that is off |
| **Strategies** `strategies/algorithms/*` | regime and entry price of the rotation, limits of the grid | compute signals | signals computed before anything is executed | signals refer to trades that happened |
| Ledger files and table locks `infrastructure/storage.py`, `frame_sqlite.py` | market tables, profiles, search cache, logos | load, merge, replace, delete a ticker, clean up | nested locks, thread lock over file lock | no lost update, no lock cycle |
| Settings store `core/preferences/store.py`, `core/file_lock.py` | one document | read, set one key, migrate legacy sections | read, change, replace by several processes | no setting is lost, a damaged file is never replaced |
| Broker connections `broker_market_data.py`, `longbridge_cli.py`, `live_trading.py` | one SDK context, one login | quote, candles, submit an order | a login in a browser, an order whose answer is lost | one login at a time |
| Price-field models `strategies/price_field/*` | none beyond a run | fit, score | numerics | out of reach |
| Analysis, research, beta reports `services/analysis/*`, `services/research/*`, `beta/*` | none | compute a report | - | - |
| Market calendar and identity `core/markets/*` | none | look up a date or a name | - | - |
| Web server `web/runtime.py`, `web/runtime_domains/*`, templates and scripts | sessions in the browser | forms, pages, JSON actions | request threads | the services' |
| Migrations and audits, test tooling `scripts/*` | - | run by hand | - | - |

How they interact. A request thread calls a service; a training service spawns
its worker with `Popen` in a session of its own and from then on knows it by
files, by `ps` and by signals. Worker, search and server write every file through
the document store. The search runs under the supervisor. Imports and market
refreshes run inside the server, under file locks because scripts and a second
server may run beside it. A broker import is three things at once: the parsers
and merge rules decide what the rows of the new ledger are, the commit protocol
of the ledger makes them durable, and the view caches what is derived from them.

## 2. The modules

| Module | Models | State and actions |
| --- | --- | --- |
| `AtomicStore` | what a document promises | `store`, and per caller `req`, `phase`, `got`; Invoke, Apply, Observe, Refuse, Leave |
| `ObjectStore` | `object_sqlite.py`, one path | `db` is the committed content, `journal` the journal a dead writer left, `owner` SQLite's RESERVED lock, `readers` its SHARED locks, `pc` the place of each caller in `_save` or `_load`. CheckPath is `path.exists()`, Link is `os.link`, Begin to Commit are the transaction of `_write`, Open and Fetch the two queries of `_read`, BusyTimeout the 30 seconds, Crash a kill |
| `ObjectStoreProofs` | - | invariants, the refinement of `AtomicStore` and the length of a call |
| `PriceFieldTraining` | `PriceFieldTrainingManager` and `price_field_train.py` | `live` and `arch` are the job directories as the facts their files state, `wpc` the worker's place, `cancel` its signal flag, `pc`, `run`, `seen`, `left` the thread's place and locals. One action per file read, process lookup, file write or signal |
| `PriceFieldTrainingProofs` | - | invariants, action properties and what a stop leaves to do, most of them while `ps` answers |
| `LstmTraining` | `LstmTrainingManager` and `_run_selected_configuration` | as above, with `workspace.lock` as `lock` and `run.lock` as a field of the directory, so that it moves with the rename |
| `SerialRequests` | requests to `LstmTrainingManager` that come one at a time | `serial` is chosen in the initial state: either anything may happen, or requests do not overlap, `ps` answers and the server stays up, while workers run and are killed beside them |
| `LstmTrainingProofs` | - | what `run.lock` alone protects, with no assumption on faults; admission; requests that do not overlap |
| `GaSearch` | the search branch of `lstm_ga_tune._run` | one variable per document, `held` for `run.lock`, `at` for the place of each invocation, `mem` for the locals, `stop` for `_STOP_REQUESTED`; an action per document written, batch collected, deadline passed |
| `GaSearchProofs` | - | invariants, the action property `BestKept` and how a late search ends |
| `CrpsSearch` | `bayesian_crps_ga_job.run_job`, `_validated_resume_state` | `st` and `rng` in memory, `checkpoint`, `log` and `result` on disk; `ValidResume` is the validator, conjunct by conjunct. Every document written is a step, so is a kill between any two. `score`, `first` and `draws` remember what the deterministic code returned, so that a repetition returns the same |
| `Supervisor` | `lstm_ga_supervise.supervise` and its cleanup | `step` is the line it has reached, `left` and `skew` the two clocks, `child` and `others` the process group, `record` the metadata on disk. Loop, signals, waits, cleanup and final record are actions; so are the child's end, a stop signal, a slow step and a clock that jumps |
| `ProcessPools` | `map_ordered`, `_process_executor`, `_discard_process_executor` | `registered` is `_PROCESS_EXECUTORS[n]`, `pool` the state of every executor, `popped` what a discarder has taken out of the registry and not yet shut down |
| `AtomicLedger` | what the investment ledger promises | `ledger`; Add a request, Clear |
| `InvestmentLedger` | import, manual edit, clear and transactions view | `saved` is every generation of the ledger (the last is the file), so that a fingerprint is a generation number; `evidence`, `cache`, `lock`, and per thread `pc` and `mine`. Steps follow the order of the code: evidence, ledger, cache invalidation, readback, verification |
| `InvestmentProofs` | - | invariants of the ledger and the refinement of `AtomicLedger`; what is in the ledger after any number of imports of Schwab trades |
| `SchwabTrades` | reconciliation of provisional workbook rows with CSV exports | `official` and `manual` are the rows of the ledger, `world` what was traded and which workbooks tell of it. `Matches`, `Refused`, `Reconciled`, `MergedCsv`, `MergedManual`, `HoldingsRefuse` are the functions of the merge; ImportExport and ImportBook are imports |
| `CardBook` | what the card ledger promises | `recorded`; Import |
| `CreditCardLedger` | capture, match, promotion, bundle and validation rules, under thread and file lock | `shown` is what each document contains (chosen when it is first submitted), `ledger` the committed records and captures, `lock` its holder, `pc` the place of each importer and `mine` the ledger it has in memory and the documents it has still to merge. Load, MergeNext (one document of the bundle), Write and Readback |
| `CreditCardProofs` | - | invariants and the refinement of `CardBook` |
| `MarketRequests` | quote polls and the refresh of one daily history | `pause` is the cooldown, `requestLock` the request lock, `history` the stored trading days, of which `Reopens` follow a weekend or a holiday; `place` is where a thread is, `task` its job, stage and what it has read. One action per request, merge, read and write |
| `ServiceProofs` | - | invariants of the pools, of the supervisor and of the market requests, the action property `MergeKeeps` and the bound on the supervisor's work |
| `Fractions` | - | exact fractions for average costs |
| `SingleBacktest` | `run_single_ticker_backtest`, grid included | `book` holds cash, shares, average cost, order, gains and `replay`, the quantity and cost that `_normalize_...` computes from the transaction table; one step per row |
| `RotationBacktest` | `compute_signals` of Leveraged Rotation and `run_leveraged_rotation_backtest` | `mind` is the strategy, `port` the backtest, `closes` what the strategy may look back at; one step per row |
| `Backtests` | both engines of `backtest.py` side by side | the two states together; a step is a row of either |
| `ResearchProofs` | - | arithmetic of exact fractions, invariants of both backtests, and the action properties `NoLoss` and `RotationArrives`; the invariants of the CRPS search |
| `MC*` | - | instances for TLC |

`AtomicStore`, `AtomicLedger` and `CardBook` are abstract specifications;
`ObjectStore`, `InvestmentLedger` and `CreditCardLedger` implement them under
the mappings `Atomic` and `Book` of those modules. The training modules and the
searches use the store as what `AtomicStore` promises: one document is one fact that a
single step writes or reads. That is what `RefinesAtomicStore` entitles them to,
and why they need no copy of the protocol. The exclusive claim of an LSTM worker
(`worker.sqlite3`, by `create_object`) is `OneCreator` of the store.
`SchwabTrades` uses the ledger in the same way: an import is one step that
happens or changes nothing, which is `RefinesAtomicLedger`.

`MCRequests`, `MCInvestments`, `MCProcesses` and `MCResearchJobs` each hold several
programs that share nothing. A behaviour is of one of them: `target`, `part`, `observed`
or `kind` is chosen in the initial state and never changes, and the variables of the others
stay as they are. The states of such a run are the sum of its parts, not their
product. A property of one part holds of the behaviours of the others because they
leave its variables as they were; where it would not it names its part.

Properties named after a sentence of the code or of the docs quote it in the
comment above them. Definitions that a comment calls "Mutant of X" are faulty
variants of X: replacing X by one of them breaks the property it is paired with in
`PROJECT.json`. No specification uses them.

## 3. The runs

States are distinct states. Every bound is a constant of the module.

| Run | Instance | States | Shows |
| --- | --- | --- | --- |
| `research_jobs` | search: 2 invocations, baseline and one better candidate, a leaderboard of 1, 2 finalists, 2 market versions, 1 kill; training: 2 threads, 2 jobs, 3 requests, 1 worker kill, 1 server crash (not between `Popen` and the launch record), `ps` answers | 553,297 | `CheckpointLogged`, `ResumeGoesOn`, `CompletedSelection`, `BestKept`, `RunEnds`; `OneTraining`, `RunningNotDeleted`, `StoppedWorkerIsGone`, `ExitRecorded`, `CompletionKept`, `StopHonoured` |
| `lstm_jobs` | 2 threads, 2 jobs of one ticker: 2 starts, a stop, a list, 1 worker kill; or 1 start, a stop, 2 deletes, 1 kill, 1 server crash, 1 failed `ps`; or, one request at a time, a start, 2 records, a stop, 2 deletes, 1 kill | 636,751 | `OneTrainingPerTicker`, `LockedNotDeleted`, `SerialSafe` |
| `lstm_republish` | 2 threads, 2 records, 1 delete | until found | `DeletionAuthoritative` fails: finding 1 |
| `processes` | store: 2 callers, all 5 calls, 2 calls each, batches of up to 2 events of one caller and of 1 of the other, 1 kill; pools: 3 callers, 2 pools, 3 maps, 2 deaths; supervisor: half seconds, budgets 1 and 13 ticks, TERM at 12, KILL at 10 or 2 after TERM, 6 ticks of clock skew, 1 slow tick, 1 error | 1,118,864 | `AckedEventsKept`, `OneCreator`, `RefinesAtomicStore`, `CallsEnd`; `OnlyMistakesRaise`; `VerdictIsTrue`, `WithinBudget`, `Ends` |
| `pools_unstarted` | the pools part | until found | `UnstartedFallsBack` fails: finding 6 |
| `investments` | ledger: 2 threads, 3 requests, 1 fault, 2 price and 2 private revisions; backtests: 4 rows, all prices and dividends of a small set; CRPS: 3 candidates, leaderboard and population of 2, 3 invocations, 2 kills; trades: 3 trades, 2 workbooks, 4 exports, any number of imports | 1,150,334 | `ImportSound`, `ViewCurrent`, `RefinesAtomicLedger`; `BooksAgree`, `OrdersSafe`, `NoLoss`, `RotationArrives`; `OneCourse`, `HonestSelection`; `TradesOnce`, `RevisionsCaught` |
| `ledger_hot` | the ledger part with a kill in COMMIT | until found | `LedgerReadable` fails: finding 2 |
| `rotation_entry` | the rotation part, limits that leave no cash | until found | `EntryWasExecuted` fails: finding 3 |
| `trades_reimport` | the trades part | until found | `ReimportAccepted` fails: finding 4 |
| `requests` | cards: 2 importers, 2 pages, a statement, a CSV, every content of up to 2 rows on 2 days, bundles of 2, 3 imports, 1 fault, a bundle merged document by document; market: 2 threads, 3 calls, 2 new trading days, the later one after a weekend, pauses of 1 and 2 ticks, 2 fallback periods | 1,051,640 | `NothingDamaged`, `AmbiguityRefused`, `ReplayChangesNothing`, `RefinesCardBook`; `LimitObeyed`, `NoHole`, `MergeKeeps` |
| `cards_statements` | 2 statements with one like purchase each, days 1, 2 and 9 | until found | `StatementsAddUp` fails: finding 5 |
| `market_pause` | the market part | until found | `PausesAll` fails: finding 7 |

Why the bounds are enough.

- *Store*: the interesting races are between two callers (two publishers, a writer and
  a reader, two writers); the second call of each lets a caller come back to a path it
  has itself created, extended or been refused, and two events in a batch tell a torn
  or repeated batch from a whole one.
- *Training*: two threads and two jobs are the smallest instance with competing
  admissions; three requests hold a start, a stop and a delete of one job, or two
  starts and a request that comes between them.
- *LSTM*: a question about locks needs deletes and faults, one about admission needs
  two starts; each load of the run holds every request its property depends on.
- *Search*: two invocations cover an overlap as well as a resume of a killed or
  stopped one; a leaderboard of one makes the baseline fall off it (the branch that
  evaluates it again). Two market versions are one move of the data between
  invocations. The abstract clock has three values: before the main deadline, before
  the total one, after it.
- *CRPS*: three candidates fill a leaderboard of two and push one off; populations of
  two are interrupted in their first and in their second half; two kills interrupt the
  repetition of an interrupted evaluation, and three invocations resume a resumed job.
- *Pools*: a mistaken discard needs two callers that saw the first pool break and a
  third that made the second one; each of the two pools may lose a worker.
- *Supervisor*: a tick is half a second. The KILL is five seconds before the deadline as
  in the code, and the waits of the cleanup after it are the code's; the time from TERM to
  KILL is shortened from 55 seconds to one, since nothing but polling happens
  in it. TERM and grace end together, as in the code, unless the clock jumps or a step is
  slow. A budget of 1 starts behind the KILL, so that the waits of the cleanup are cut short, and
  a skew of 6 makes it expire before anything starts.
- *Ledger*: the initial ledger is absent or has had an import, so that three requests
  hold a writer against a writer with a view between them; one fault is a disk error, a
  vanished evidence file or a kill.
- *Backtests*: three prices one step of five percent apart, so that the grid trades on
  a rise and on a fall and can skip a level; four rows hold a purchase, a second one at
  another price, a partial sale and the order it leaves behind. The rotation needs a
  row to decide, a row to fill, and the same back again.
- *Trades*: a report is eligible on its day and on its day in Hong Kong, so two adjacent
  days hold every match it can have. Three trades are the one reported, one of the same
  economics, and a third in between; the first report is always at night, the second
  may be. The exports show either day, both, and both after a revision.
- *Cards*: two like rows on one day and a neighbour day give every case of the match:
  the same slot, the next day, and both. Three imports are two documents and a replay.
- *Market*: a hole needs a history that ends before the overlap of an incremental
  refresh; with two new days after the stored ones one can appear. One of the days follows a
  weekend, so that the calendar day before it is no trading day and the overlap of an
  incremental refresh is the last stored day alone. No call outlasts the
  day after the one it began on.

For every property of a passing run `PROJECT.json` names at least one fault of the code
that makes TLC find it violated in the same instance: that is the evidence
that the instance is large enough for the property to be at risk.

Deadlock is not checked: a finished instance has used up its requests, rows or
invocations and really stops. That nothing blocks before that is `CallsEnd`,
`RunEnds`, `Ends` and `StopHonoured`. Symmetry is used in runs without
liveness only, over threads, jobs, pages, statements, which carry no order.

## 4. What the runs found

1. **A deleted record comes back** (`lstm_republish`). Recording a Backtest looks
   for an archive and publishes under `workspace.lock`; delete holds `run.lock`.
   A delete between the look and the publication is undone.
2. **A hot journal closes the ledger** (`ledger_hot`). `docs/LOCAL_SQLITE.md:108`
   promises that a failed transaction leaves the preceding snapshot available. When a
   server is killed while COMMIT overwrites pages, SQLite has to roll its journal back,
   and every load opens with `mode=ro`, which may not. Every path of the application
   loads before it writes, so none of them repairs the file. The document store reads
   in the same way (`object_sqlite.py:54`), and callers that read before they write, like
   the settings store, do not get further either.
3. **An entry that was never executed** (`rotation_entry`). The strategy computes its
   signals before the backtest trades and counts its exit trigger from the next open
   whether or not anything was bought there, although the documents say "where the last
   leveraged rotation executed".
4. **A ledger that refuses itself** (`trades_reimport`). A limit buy at 10 that was
   filled at 9 at night is matched with the remaining execution once a reported buy at
   9 on the second day has claimed its own. The conflict check at the start of the next
   merge does not leave claimed executions out and finds two: every later import, of
   any broker, raises.
5. **Two purchases, one record** (`cards_statements`). Which rows already stand for a
   record is noted per capture. Two like purchases that two statements show one each
   become one transaction, without a warning.

6. **A process that cannot be started** (`pools_unstarted`). `map_ordered` falls back to
   threads when the pool cannot be made or breaks. A pool is made without a process; its
   processes are started by the first submissions, and an `OSError` there leaves
   `map_ordered`, although `docs/ARCHITECTURE.md:2149` says the ordered thread fallback
   "handles environments where a process cannot be started". `OnlyMistakesRaise` names this
   case as one of the two in which a map raises.
7. **Requests within a pause** (`market_pause`). Whether requests are paused is asked at
   `market_data.py:272`, before the wait for the request lock at 283, and not again: each
   thread that already waits sends one more request within the pause, although
   `docs/ARCHITECTURE.md:2040` and `README.md:449` say a limit pauses every request.
   `LimitObeyed` is what is left: one request for each such thread, and no more of a poll
   that was limited or refused.

The quoted lines and the paths of the code are under "findings" in `PROJECT.json`.

Other behaviours that the models reach, or that were met while modelling. No run is kept for
them: either no document excludes them, or they are narrower than a run is worth.

*Probability-model and LSTM jobs*

- The pid of a probability-model worker is only in `launch.sqlite3`, written after
  `Popen` (`price_field_training.py:196`, `213`). A server that dies in between leaves a worker
  that reads as stale; the next start is admitted beside it and no stop reaches it. The
  run `research_jobs` excludes that crash.
- One `ps` that fails or is slow makes a live probability-model worker look gone:
  with `MaxProbeFailures = 1` an archive under a live worker (and a second
  training) is a few steps away. Of the LSTM jobs `run.lock` protects the files of a
  worker then (`LockedNotDeleted`), but not admission: every job has a `run.lock` of its
  own, so a start whose `ps` fails is admitted beside a live worker of the same ticker with
  another seed. The load of `lstm_jobs` with two starts therefore has no failed `ps`, and
  `OneTrainingPerTickerAlways` assumes that it answers.
- Between its reservation and its first status an LSTM job has no known pid and holds no
  lock, and delete does not take the `workspace.lock` of the start
  (`lstm_training.py:364`; `docs/KNOWN_ISSUES.md:1505` says a running job is protected).
- The last write of a stop comes after a delete has archived the job and makes its
  directory again, with a status and no request.
- A list that reads the status before the worker's last two writes and `ps` after
  them reports "exited before recording" of a job that completed.
- Two LSTM deletes of one job: the second has passed its first look, takes a lock
  in a directory that it thereby creates again, and finds the archive only then.

*Genetic search and supervisor*

- After a failed holdout report a resume selects again and may freeze another winner,
  although the holdout has been looked at (`lstm_ga_tune.py:1866`;
  `docs/LSTM_PROBABILITY_TUNING.md:74` says the selection is frozen before).
- An invocation looks for `result` and `request` before it takes the lock (1579). One
  that is overtaken there begins a new search over the checkpoint of the other;
  `BestKept` is therefore stated for resumed invocations.
- A search killed before its first checkpoint is refused without `--resume` and
  fails with it (1588).
- When an evaluation process dies, the pool breaks and every pending candidate is
  recorded as failed, counts as seen and is never tried again (1287).
- The time since the last checkpoint is not charged to the budget after a kill.
- `_next_population(..., generation + 1, generation)` passes the generation where
  the stagnation count is expected (1727); the model lets children be
  any candidates, so nothing here depends on it.
- The supervisor restores the default signal handlers before its last record: a signal
  there leaves "cleaning_up". When the record of the cleanup cannot be written, the
  final one is not tried. A supervisor that is killed leaves its child running and a
  record that says "running".
- `docs/LSTM_PROBABILITY_TUNING.md:186` puts the SIGKILL at 36,000 seconds; the code kills
  five seconds earlier, or 55 after the SIGTERM.
- CRPS: an evaluation that was logged and not yet in the checkpoint when its job was
  killed, and whose time is up when the job resumes, stays in the log and takes no part
  in the selection. `WinnerIsBest` says exactly that.

*Process pools*

- Two callers that saw one pool break discard by worker count: the second may discard the
  pool of a third, whose map ends with `CancelledError` or `RuntimeError`. That and finding 6
  are all that `OnlyMistakesRaise` leaves.

*Market data*

- The text of the pause's own error counts as a limit. A refused poll can so begin a new
  pause, doubled, without a request; a real limit within a pause is not counted.
- A full download that falls back to a shorter period, or that began with an older table,
  replaces the longer stored history. `MergeKeeps` is about incremental refreshes.
- The refresh of exchange rates for market capitalizations reads before its download and
  writes afterwards without reading again (`market_cap.py:278`).

*Cards*

- A chain of like rows (pending on days 1 and 2, posted from 1 on 2 and from 2 on 9)
  leaves a stale pending record and a third row: the window of seven days is pairwise.
- The command-line reconciliation compares fingerprints and makes its backup before it
  takes the lock. Ledgers that only pages have filled match the exact description.

*Backtests*

- Shares from reinvested dividends are in the position and in no row of the transaction
  table; reinvestment takes the close of a row before the trade at its open. The grid
  is paid a dividend in the first row, the buy-and-hold reference is not. A first row with
  both signals in `signal_close` mode buys at the open and sells at the close.

*Schwab trades*

- An export that does not reach back to the earlier day of a report can match it with
  another trade of the same economics; the export that shows its own trade is then
  refused. An exact match at the limit price may be another trade than the one
  reported. The number of trades stays right in both cases.
- A revised row in an export older than the selected snapshot is counted twice: holdings
  are compared only with an export that is not older.
- A cumulative workbook, which has a new digest, is refused once one of its rows was
  replaced. An export that begins on the second eligible day and lacks the linked row
  is refused; `docs/KNOWN_ISSUES.md` says so around line 1669.

## 5. Fairness

- `ObjectStore!FairSpec`: weak fairness of each caller's own next step. A thread
  that is not killed is scheduled, and the only waits are SQLite's, which end with
  `BusyTimeout` after 30 seconds (`_connect` sets it). Crashes and calls are not fair.
- `GaSearch!FairSpec`: the process is scheduled and its clock runs
  (`WF(Tick)`). The clock is what ends a search that refills its population for ever;
  without it `RunEnds` fails, as it should.
- `Supervisor!SupFairness`: weak fairness of the supervisor's own steps, which include the
  passing of time in its waits. Nothing is assumed of the child, of the rest of
  its group or of the inhibitor, and no signal is ever due: `Ends` holds whatever they do.
- `PriceFieldTraining!ThreadFairness`: a request thread goes on with its request. The
  waits of a request are `workspace.lock`, held over finitely many steps, and the
  two seconds of a stop.
- `PriceFieldTraining!WorkerFairness`, for `StopHonoured`: a worker reaches its next
  progress callback. It does not say that a computation ends.

In `MCProcesses` and `MCResearchJobs` each fairness condition is of the program the
behaviour belongs to. The liveness properties say that what is waited for is so again and
again: a caller is idle, the supervisor has ended, no job with a stop request trains. The
other runs check safety, and the action properties among them need none.

## 6. What is proved

TLAPS proves the following for any number of callers, threads, jobs, documents,
requests and faults, and for every size of the sets that a run bounds. The
assumptions on constants are named in the modules that declare them
(`ObjectStoreAssumption`, `TrainingAssumption`, `LstmAssumption`, `GaAssumption`,
`PoolAssumption`, `SupervisorAssumption`, `LedgerAssumption`, `CardAssumption`,
`MarketAssumption`, `SingleAssumption`, `RotationAssumption`, `CrpsAssumption`,
`SchwabAssumption`): bounds are naturals,
"nobody" is not somebody, kinds of document differ, a search has finitely many
candidates, no two of which rank the same (the last of `record_rank` is the candidate's
key), the pause grows to a maximum that is not below its base, KILL comes after
TERM, prices are positive, dividends, capital and grid parameters not negative, limits
are percentages, reports are of trades, and files are finite. TLC evaluates each on the
run of its module.

An invariant is proved as three facts: the first state has it, each step keeps it
(one lemma or one step of the proof per action), and it implies what is
wanted. The properties of the runs are seldom inductive; what they need beside
themselves is the content of the paragraphs below.

**Store** (`ObjectStoreProofs`). `TypeCorrect` first: payloads are sequences of
records, which needs a lemma on concatenation. Then one inductive invariant,
`IInv`. Isolation alone is not inductive: it needs that a path once published
does not disappear (`Published`), which call can be at which place
(`CallsInPlace`), and that a reader holds SHARED from the manifest to the last
record while nobody flushes (`ReadersShare`). `AckedEventsKept` is about callers
who have already returned, so it is strengthened by the append that has
succeeded and not returned yet, and by the kind of the document (`StreamKept`):
only an event stream keeps its previous records. `OneCreator` is strengthened the
same way (`Creator`). From `IInv` follow `NoAckedEventLost`, `CreationExclusive`,
`Isolation`, `NoTornRead`.
*Refinement of `AtomicStore`*: a writing call takes effect at the link
that wins or at the deletion of the journal, a reading call at its last query;
every other step stutters. `IInv` supplies what the abstract guards ask for: the
kind of the document at Commit, an absent document at Link, an unchanged one at
Fetch. `Spec => Atomic!Spec` follows.
`CallAdvancesAlways` counts the steps a call has ahead (`StepsAhead`): each step of its
caller lowers the number, from seven at most, and no step of another raises it.

**Probability-model jobs** (`PriceFieldTrainingProofs`). While `ps` answers
(`PsAnswers`) and no crash falls between `Popen` and the launch record
(`JobsSpec`; section 4 shows why both are needed) `JInv` is inductive. Its core:
admission holds the lock (`Locked`) and still has to look at every job that trains
(`Admitting`); what it has read of such a job shows it active (`Judged`), so it
cannot reach `popen` while something trains (`Fresh`). A delete judges by the same
reading (`Renaming`). A stop only reaches its last step past a kill of a process it
has found (`Stopping`). From it: `OneTrainingAlways`, `RunningNotDeletedAlways`,
`StoppedWorkerIsGoneAlways` and, with `ResultFirst`, `CompletedHasResultAlways`.
The action property `CompletionKeptAlways` adds that a worker before its last step has
recorded no completion (`Unfinished`) and that a stop which comes to write its own record
has seen the completion that is there (`RecordSeen`).
`TypeCorrect` and `ExitRecordedAlways` need no assumption on faults.
`StopAdvancesAlways`: a stop request stays filed while the worker trains (`StopSurvives`: only
an archive takes it away, and `JInv` keeps a job that trains out of the archive), and a
worker that has one never goes back to an earlier phase (`CheckpointsAhead`).

**LSTM jobs** (`LstmTrainingProofs`). No assumption on faults for `LInv`: a
delete which has taken a run lock owns it alone and still has the directory
(`LockOwned`), and a worker at its final status has written the result
(`ResultFirst`). From it `LockedNotDeletedAlways`, `CompletedHasResultAlways`. Most
of the 39 kinds of step change neither locks nor directories; `Quiet` says what that
means once and `QuietKeeps` disposes of them together.
Admission is another matter. `OneTrainingPerTickerAlways` is about `JobsSpec` (every `ps`
answers, no crash between `Popen` and the launch record) and has `[]RunningNotDeleted` as
its hypothesis: a worker that has not yet taken `run.lock` may see its directory archived,
and a job that admission does not find in the workspace does not count. With these
three `AInv` is inductive: a running job has a record that names its
process (`Recorded`), an admission has yet to look at each that trains (`Admitting`),
judges it active (`Judged`), and goes on when there is none (`Cleared`). The theorem
says that nothing else lets two workers train.
`SerialSafeAlways` is about the behaviours of `SerialRequests` in which requests do not
overlap, workers run beside them and may be killed, and neither `ps` nor the server fails.
`QInv` says of the one request that it is safe to go on (`RequestSafe`): a start or a
record has seen that its name is not in the archive, a delete has a directory, and once it
has judged the job inactive under `run.lock` the job does not train, because only a start
begins a training and no other request is there to be one. That judgement needs `Recorded` and
`Unended` of `AInv`, and `AInv` needs `RunningNotDeleted`, so the two are inductive
together; `SerialOneTraining` follows without the hypothesis that
`OneTrainingPerTickerAlways` has.

**Genetic search** (`GaSearchProofs`). `SearchInv` is about the holder of `run.lock`,
who alone knows anything (`LockHeld`, `Fresh`). What it has seen is in the log or about
to be appended (`Logged`), so the checkpoint is logged (`CheckpointTrue`); it works on
the one saved snapshot (`Current`, `OneSnapshot`), and from its first status to its
last the status is running and the documents follow its winner (`Reported`):
`CheckpointLoggedAlways`, `ResumeGoesOnAlways`, `CompletedSelectionAlways`. `BestKeptAlways`
compares leaderboards before and after a step; it needs that a resumed search
never falls behind its checkpoint (`Ahead`) and, about finite sets, that a board cut
to its leaders loses no leader to a worse entry. `WindsUpAlways` is about an invocation that
was told to stop or whose main deadline has passed: it stays so (`StaysLate`) and every step
brings it nearer to its end (`StepsAhead`), except that the results of a batch are logged
one by one. Before that it may refill its population for ever.

**Pools and supervisor** (`ServiceProofs`). `OnlyMistakesRaiseAlways`: the registry
never holds a pool that was shut down, and a pool that is shut down or cancels was
either broken or discarded by mistake (`ShutForReason`); a caller inside a map
therefore meets nothing else, except that its pool may not be able to start a process
(`unstarted`, finding 6). `WithinBudgetAlways` rests on what the loop knows of the clocks
when it decides (`TimeSeen`). `VerdictIsTrueAlways` adds that the exit code is set only by a
child that nobody signalled (`ExitTrue`) and that a cleanup that did not fail has left
nothing (`EndTrue`). `WorkBoundedAlways`: a tick is worth a turn of the loop, so the ticks
left, five steps each, and the steps from the present place to the end (`Work`) make a number
that each step of the supervisor lowers and nothing raises; `WithinBudget` keeps it natural.

**Investment ledger** (`InvestmentProofs`). `LedgerInv` is the discipline of the
file lock: what a writer has in memory is the ledger with its item until it saves, and
the ledger itself from there to its readback (`InMemory`), because whoever changes the
ledger holds the lock (`LockHeld`). From it `ImportSoundAlways` and, step by step,
`LedgerRefinesAtomic`: a save adds one item to what the ledger holds at that instant, an
unlink clears it, all else stutters.
`ViewCurrentAlways` is about readers who hold no lock. `ViewInv` says at each
place of the view what has been read so far and between which generations it
lies (`ViewKnown`): generations, prices and private evidence only grow (`Onward`), so what
was current at one instant of the request stays between its beginning and now, and what is
cached is labelled with nothing newer than it was computed from (`CacheTrue`).

**Schwab trades** (`InvestmentProofs`). `SchwabAssumption` is about what happened, not about
the program: a report is of a trade, on its day, of its side, and in Hong Kong on that day or
the next; a reference names one trade; a workbook has one row per reference. Nothing is assumed
of the number of trades, workbooks and exports, of the ranges of exports and of prices, and of
quantities only that a trade is not of zero shares, without which `RevisionsCaught` is false
(`_positive_absolute_decimal` sees to it for reports). `SchwabInv` says what makes a ledger one
that the next file may be merged with (`LedgerOK`): one row per execution, per reference and per archive (`OneRow`, `OneReport`,
`OneLink`), no report both waiting and archived (`Apart`), no broker row in the scope of a
report that waits (`Unscoped`), and every archive in the scope of its report (`Placed`). It
adds that every report told is in the ledger with no less evidence (`Told`) and none that was
not (`Sourced`). The step rests on `MatchedOK`: when `Refused` is false, the match is one to
one between the reports that have rows in their scope and rows of one execution each, and
agrees with the archives there are. Then `MergedIs`, `LinksAre` and `MergedManualIs` say what
the merge does with matched and unmatched rows, for any match of that kind, however found.
`TradesOnceAlways` has three parts. A report that was told waits or is archived, by `Told`,
and not twice, by the four uniqueness conditions. The broker's rows are as many as the trades
that were shown, because like trades have one day, so that an export that begins with the first
day shows all or none of them and numbers them alike (`RowsOfTrades`); the reports that wait
are of trades no export has shown, by `Unscoped`, and those archived of trades one has, by
`Placed` (`WaitingTrades`). What is imported again finds its reports archived or as it left
them (`ExportAgain`, `BookAgain`). That a match is of the right trade is no part of it: a
report has no key of the broker's, and of two like trades either may get it.
`RevisionsCaughtAlways` is about a trade that one export shows with another fee than an
earlier one, which the keys of the merge take for two. `RevisionInv` says that exports which
the holdings check compares, once they were accepted, show the same rows or revise the same
trades, and that the selected snapshot is of one of them. The step is `RevisionRefused`: if
the ledger holds the rows of one export, the other brings exactly one execution that is new,
although like trades are numbered anew without the revised one (`OneMore`); no report waits
up to that day, by `Unscoped`; so the merged ledger holds the position and the shares of that
trade besides (`SharesAdd`), and `HoldingsRefuse` is true.
What is held is a sum over a set of rows. Facts about sums are proved by induction over the
parts of a finite set, stated about a set of parts and not about a predicate (`AllParts`, from
the library's `WFMin`): a sum is any of its values and the sum of the others (`SumTake`), and a
sum over the values of a one-to-one function is the sum over what it maps (`SumOver`). So
the rows of an export hold what the trades it covers add up to (`SharesOfExport`).

**Credit cards** (`CreditCardProofs`). `BookOK` holds of the ledger on disk and of every
merged ledger in memory: it is what `_validate_ledger` accepts (`Valid`), the
records of a day and key are numbered from one with the posted ones first (`Numbered`),
identifiers of evidence are about the record's own day, key and occurrence
(`Evident`), no retained document is ambiguous in itself (`Clear`), and a pending and a
posted record that may be one purchase are both there only if the posted one was itself seen
pending (`Refused`). The lemma on which all rests is `MatchAgrees`: under `BookOK` the
rules of `_match` find exactly the record that agrees with the row in day, key and
occurrence. `MergeOK` then shows that a merge keeps `BookOK`, `Replayed` that a retained
document merges into the ledger itself, and three theorems follow:
`NothingDamagedAlways`, `AmbiguityRefusedAlways`, `ReplayChangesNothingAlways`.
`LedgerRefinesBook` counts: a merged ledger has, in each slot and of each status, the
maximum of what ledger and document have (`MergeCovers`), so a bundle merged document by
document is one step of `CardBook` when it is written (`Progress`), and none when
it is refused or its write fails.

**Market data** (`ServiceProofs`). `MInv`: outside a pause nothing has leaked, and a thread
that has sent a request within one does not wait to send another (`Leaks`); a stored
history is a run of days (`Whole`), an incremental refresh starts no later than the day after
one that is stored (`Starts`; it needs no day of overlap, and after a weekend there is none
before the last stored day), and downloaded rows reach today, or yesterday if the day has
ended since (`Rows`). From it `LimitObeyedAlways`, `NoHoleAlways` and the action
property `MergeKeepsAlways`.

**Backtests** (`ResearchProofs`). Average costs and gains are fractions in lowest terms,
and equations between them say little about their numerators. The proofs bring
all fractions of a book to one denominator (`Stands(f, x, d)`: f is x parts of which d
make a whole) and calculate with whole parts; each trade chooses the denominator that
its division needs (`Common`: a multiple of the shares held after a purchase). `Balance`
then turns the equation of a book into one between integers, and `BoughtSound`, `SoldSound`,
`PortBought`, `PortSold`, `PortPaid` are one calculation each. A sale without stop-loss is
at or above the average cost, so its parts of gain are not negative (`NoLossAlways`).
`SingleInv` adds to the books what orders need: none waits when trades are made at the
close, a waiting one was asked for by the last row's signals, and the grid is within
its limits from the first row. `RotationArrivesAlways` needs no history: trades at one
price list keep equity (`SameWorth`), what the limits ask for costs no more than the
equity because they are percentages of at most 100 together (`TargetsOK`,
`WantedAffordable`), so after both sales the cash covers both gaps.

**CRPS search** (`ResearchProofs`). `CrpsInvariant` says the same of the state in memory
and of the checkpoint, because a kill puts one in the place of the other. Such a state
(`Resumable`) passes the validator; its leaderboard starts with the best of all that was
logged and counted (`Ranked`); what was logged and not counted is one candidate, the next in
the queue while the search goes on (`Uncounted`); and any population drawn from the
generator state it holds was drawn from its leaderboard (`DrawnBefore`). The last makes a
repeated draw give the same population, so the populations are a function of their number
(`Unique`), and the place of a search in them is what is left of the current one, with the
last evaluation logged being the one before it, its first, or the last of the
population before (`OnCourse`). Neither needs induction over the search: `NextTo` relates
neighbours in the log only. Insertion into the leaderboard is a place in a sorted sequence, for
which the proofs have the lemmas that a place exists, that the board stays sorted and
short, and that its first is the better of its old first and the new entry. From the
invariant follow `OneCourseAlways` and `HonestSelectionAlways`, for any number of
invocations, kills and errors.

## 7. What is only model-checked

Liveness (`CallsEnd`, `RunEnds`, `Ends`, `StopHonoured`): the prover has neither
ENABLED nor fairness. The safety half of each is a theorem: `CallAdvancesAlways`,
`WindsUpAlways`, `WorkBoundedAlways` and `StopAdvancesAlways` bound the steps that are left,
so that nobody goes round in circles. What they leave to TLC is that a step can be taken
wherever the end is not reached, that fairness takes it and, for `RunEnds`, that the clock
runs.

The `violation` runs are counterexamples and need no proof.

## 8. Abstractions and their price

- **Payloads** are named after the call that wrote them. Encoding, checksums,
  schema and symlink checks of the store are left out: the models do not show that
  a damaged file is recognized.
- **File-system errors** (a full disk, an `fsync` that fails) are not modelled. In
  particular an `OSError` of the directory `fsync` after a successful link raises
  although the document exists; `RefusedLeavesNothing` is about the other paths.
- **A kill is of one caller.** In the store it stands for the process of that
  caller; a process with several threads is several callers killed together, which
  is several `Crash` steps in a row.
- **Reading a job's files** is one instant (`Read`). The code reads up to five documents
  in a row; the process lookup, which is slow, is a step of its own.
- **Terminal signals** follow Python: with a handler installed a signal sets a flag or
  raises, otherwise it is fatal. A process group is its leader.
- **`_run_lock`** creates the directory, opens and locks in one step.
- **Progress writes** of a worker repeat a status that is already there.
- **`interrupted`** stands for `time_budget_reached` too in `LstmTraining`; `claim` for
  `worker.sqlite3` and the market snapshot that follows it.
- **Job names** are fresh: the random suffix of a probability-model job and the seed
  of an LSTM job do not repeat.
- **A candidate's score** in `GaSearch` is a function of its key, since seeds and snapshot
  are fixed; failure is free. Children are any candidates, which covers every
  genetic operator. `leaderboard` and baseline documents are never read back
  and left out; rescored and holdout records go to the log under other keys. The
  clock is read at the actions where the code reads it. Objectives other than CRPS
  and grid skip the holdout and are left out.
- **CRPS search**: whether a candidate is complete, incomplete or failed, and which of two
  complete ones is better, is all that is left of an evaluation. The progress file, the
  JSON exports and the limit of 1 MiB on a checkpoint (1505) are left out.
- **Supervisor**: time is in ticks; everything that is not one of the code's own waits is
  instantaneous except for `MaxSlow` ticks, and `WithinBudget` is about the code's own waits:
  what slow steps took is added to the deadline.
- **Investment ledger**: rows are the requests that brought them; a fingerprint is a
  generation number, that is, two generations never agree in size and `mtime_ns`. The view
  is what it was derived from.
- **Schwab trades**: one account, one ticker; fee and net amount are one number; exports tell
  days and no times; positions are those at the end of a day; links that older versions
  wrote without an archived row are left out.
- **Cards**: one account; the match key is one value, so that two descriptions either
  normalize to the same one or do not; a document shows what it shows whenever it is read again.
- **Market**: a history is its set of days. Prices are taken over from the newer download
  and no property is about them.
- **Backtests**: prices and money are whole numbers, average costs exact fractions. The
  code uses floats: rounding at a limit is out of the model. Whole shares only; one
  ticker's dividends are paid out or ignored, the rotation's are also reinvested.

## 9. What is not modelled

`PROJECT.json` lists each part with its reason, and for a part that is modelled in
part what is missing. In short: most of the code by size is case analysis on
formats (parsers of statements, some thirty thousand lines), pages, reports and
numerics. It has no state of its own beyond one call, and a model of it would be a copy.
Brokers and downloads are services outside the repository; migrations run alone.
What is left and is protocol is the settings store, the order in which table locks
nest, and the connectivity caches (section 10).

Hazards beside those listed in `PROJECT.json`, which no module covers:

- two first saves of a ledger that does not exist: the loser of the link raises
  instead of updating (`investment_sqlite.py:219`; its callers hold the ledger lock);
- locks nest, ledger before cache before older files, and nothing records the
  order (`foundation.py:874`);
- the cleanup of unused data lists protected tickers before it locks
  (`storage.py:1796`);
- connectivity caches are probed and written by many threads without a lock
  (`connectivity.py:650`);
- settings replace the document they have read (`preferences/store.py:104`);
- an order has no key of its own (`live_trading.py:297`);
- the lock of the end-to-end suite is inherited by a child (`e2e_lock.py:92`).

## 10. Plan

Done: the store with its abstract specification; both kinds of training jobs; the
genetic search, the CRPS search and the supervisor; process pools; the investment
ledger, the card ledger, their abstract specifications, and the reconciliation of
Schwab trades; requests for market data; both backtests with the strategies whose
limits and entries they share. Proofs for all of them.

Next:

1. `Settings`: one document under a file lock, with the read-only readers of finding 2
   and the migration of legacy sections.
2. `TableLocks`: the order in which callers nest the locks of ledger, cache and tables.
3. The inherited lock of the end-to-end suite; connectivity caches.

New runs replace narrower ones where an instance can answer both questions.
