# A verification project for QwenBot

QwenBot is a paper-trading bot for Polymarket's weather markets (Python, FastAPI, SQLAlchemy over
SQLite).  It fetches markets and weather forecasts, estimates probabilities, bets, fills ladder
orders on dips, exits early, settles, and tunes itself.  This directory holds TLA+ models of its
core, the TLC configurations that check them on small instances, and proofs that TLAPS checks for
every instance.

1. [The system](#1-the-system) – inventory of components
2. [The modules](#2-the-modules) – what models what
3. [The runs](#3-the-runs) – what is checked, bounds, fairness
4. [The proofs](#4-the-proofs)
5. [Where code and documentation disagree](#5-where-code-and-documentation-disagree)
6. [Abstractions](#6-abstractions) and [what is not modelled](#7-what-is-not-modelled)
8. [Plan](#8-plan)

## 1. The system

Two asyncio loops started by `/api/start` run synchronous jobs on threads (`asyncio.to_thread`):

    scan_and_bet_loop   fetch -> parse -> weather -> analyze -> place -> update prices -> risk
    settlement_loop     SIA cycle -> settle

The jobs share nothing but the SQLite database, some module-level caches and the process-wide
`bot_config`.  HTTP requests to `/api/cleanup` and `/api/reset` run beside them, and the command line
(`python main.py bet | settle | reset ...`) runs the same jobs in another process.

| Component | State | Operations | Talks to | Hard behaviour | What makes it correct |
|---|---|---|---|---|---|
| **Bet ledger** (`executor/`, `jobs/scheduler.py`, `utils/accounting.py`, `main.py`) | `bets`, `portfolio`, market status | place, update prices, risk exit, settle, cleanup, two resets | database; Gamma API | threads and processes overlap; rows are read, kept over network calls, written back; stop cancels tasks, not threads | the books balance, one open bet per market, caps hold, a row is closed once, due positions are closed |
| **Position arithmetic** (ladder, sale, settlement, early exits) | the JSON of a ladder | fill rungs, value, settle | called by the ledger's jobs | partly filled ladders, both sides, boundaries | a rung is paid once, on a dip; a result is reckoned on what was paid |
| **Sessions and schema** (`database/`) | connection, identity map | query, flush, commit, rollback | every job | UPDATE of the changed columns only, one writer, no version column | part of the ledger's model |
| **Market ingest** (`scrapers/polymarket.py`) | `weather_markets` | fetch, refresh, status | Gamma API | reopens markets whatever became of them | quotes valid, no market lost to settlement |
| **Forecast analysis** (`engine/calculator.py`, `utils/probability.py`) | `analyses` | analyze | forecasts, ledger | ids used again after a deletion; advice of any age is acted on | advice is sound on its own side, acted on once and in time |
| **Sizing** (`utils/kelly.py`, `utils/price_sanity.py`, `RiskManager`) | none | Kelly fraction, effective edge, caps | analysis, placing | boundaries, rounding, min above max | never stakes on a negative edge, within limits |
| **SIA** (`engine/strategy.py`, `utils/weights_store.py`) | weights in memory, on the config object, in two JSON files; `min_edge`, `kelly_fraction` | optimise, save, use, tune, load | settled bets, `bot_config` | crash between the steps, small updates not written, a non-atomic write | weights sum to one, survive restarts, are used; parameters within limits |
| **Lifecycle** (`main.py`: `BotState`, start, stop, websocket; `asi_main.py`) | `is_running`, tasks, lock | start, stop, reset, status, shutdown | both loops, the executor | cancelled tasks leave their threads running; loops must not end by an exception | at most one set of loops; a started bot goes on; a shutdown ends |
| **Weather fetcher** (`scrapers/meteo.py`, `meteo_cache.py`, `utils/retry.py`) | fetch cache with expiry, throttle | grouped fetch, fallback, retry | two weather APIs | failures cached before the retry; 429 not cached; look-up and membership test apart | recovers after an outage, no storm of requests |
| **HTTP client** (`scrapers/async_client.py`) | cache without expiry, throttle | fetch, fetch_many | market ingest | answers and failures kept for ever | what is saved is what is offered |
| **Settlement parsing** (`_fetch_market_resolution` of `settler.py`) | none | answer to YES / NO / pending | Gamma API | a decisive price before the official end | never settles against the official outcome |
| **ASI engine** (`asi_engine/`, `asi_main.py`) | cognition base and file | propose, simulate, analyse, deploy | SIA's two files, from another process | files with two writers and no common lock; overlapping requests; torn files | keeps its best; what the bot starts from stays within limits |
| **Title parser** (`engine/market_parser.py`, `matcher.py`) | none | parse | ingest | free text | – |
| **Scripts, dashboards, tests, configuration** | – | – | – | – | – |

The hazards of each, at the line where it bites, are the `hazards` of `PROJECT.json`, with the
properties that would notice.

## 2. The modules

| Module | Models | Role |
|---|---|---|
| `Pricing` | ladder, marks, early-exit tests, sale and settlement arithmetic | pure operators, integers of cents and thousandths |
| `Ledger` | every job that writes `bets` or `portfolio`, on any number of workers | the core state machine |
| `CashBook` | what the ledger promises: positions bought and closed on an account | abstract specification |
| `LedgerBook` | the refinement mapping from `Ledger` to `CashBook` | `KeepsTheBook` |
| `MCLedger` | instances of `Ledger` | model checking |
| `LedgerProofs` | theorems about `Pricing`, and about `Ledger` however jobs overlap | proofs |
| `OneJobProofs` | theorems about `Ledger` and `LedgerBook` when one job runs at a time | proofs |
| `SumProofs` | sums of a function over a finite set, ranks in a finite set of numbers | lemmas for the other proofs |
| `Sia`, `MCSia`, `SiaProofs` | the optimisation cycle and its two files; instance; theorem | state machine |
| `Evolution`, `MCEvolution`, `EvolutionProofs` | the ASI process beside the bot's: `EXTENDS Sia` and composes both processes | composition |
| `Sizing` | side, edge, demanded edge, stakes of an analysis | pure operators |
| `Scan`, `MCScan`, `ScanProofs` | the scan loop as a pipeline over its tables, with the HTTP client's cache; the proofs also hold those about `Sizing` | state machine, calls `Sizing` |
| `Weather`, `MCWeather`, `WeatherProofs` | the weather fetcher: ensemble, backup sources, cache, throttle, retry | state machine with time |
| `Lifecycle`, `MCLifecycle`, `LifecycleProofs` | start, stop, shutdown, loops as tasks, the executor's threads | state machine |

How they fit: `Lifecycle` says which loops run and that their jobs come again; `Scan` and `Ledger` say what
the jobs do, `Scan` what is decided and on what, `Ledger` what it does to the money and what happens when jobs
overlap; `Weather` is the inside of `Scan`'s `FetchWeather`; `Sia` is a job of the settlement loop, and `Evolution`
adds the other process that writes its files.

### Ledger

*State.* `bets` is the table, indexed by row id (a `/api/reset` empties it; ids start again, as
SQLite's do).  `portfolio` has the two columns jobs decide by.  `analyses` has the rows with
`should_bet`; `markets` the quote and status.  `session[w]` is what worker `w` holds in memory: which
job it runs, the rows it loaded (`seen`), the rows as it changed them (`mine`), the cash balance as it
loaded (`base`) and changed it (`purse`), rows to insert (`add`) and market statuses to write.

*Sessions.* `Commit` is SQLAlchemy's flush: of each loaded row the columns whose value differs from
the value loaded, the inserts, and the cash balance *as a value*, never as an increment.  `Rollback` is
what the ORM does when a row to update is gone.  The cleanup transaction starts with a `DELETE` and
holds SQLite's write lock (`CanWrite`); the others take it only to commit.

| Code | Actions |
|---|---|
| `PolymarketScraper.fetch_and_save` | `Fetch` |
| `run_analyze` / `analyze_market` | `Analyze` |
| `place_all_pending`, `place_bet` | `PlaceBegin`, then per analysis `PlaceSkip`, `PlaceReject` or `PlaceAdmit`, `PlaceDebit`, `Commit` |
| `run_update_prices` | `UpdateBegin`, `UpdateDebit`, `Commit` |
| `run_risk_management` | `RiskBegin`, `PostCredit`, `Commit` |
| `settle_all`, `_settle_market` | `SettleBegin`, per market `SettleExpire` or `SettleAsk` followed by `SettlePending` or `SettleAnswer` and `PostCredit`, `Commit` |
| `/api/cleanup` | `CleanupBegin`, `PostCredit`, `Commit` |
| `/api/reset`, `main.py reset` | `ResetApi`, `ResetCli` |

A place job commits per analysis, the other jobs once.  `settle_all` asks the network between loading
rows and writing them; that is why `SettleAsk` and `SettleAnswer` are two actions.

*Constants.* `Jobs[w]` says which jobs a worker runs and `Overlap` whether one may start while another
is in progress.  `Overlap = FALSE` is the command line used by hand; `Overlap = TRUE` is the server.

### Sia

One action per step of `run_optimization_cycle`: `Optimize` or `SkipWeights`, `Save`, `Use`, `Tune`
or `SkipTuning` (a query raised; the weights are set already), `Open`, `Write`.  `weights` and `saved` are the two JSON files; `learned`, `attribute` and `params`
are what `SIALoop`, the config object and `bot_config` hold.  `Crash` may come between any two steps
and `Start` is `SIALoop.__init__`.  The weights file is replaced in one step (`os.replace`); the
parameters file is emptied by `open(..., "w")` and written after it, so a crash leaves it `Torn`.

### Evolution

`Evolution` extends `Sia`: a step is a step of the bot's process (`Bot`: Sia's actions as they are) or of the ASI
process.  `known` is `CognitionBase.nodes`, as their number and the best of them, which is all the code looks at;
`cognition` is its file, `evolve[q]` the run of the pipeline on the thread of request `q`: `Begin`, then per round
`Propose` (researcher, backtest, analyzer) or `Abort` (one of them raised; the nodes stay), `Learn` and `Persist` (the file is emptied, then written), and `Deploy`,
`DeployOpen`, `DeployWrite` into the two files of `Sia`.  `crossed` notes that both processes have
`strategy_params.json` open; what is left then may be neither's text (`Garble`).  `CrashAsi`, `StartAsi`, and Sia's
`Crash` and `Start`, fall anywhere; `CrashSeeding` is a first start that dies between emptying the file and writing the priors.

### Sizing and Scan

`Sizing` has the formulas of `Calculator.analyze_market`, `kelly.py` and `probability.py` in whole percents and cents.
`Scan` is one action per job of `scan_and_bet_loop`, in the loop's order by `phase`; placing is one action per analysis:

| Code | Actions |
|---|---|
| `fetch_and_save`, `_fetch_raw_markets`, `fetch_many` | `Fetch` (window, cache, deduplication, upsert) |
| `run_parse_markets`, `run_fetch_weather` | `FetchWeather` |
| `run_analyze`, `analyze_market` | `Analyze` with `Signal` |
| `place_all_pending`, `place_bet` | `PlaceBegin`, then per analysis `PlaceBet`, `PlaceSkip` (an early return), `PlaceRefuse` (a cap, a failed live order or debit: a row is written) or `PlaceFail` (it raised), `PlaceEnd` |
| `run_update_prices`, `run_risk_management` | `ManageRisk` |
| an exception in a job; the pause; a new process | `Raise`, `NextScan`, `Restart` |
| `/api/cleanup`, the reset command, `/api/reset` | `Cleanup`, `ResetCli`, `ResetApi` |

An analysis carries the scan it is of (`at`), which the database does not have: with it the properties tell an
analysis from a later one with the same id.

### Weather

`job[t]` is where the job of thread `t` is: the pairs of group and metric still to do, what it has stored, the source
it is at, its attempt and its wait.  `LookUp` and `Member` are two actions because `_cache_get` holds the lock and the
test `cache_key in _FETCH_CACHE` after it does not.  `Tick` is time: it passes only while every thread waits.
`AskEnsemble` comes first for each pair and does not go through the cache; it keeps a body for the other metric of the group
(`own`), which counts its own models in it and so comes to a verdict of its own; `AfterSource` goes on to the other source
or the next pair; `Retry` is the decorator.  `late` counts, for the property, requests sent for what the cache has.

### Lifecycle

`task[t]` is a coroutine and what it awaits, `tasks` what `state.tasks` names, `waiting` the executor's queue, `busy` the jobs
on threads by the task that awaits them, `orphans` those nobody awaits.  `Start` and `Stop` are atomic: both hold
`start_stop_lock` and have no `await` inside.  A cancellation withdraws a queued job, leaves a running one alone (`Withdrawn` is
what stays in the queue, in its order) and reaches the coroutine at its next turn (`GiveUp`).  `OwnFlag = TRUE` is `main.py`, `FALSE` is `asi_main.py`.

## 3. The runs

| Run | Question | Result |
|---|---|---|
| `ledger_books` | One job at a time, plain stakes and ladders, both sides, a reset to an account that ladders use up: do the books balance, and is each commit an entry of a cash book? | `TypeOK`, `BooksBalance`, `NoneStranded`, `ClosedOnce`, `ExposureCapHeld`, `KeepsTheBook`, `CashPaysForFills` hold |
| `ledger_serial_ladder` | Scan and settlement loops taking turns, ladders, a fall of the price through both lower rungs, the reset command, fairness | `CityCapHeld`, `DuePositionsClose` hold |
| `ledger_server` | Scan, settlement and cleanup threads that overlap, `/api/reset` at any moment | `OneOpenBetPerMarket`, `ClosedStaysClosed` hold |
| `ledger_race_books` | Do the books balance when scan and settlement overlap? | no (finding 1) |
| `ledger_ladder_loss` | Is a lost ladder booked at what was paid for it? | no (finding 3) |
| `sia_cycles` | Rounding, freezing, small updates and crashes at any step | `TypeOK`, `WeightsSumToOne`, `LearnedIsDurable`, `ParamsInRange` hold |
| `weather_loop` | Fetch jobs one after another, services that fail in any way, come back or not | `TypeOK`, `NothingLeftOut`, `JobsEnd`, `Recovers` hold |
| `scan_loop` | Three scans, refusals, jobs that raise, restarts, cleanup and resets anywhere | `TypeOK`, `SignalOnce`, `SoundAdvice`, `BetsInTime` hold |
| `scan_replay` | Is a bet what the newest analysis of its market says? | no (finding 5) |
| `feed_stale` | Does a fetch save what Gamma offers? | no (finding 6) |
| `evolution` | Two overlapping evolutions beside a SIA cycle, crashes of both processes | `EvolutionTypeOK`, `WeightsSumToOne`, `NeverWorseThanPrior` hold |
| `lifecycle` | Starts, stops and a shutdown in any order, two threads, failing jobs | `TypeOK`, `OneLoopPerKind`, `LoopsGoOn`, `ShutdownEnds` hold |

*Bounds and why they are enough.*  Two markets of one city are what it takes for the city cap, for
exposure summed over positions, and for one session settling two markets; two bet rows for any pair
of actors to meet on.  `ledger_books` starts with 10 000 and stakes of 999.99 and 1 500.01 against caps of
16 % and 25 %: the two together sit on the exposure cap exactly and two large ones are above it, so bets are
admitted on the boundary and rejected beyond it, and both are settled in one session; odd cents and a price of 0.507 make every rung and sale a rounded one.
The other price is past every rung, a stop-loss for YES and a take-profit for NO.  After the reset the account holds 1 000, which two first rungs of 500 use up, so that
a lower rung costs more than there is and its debit fails.  In `ledger_serial_ladder` the price falls from 0.500 to 0.008, below the last rung and
below what may be traded.  One day passes (`MaxDay = 1`), so both the day of the market and the time
after it are there; one reset falls anywhere.  In `sia_cycles`, three cycles are what it takes for two updates below the write threshold to follow
a written one; Brier scores 0.0100 and 0.0130 differ too little to be written, 0.9801 drives a weight to its floor.
The strategy is configured with `min_edge` 0.14, one step below its limit (from the shipped 0.05 it takes ten cycles to get there), and `kelly_fraction` 0.15, two steps above
its lower limit, so that three cycles go past both.

In `weather_loop` one group with two metrics is what it takes for a body of the ensemble to serve the other metric and for a remembered
failure to meet the next pair; the times keep the code's order (throttle, waits and back-off shorter than the failures' time to live,
that shorter than the answers').  Jobs repeat without bound: the state space is finite because ages saturate.

`scan_loop` has three scans
over three days: an analysis, a later one of the same market, and a third after a reset has let ids start again.  Its second market is of the
twelfth, which the textual window lets through on the first.  One forecast lies between the quotes, so that YES is advised at one and NO at the other, which has a spread; Kelly's share is then below `max_bet_amount`.
That nothing is bet on too early when the far market has coordinates is left to the theorem.
In `evolution` two runs are two overlapping requests; one of the weights is below the shift, so that the clamp at one percent is met;
one return is below the prior's, one above.  In `lifecycle` four tasks are two sets of loops, the second started while the first ends; two threads
can both be held by jobs of the first; the scan loop has two jobs, so that a failure cuts a round short.

*Symmetry.*  `ledger_server` identifies the two markets: they have one city and one day, and both of its properties are
safety properties that treat markets alike.  `evolution` identifies the two requests; its properties are invariants that name neither.

*Deadlock* is not checked: when all the days have passed, the ids are used up and nothing is
left to settle, the bot of the model really has nothing to do (so does SIA's after its last cycle, and a server that is down).

*Fairness* (`FairSpec`).  A thread that runs a job goes on with it (weak fairness of its steps) and a request to
the Gamma API returns, with a timeout of 15 s (weak fairness of `SettlePending \/ SettleAnswer`).  The loops repeat as long as
the bot runs, and a scan cycle ends, so the settlement job gets its turn again and again even when jobs exclude each
other (strong fairness of `SettleBegin`).  The market is decided at last: asked for ever, the API does not answer
"pending" for ever (strong fairness of `SettleAnswer`).  Nothing else is fair: days need not pass, prices need not
move, jobs that place bets need not run.

*Fairness of the others.*  `Weather!FairSpec`: time passes, a thread goes on with its job (requests have timeouts), the scan loop starts the job
again; a service need not come back, and need not stay.  `Lifecycle!FairSpec`: the event loop gives each task its turn (weak fairness
of `Turn`), the executor runs what is queued while it has a thread, and jobs end (requests and database locks have timeouts), so also those nobody awaits;
`Exit` is taken when it can be.  Nobody need start or stop anything: `LoopsGoOn` is about a bot that is left running.

*Safety properties worth a note.*
`BooksBalance` relates the balance to all rows: cash = initial + every pnl − what is paid for the open positions, exactly if stakes are plain.
`KeepsTheBook` says more: each commit is one purchase, one filling of rungs, one refusal or one closing (possibly of several positions), with
losses and the money moved bounded by what was paid; `ClosedOnce` is implied by it only for rows that survive.
`NoneStranded` relates a bet to the status of its market; settlement will look at a market only while it is `open` or `bet_placed`.

## 4. The proofs

Every invariant and every action property that a run checks and finds true is also a theorem (some under a hypothesis), and so is the refinement of
`CashBook`.  The theorems hold for any set of workers and markets, any jobs, resets, prices, stakes, limits, models, threads,
tasks, and any value of the bounds.  What they assume is in three places:

- *The modules' named assumptions*, which TLC evaluates on every run: types of the constants and finiteness, and three facts the
  code gives.  The default weights and the prior's sum to one (`DefaultAssumption` of `Sia`, settings.py:161-170; `EvolutionAssumption`,
  cognition_base.py:86-97).  A query of the feed lists markets, and the markets of `Scan` are each listed once, as rows are keyed by the market's id
  (`ScanAssumption`).  There is a thread that fetches (`Weather`).
- *The hypothesis of the theorem*, where there is one; the runs and section 5 show what can happen without it.
- *TLAPS' back ends* and the library's theorems on finite sets, functions and sequences.

| Theorem | Hypothesis | Says |
|---|---|---|
| `LedgerProofs!Types` | – | `Spec => []TypeOK`; the cash never goes below zero |
| `LedgerProofs!ClosedStays` | – | no commit reopens a closed row, whatever overlaps |
| `LedgerProofs!OneOpenBet` | `SinglePlacer` | no market has two open bets |
| `LedgerProofs!CityCapIsHeld` | `SinglePlacer` | no city has more than `CityCap` |
| `OneJobProofs!ClosingIsFinal` | `OneJob`, no reset command | status and pnl of a closed row are never written again |
| `OneJobProofs!ExposureCapped` | `OneJob` | no bet takes the open stakes past the cap |
| `OneJobProofs!NeverStranded` | `OneJob` | open positions lie on markets settlement looks at |
| `OneJobProofs!TheBookIsKept` | `Paper` | `Ledger` implements `CashBook`, ladders included |
| `OneJobProofs!TheBooksBalance` | `Paper` | cash = opening balance + every pnl − paid for open positions, within what ladders may be out |
| `OneJobProofs!CashIsSpentOnStakes` | `Paper` | a step that closes nothing takes the new stakes and rungs from cash, or less if one of the rungs costs more than is left |
| `SiaProofs!SiaTypesHold`, `ParamsStayInRange` | – | types; `min_edge`, `kelly_fraction` in their limits |
| `SiaProofs!WeightsStayWhole` | – | weights sum to one but for half a unit per model |
| `SiaProofs!LearningIsNotLost` | one runner | a restart loses less than the threshold of a write |
| `EvolutionProofs!EvolutionTypesHold`, `EvolvedParamsInRange`, `EvolvedWeightsWhole` | – | the same beside a second process |
| `EvolutionProofs!NeverBelowPrior` | – | the best node is never worse than the prior |
| `ScanProofs!AdviceIsSound`, `StoredAdviceIsSound` | – | side, edge and stake of a recommendation belong together and keep the limits; so do those of every stored analysis |
| `ScanProofs!EveryBetInTime` | – | bets are made in the window of their market |
| `ScanProofs!ScanTypesHold`, `EverySignalOnce` | – | types; an analysis is bet on once, through restarts, cleanups and resets |
| `ScanProofs!KellyBetWithinCap`, `FloorComesLast` | – | `kelly_bet_amount` keeps its cap; `calculate_position_size_with_risk` does not keep its own |
| `WeatherProofs!WeatherTypesHold`, `NoStormEver` | – | types; what the cache remembers is asked for again once by each other thread at most |
| `WeatherProofs!NoMarketLeftOut` | one thread | a job stores a forecast for all, if one backup source was always up |
| `LifecycleProofs!OneLoop`, `ThreadsSuffice` | – | one loop of a kind goes on; never more jobs on threads than there are |

*The hypotheses.*  `SinglePlacer`: at most one worker places bets (one scan loop; finding 2 is two).  `OneJob`: no job starts while another
is in progress, which is how the command line is used and how the two loops run while neither is slow; the server does not guarantee it,
and finding 1, the row closed twice and the stranded bet of section 5 are what it does otherwise.  `Paper`: `OneJob`, no live orders, and the reset of the server, not of the command line; each of the other
cases breaks the books (section 5).  Stakes may be plain or laddered, on either side.  One thread in `Weather`: finding 10.
One runner in `Sia`: of two threads the later to write may have learned from older weights.

*The ledger, whatever overlaps.*  `TypeOK` is inductive because it says what a session holds between its steps (`Sound`): a row to insert
while it is debited, rows for what the settlement asks about, both copies of a row or none.  For `ClosedStays` it needs `LoadedOpen`, that the copy a
session loaded has status `placed`: the flush writes a status only if it changed from that, hence never back to it.  `OneInv` adds that a worker's
job is one of its jobs and that, while the placer holds a row to insert, its market has no open bet (`RowFresh`); `CityInv`, that its city has room (`CityFresh`):
other jobs only close rows, and nobody else inserts.

*The ledger, one job at a time.*  Each layer says more about the one session in progress:
`Calm` – the rows and the balance it loaded are those in the tables (`InTune`), so what a job found when it began is still so at its commit; with it alone
`ClosingIsFinal` and, as the caps were evaluated on those tables, `ExposureCapped`.
`Worked` – how the session's rows differ from those loaded, by job: filled, sold, settled, cancelled.
`Tended` – which statuses the session is about to write, and that those it gives up have no open row left (`Marked`), and that rows and ids leave room for what a job will insert.
`Accounted` – every open ladder has its first rung filled (`OpenBegun`); the row to insert is debited, by its stake or its first rung, before it is committed (`Entered`); what the purse differs from the
balance loaded by lies between the least and the most the rows of the session may bring (`Tallied`, with `Low` and `High` per row), and for the rungs of an update it is what they cost, or one of them
was too dear (`Unpaid`).  For that the three rungs must cost the stake but for a cent, the sale of filled rungs bring at most a tenth over what was paid and three cents more or two cents less (bounds on rounded quotients, lemmas of
`LedgerProofs`).  From `Accounted` a commit is one entry of the book: a purchase, a filling, a refusal or a closing of the set of rows the session closed.
`BooksBalance` follows: cash lies between the sum of the rows' floors and that of their tops (`Floor`, `Top`), every commit moves it within what the rows it wrote move theirs, and the rest of the sums stays.

*Sums.*  The library's induction over finite sets takes an operator as its parameter, which the provers cannot instantiate.  `SumProofs` goes round it: if a fact about sums failed, there would
be a smallest set for which it fails (`Smallest`, from the well-foundedness of strict inclusion among finite sets), and taking one element out of that set refutes it.  So
the recursive function behind `SumFunctionOnSet` exists (`SumsExist`), obeys its equation whichever element is taken out (`SumTake`), splits over disjoint
sets and keeps bounds.  The last section does the same for ranks: the members of a finite set of numbers, numbered in order, take every number up to the cardinality.
`Scan` numbers its ids so, and `Lifecycle` what is left of its queue.

*SIA.*  `SiaInv` is the types, `ParamsInv` (in range are also the file, or missing, or torn, and whatever a runner has yet to write) and `SumsInv` (each set of weights in use, on disk or in hand is near one): normalising divides by the
sum, so each weight is off by half a unit at most, whatever was off before.  `DurableInv`: what the runner has yet to put into use is close to what it wrote.  `BothInv` adds that what the ASI process knows, has in its file or in hand is in the researcher's
limits, which are narrower, and sums to one; Sia's own lemmas serve for its steps.

*Scan.*  `ScanInv`: analyses are of no later day than today and were in time when made; the quote test of `analyze_market` and `AdviceIsSound` do the rest.  `TableInv` adds that no id is in two bets, in a bet and in the queue, or in the queue twice (`BetOnce`, `Waiting`), and
that ids keep within the scans so far.  The ids of deleted analyses are given again; `SignalOnce` survives because the queue is worked off before new ids are given, and because an analysis whose id a bet has is never
queued, even when that bet is of a deleted analysis (finding 7).

*Weather.*  `StormInv` counts: requests sent for a remembered key and the threads that may still send one are fewer than the threads, because the one that wrote the entry is past it.  `ServedInv`, of a source that has always been up: what a job need no longer do is stored
(`Covers`), the pair is stored before the other source is asked (`Tried`), the cache remembers no failure of it (`Honest`), and nothing comes into the cache between the two looks (`Unexpected`, where the one thread is needed).

*Lifecycle.*  `LoopsInv`: `tasks` names one task per kind, and whatever lives and is not cancelled is named by it.  `LifeInv` adds that what waits in the queue or is on a thread is awaited by its task, once.

*Only proved:* `NoStorm`, which needs two threads and an order of theirs to say more than that a remembered key is not asked for, and `ParamsInRange` beside the ASI process, whose
runs are too short to meet a limit.

*Only model-checked:* liveness (`DuePositionsClose`, `JobsEnd`, `Recovers`, `LoopsGoOn`, `ShutdownEnds`), which is out of the prover's reach.

## 5. Where code and documentation disagree

Numbers 1, 3, 5 and 6 are runs whose counterexample TLC prints; the others are found by changing constants of a configuration.

1. **Lost updates** (`utils/accounting.py:60`, `ledger_race_books`).  The new balance is computed from the session's
   copy; a settlement and a scan job that overlap lose one change.  `accounting.py:3-6` promises auditability
   and no double spending.
2. **Two bets on one market** (`executor/bet_placer.py:98`): `OneOpenBetPerMarket` of `MCLedger` with `Worker = {scan, scan2}`,
   `Jobs <- TwoScans`, `Overlap = TRUE`, one market.  Stop cancels tasks, the job's thread goes on;
   start begins another loop (or the `bet` command runs).  Both look before either inserts.
3. **A lost ladder loses too much** (`executor/settler.py:158`, `ledger_ladder_loss`).  Settlement takes the whole `amount`,
   only filled rungs were debited; a win is credited for shares never bought.
4. **NO rungs fill on a rise** (`jobs/scheduler.py:151`): `RungNeedsDip` with the constants of `ledger_ladder_loss` but `Sides = {"NO"}` and `Quotes <- Uneven`.
   The NO price is complemented a second time.
5. **Old advice is acted on** (`executor/bet_placer.py:360`, `scan_replay`).  Every analysis that ever said `should_bet` and has no row in `bets` comes up in each
   cycle.  A cap, a failed live order or a failed debit leaves a row, and the analysis is passed over from then on; but one that an early return left alone (an open
   bet on the market, a quote out of range), one whose `place_bet` raised and those of a cycle that never came to placing are bet on later, when the newest analysis of the market says no, or the other side.
6. **The feed is frozen** (`scrapers/async_client.py:271`, `feed_stale`).  The HTTP cache has no expiry and nothing empties it (`cache_clear` has no caller
   outside the tests): each scan of a process saves the quotes of the first, and a query that failed is never sent again.
7. **A reused id hides an analysis** (`executor/bet_placer.py:368`): `SkippedHaveBets` as an invariant of the configuration of `scan_loop`.  The reset
   command keeps the rows of bets; ids of analyses start again.
8. **Learned weights are not used** (`engine/strategy.py:1002`): `LearnedInUse` with the constants of `sia_cycles`.  They are set on the config instance; the
   engine's class method reads the class.
9. **SIA runs every two minutes** (`main.py:683`), not every 24 hours: `TunedOnceADay` with the constants of `sia_cycles`.  Ten bad settlements in a row take
   `min_edge` to its limit of 0.15.
10. **A fresh answer is taken for a failure** (`scrapers/meteo.py:106`): `NothingLeftOut` of `MCWeather` with `Thread = {scan, left}`, one metric,
    `SuccessTTL = 2`, `FailureTTL = 1`.  Look-up and membership test are two steps.
11. **A 429 is not remembered** (`scrapers/meteo.py:124`) although the docstring says so: `AnswerRemembered` with the constants of `weather_loop`.  Each pair
    asks again and waits again.
12. **The window leaks** (`scrapers/polymarket.py:121`): "June 1" is found in "June 12".
13. **The ASI server's loops end at once** (`asi_main.py:229`): `LoopsGoOn` of `MCLifecycle` with `OwnFlag = FALSE`.

Also reproducible:

- *A row closed twice*: `ClosedOnce` with `Jobs <- Server`, `Overlap = TRUE`, `Quotes <- Crash`, one market: risk sells a row the
  settlement loaded before its request.
- *A stranded bet*: `NoneStranded` with `Jobs <- Server`, `Overlap = TRUE`: the market expires on a query made before the bet is committed.
- *A free rung*: in `ledger_books`, after a reset the balance may not cover a rung; it is marked filled and the failed debit only logged
  (`jobs/scheduler.py:160`).  `CashPaysForFills` and `CashBook`'s `Fill` allow for it, and for nothing else; `BooksBalance` counts it in `Surplus`.
- *A refused live order is debited*: `BooksBalance` with `Live = TRUE` (`executor/bet_placer.py:332`).
- *The reset command* sets settled rows to `cancelled` and keeps their pnl: `BooksBalance` and `ClosedOnce` with `Resets = {"cli"}`.

Two early-exit tests never fire: time decay reads `market.resolution_date`, which no row has, and model
reversal divides by `bet.stake`, which no row sets, and swallows the exception.

## 6. Abstractions

*Ledger.*  The books are stated with what the code makes of a ladder: it is settled by its whole stake (finding 3) and sold by its entry price, so a closed ladder may leave the cash above the
books by its unfilled rungs (`Surplus`) or below them by the rounding of its rungs (`Shortfall`); a plain stake is exact.  Forecasts are left out: `Analyze` recommends any side and stake from small sets.  Columns no job reads to decide
(`current_price`, `unrealized_pnl`, `total_value`, counters) are left out, and the price of a `rejected` row is not told apart.
Money is in cents, prices in thousandths, shares exact up to that; rungs of size zero are omitted.  The order of jobs within a
scan cycle is left free, which allows more than the loop does.  `Fetch` of a market is atomic.  Ids: `MaxBets`, `MaxAnalyses`
bound rows, `Reserved` counts rows of jobs in progress; `MaxResets`, `MaxDay` bound the rest.

*Sia.*  Scores, win rates and returns are choices.  Weights are integers of 1/10 000 because the code rounds to four
decimals; a tie may round to the other neighbour than Python's.  A failed write of a file (disk full, read-only) is not modelled, nor is
`historical_simulator.py`, which runs a cycle on the same files from another process.  With many models a rounding surplus may exceed the
room left for the only model that is not frozen; how large that surplus can get is `WeightsSumToOne`.

*Weather.*  Time is in ticks, and one is long against statements in a row.  Bodies are `data`, `few` (fewer than three models), `empty` or an error;
a body with an empty list of days is not told apart from an unreadable one.  The throttle takes the moment of the request for that of the
look at the clock.  Commits succeed: a failed commit of the ensemble's rows is logged and the code goes on as if it had them.

*Scan.*  What a title says is a constant of its market; the probability is a choice, and stored forecasts never grow old, because the code does not look at their
age.  The jobs of one cycle are atomic but for placing; jobs that overlap are Ledger's.  Which refusals `place_bet` has beyond price, day and open bet
(caps, funds, live orders) is Ledger's too; here `PlaceRefuse` may always come, with or without the market's status, and so may `PlaceFail`.  `min_liquidity` is 0.  Percents and cents stand for floats; divisions round down.
Per-model probabilities, which SIA uses, ignore the upper end of a range (`calculator.py:169-176`); a threshold of exactly 0 degrees is taken for none
(`polymarket.py:324`); `bestAsk`, the price of YES, may be read as the NO price (`polymarket.py:216`): these lines choose data that is a choice here.

*Evolution.*  A backtest's return is any of a set.  Hypotheses, Brier scores and insights are left out: nothing is decided by them.  The researcher picks any
two models, which includes its preferences.  The replacement of the weights file is atomic, although both processes use one fixed `.tmp` name.  A torn
cognition file is loaded as no nodes, and `max` over none raises in every later run: in the model `Begin` is then never enabled.

*Lifecycle.*  Requests take no time but for the jobs.  `asi_main.py` has a shutdown that does not gather its tasks; the model has `main.py`'s.  Its `reset` command
prints a text and does nothing.  The websocket endpoint keeps a list nobody sends to.

## 7. What is not modelled

Parsing of titles and of the Gamma API's answers (free text and free-form JSON; what they can yield is a choice of the models), the consensus
and bias formulas behind a probability, the read-only API and the websocket clients.  `meteo_cache.py` is an older copy of `meteo.py`'s cache that no
file imports.  `BettingEngine` is built by `main.py` but no loop calls it; of it `Sizing` has the position size.  The historical simulator, scripts run by
hand, dashboards, logging and the reading of the environment hold no state other components depend on.

## 8. Plan

1. *Done*: `Pricing`, `Ledger` with the abstract `CashBook`, `Sia`, `Evolution`, `Sizing`, `Scan`, `Weather`, `Lifecycle`, and the theorems of section 4.
2. *Proofs*, next: which of the theorems under `OneJob` need only that some jobs exclude each other (for `NeverStranded`, placing and settling); that no debit of a rung fails under a hypothesis on
   the balance a reset opens with.
3. *Models*: how an answer of the Gamma API becomes YES, NO or pending; the consensus formula as pure operators over a bounded grid, monotone in its members.
