# Prediction-Market-Engine: a TLA+ model

This directory holds a formal model of the engine: TLA+ modules for the parts of the
program whose correctness depends on what happens in which order, TLC configurations that
check them on small instances, and proofs that TLAPS checks for every instance. Every
definition is translated from the Python and JavaScript sources; `PROJECT.json` says, under
`map`, which lines each one stands for.

    tlc -workers 2 -config PositionsLedger.cfg MCPositions      # a run
    tlapm PositionsProofs.tla                                   # the proofs of a module

## 1. The system

The engine watches prediction markets on sports events. An hourly job and an HTTP service
(`src/src/api`) run the same pipeline: collect (connectors), normalise, match events with
markets, predict, price, and decide on each side of each market (decision pipeline, policy
engine), saving what was decided. A browser extension shows the analysis on the broker's page
and keeps, through the service, a ledger of the positions the user really holds: the engine
never trades, it records fills that the user made by hand. A second layer watches the quality
of all that: results are synchronised, predictions are evaluated, calibrators and models are
registered, tested once and promoted under a governance ledger, and their artifacts kept in a
content-addressed store.

### Inventory

For each component: its state, its operations, who it interacts with, what is hard about it,
and what makes it correct. `PROJECT.json` lists them all with their files and status.

| Component | State | Operations | Interacts with | Hard | Correct when |
|---|---|---|---|---|---|
| Positions ledger (`src/positions`) | SQLite rows: positions, orders, fills, two event logs, recovery plans | create_position, create_order, update_order_status, apply_fill, compute_and_save_plan | HTTP service; advisory engine reads it | concurrent callers with stale rows, replayed calls, fees and free contracts, backdated events | the figures of a position are those of its fills; at most one live order; a sale never sells what is not there; logs replay to the rows |
| Positions HTTP service (`src/api/positions_*`) | none of its own | one endpoint per operation, responses composed of several reads | extension, ledger | a request served long after the client gave up | a repeated request is a replay, or refused |
| Browser extension | one form and one panel per tab, intent ids, epoch and sequence numbers | submit a fill (three calls), exit orders, reconciliation, refresh | HTTP service | timeouts with the call still running, retries of edited forms, two browsers | an intent is recorded at most once; what the form reports is what was recorded; no form blocks |
| Opportunity lifecycle (`src/opportunity`) | two append-only tables with version chains | save_opportunity, save_opportunity_evaluation | decision pipeline, in the job and in requests | check and insert are separate statements; a run may die between the two saves | versions have no gap, no duplicate, and the two tables stay together |
| Decision pipeline (`src/orchestration`) | the run's place in its batch | loop over records and sides, failures isolated | all pure engines, both tables | partial failure | each failure costs one side of one record, for one hour |
| Policy engine (`src/policy`) | none | hard rules, eligibility, soft score, decision | decision pipeline | precedence of many conditions | a blocking condition always wins |
| Artifact store (`src/storage/*store*`) | files under `sha256/<2>/<62>`, temporaries | put, get, exists | registries, export scripts | races to publish, crashes, power loss, damage | write once, never part of a blob, never wrong bytes |
| Analysis history (`src/storage/history_repository.py`) | analyses, outcomes, results | saves and queries | pipelines, results synchronisation, retention | readers and writers in several processes | one final result per event |
| Results synchronisation | none | fetch results, insert the missing ones | history, connectors | check-then-insert; postponed games | each event gets its final result once |
| Sport pipelines and their lock | lock file, stage reports | collect, normalise, match, predict, decide | everything | overlapping runs, crash with the lock | one job at a time, lock free after any crash |
| Data retention (`scripts/data_maintenance.py`) | raw captures, database backups, active and rotated logs | compress, purge, rotate, backup, prune | the hourly job | killed half way and run again | every day a whole backup; old files go |
| Rate limiter (`api/rate_limiter.py`) | token buckets | allow | every request | threads without a lock | no more than capacity plus rate |
| HTTP connectors | none, raw captures on disk | fetch with retries | third parties | retries, timeouts, mixed answers | attempts end; one capture per call |
| Advisory engine (`src/advisory`) | none | advise on a snapshot of a position | positions, latest evaluation | precedence of many inputs, stale inputs | never advises on what cannot be done |
| Analysis service (`src/api/analysis_service.py`) | none | resolve a ticker, run the pipeline, answer | decision pipeline | answers with rows another run wrote | the answer is that of its run |
| Matching | none | pair games with events, choose a market | pipelines | double headers, names that nearly agree | a game is decided on the market of the event that agrees best with it |
| Model registry and candidates | artifact and metadata files, a registry of hashes, the candidate of an attempt | train, allow, load, evaluate | calibration, decision pipeline | files that change between check and use, half-written metadata | only what was allowed, and did not fail its test, is served |
| Calibration governance | append-only, hash-chained ledger file | register, evaluate an attempt, read the test once | evaluation scripts, git | two processes between check and append, torn lines, crash half way | the test is read once per attempt and never raises a verdict |
| Models, features, backtesting, evaluation reports | none of their own: they read the history | build data sets, split, train, test, count | history, governance | rescheduled events, duplicate results, a history that grows | nothing learns from what it is tested on, or from after the start |
| Pricing, signals, uncertainty, evidence, health | none | pure functions of a record | decision pipeline | missing values | no figure is made out of a missing one |

## 2. What is modelled

| Module | Models | Kind |
|---|---|---|
| `Totals` | sums over the rows of a table | operators, shared |
| `Positions` | `positions_repository.py`, `state_machine.py`, `capital_recovery.py`, the rows of `schemas.py`, and the rows `positions_service.py` builds | component |
| `FillForms` | `submitFill` and its neighbours in `content_script.js`, `backendJsonFetch`, and the handlers of the service, over `Positions` | composition |
| `IntentLedger` | what registering a fill promises the user | abstract specification |
| `PanelRefresh` | the row of a market in the panel (`content_script.js`), its calls (`background.js`) and the answers of `positions_service.py` | component |
| `LocalFilesystemStore` | `local_filesystem_store.py`, one system call at a time | component |
| `BlobStore` | the contract in `artifact_store.py` | abstract specification |
| `OpportunityHistory` | `opportunity_repository.py` as `decision_pipeline.py` uses it, one statement at a time | component |
| `CalibrationLedger` | `calibration_governance.py` and the verdicts of `calibration_verdict.py` | component |
| `Values` | optional values and fixed-point arithmetic | operators, shared |
| `Matching` | `src/matching` | operators |
| `Normalization` | `src/normalization`, `src/quality`, `apply_kalshi_match` | operators |
| `Quality` | `src/pricing`, `src/signals`, `src/payoff`, `src/uncertainty`, health, evidence, confidence profile | operators |
| `PolicyEngine` | `src/policy` | operators |
| `SportPipeline` | `mlb_pipeline.py`, `tennis_pipeline.py` and `run_decision_pipeline`, over the four modules above | composition |
| `Features` | `mlb_features.py`, `tennis_features.py`, `preevent_snapshots.py`, the columns of the models | operators |
| `TrainingData` | the history, results synchronisation, data sets, splits, folds, Elo, the trainings of tennis, gate report, label audit | component |
| `DataMaintenance` | `data_maintenance.py`, `pipeline_lock.py`, what a run writes to files | component |
| `ModelRegistry` | `model_registry_policy.py`, `candidate_registry.py`, saving and loading of the tennis base model and its calibrator | component |
| `MC*` | instances for TLC: model values, fee sets, batches, histories | model checking |
| `PositionsProofs` | theorems about `Totals` and `Positions`, and about the forms, as callers of `Positions` and as an `IntentLedger` | proofs |
| `PanelRefreshProofs` | theorems about the panel | proofs |
| `LocalFilesystemStoreProofs` | theorems about the store, and that it implements `BlobStore` | proofs |
| `CalibrationLedgerProofs` | theorems about the governance ledger | proofs |
| `OpportunityHistoryProofs` | theorems about the histories of opportunities | proofs |
| `DataMaintenanceProofs` | theorems about what retention keeps | proofs |
| `ModelProofs` | theorems about what the models learn from and are tested on (`TrainingData`), and about the models served and evaluated (`ModelRegistry`) | proofs |
| `SportPipelineProofs` | theorems about a run of a sport pipeline, its matches and its decisions | proofs |

### Positions

Variables are the tables: `positions`, `orders`, `fills` (functions from ids to rows or
`None`), and the two logs. Every operation of the repository runs in one `BEGIN IMMEDIATE`
transaction, hence is one action: `CreatePosition`, `CreateOrder`, `UpdateOrderStatus`,
`ApplyFill`, each with its guards in the order of the code, the recomputation of the blocked
flag or of the money it ends with, and its event. A refused operation rolls back and is no step.
Callers may pass any version they ever saw (`Versions`), so an optimistic-lock failure is a
guard that really rejects. Times are abstracted to what validation tells apart: now, before the
order was created, or before the position was. Money is in integer cents, fees are known,
estimated or unknown as in the code. `PositionReadable` and `OrderReadable` are the assertions
the schemas make of every row read back; an operation that reads an unreadable row fails.

### FillForms and IntentLedger

One click on Register makes three calls (list the orders, create one if none is live, register
the fill). A click takes the position that the card shows by then (`Submit`), which need not be the one the form was
opened on, and keeps it to its last call. A request is a user, the number of the call, its kind, the intent, the position and a
body; an answer is a user and a result; the repository is called by the actions of `Positions` and by nothing else. A call may time out in the browser (`Timeout`) while its request stays in `requests`
and is served at any later time; requests are served in any order; an answer reaches only a form
still waiting for that very call. Between calls the user may edit the form and other actors
(exit forms, reconciliation, a second browser if `User` has two members) may move the position.
A change of event that hides the form leaves its chain running, which is the same to the server as
a form that nobody looks at. `IntentLedger` sees only which intents are recorded and what the user was told;
`LedgerKept` is the refinement.

### LocalFilesystemStore and BlobStore

Directories and files carry whether their entry and bytes would survive a power loss, which is what
`fsync` changes. `put` is one action per system call; `get` and `exists` look at one point of their
path. Faults are bounded by kind in `MaxFaults`: an error of any system call (`IoError`), a killed
process, damage by a third party, and a power loss that keeps any subset of what was not synced.
`BlobStore` is the write-once contract; `KeepsContract` the refinement.

### OpportunityHistory

The connection opens a transaction only at its first write, so each SELECT and each INSERT of
a run is a step: `GetLatestOpportunity`, `GetLatestEvaluation`, `CheckOpportunity`,
`InsertOpportunity`, `CheckEvaluation`, `InsertEvaluation`. `Raise` is any exception of the
evaluation of one side (a locked database, or an opportunity whose `now` is before its first_seen_at because another
run saved one in between), `SkipRecord` one of the context of a record, `Crash` the end of the process.
Each row keeps its version and its links; an evaluation row also keeps, for the properties
only, the version of the opportunity its run saved. What a run still has to do is a set of places in its batch,
of which it takes the first.

### CalibrationLedger

`ledger` is the sequence of whole lines, `torn` whether a line cut short follows them, `call` what each
process is doing. `register_entry` is two steps: one reads the ledger and checks the entry (`SignPrereg`,
`FreezeSnapshot`, `RegisterBase`, `RegisterCalibrator`, `AbandonAttempt`), the other locks the file and appends
(`Register`), because the code does not look again under the lock at what it had checked. `evaluate_attempt` is a chain of
steps, one per entry and one per look at the ledger (`Evaluate`, `WritePhase1`, `CheckTest`, `WriteTestRead`,
`ReadTest`, `WriteTestResult`, `WriteFinal`). `Kill` ends a process anywhere, in the middle of a line too; `Refuse` is a
`GovernanceError` on the way. Metrics are reduced to the signs of the two deltas beyond tau, whether they
are valid and whether there are enough events; times to what their order decides. Hashes are taken as collision free, and
files whose hash does not match as a caller's mistake (`consistent` is false). A torn ledger stays torn: repairing it is a
decision of people, outside the program. The script that is shipped has no provider of the test
(`provider` is false in its calls); the library's callers may have one.

### PanelRefresh

`row` is the entry of `rowState` for one market: the phase of its card, the matches, the selected position, the list of orders
and `requestSeq`; `epoch` counts how often the page moved to another event, which drops the row; `calls` are the
calls under way, each with the epoch and the sequence number it was made with. The service answers `list_positions` in two
steps, the rows and then their fills (`ListPositions`), so that a change of the ledger may come between. `TimesOut` is
the timer of `backendJsonFetch`: the panel goes on, the server still does what it was asked. `Elsewhere` is any other
browser. The ghosts are `asked` and `from` of the row (what the shown answer was asked for, and when) and `applied` (what the user saw
of an order that was updated, and what it hit).

### Matching, Normalization, Quality, PolicyEngine, SportPipeline

A run takes one sport from the schedule to the saved decisions. `FetchSchedule`, `FetchEvents` and `PrepareRecord` build one
record per game, `AnnotateRecords` marks duplicate markets, `PersistMlb` and `PersistTennis` commit rows (row by row, and as one
transaction), `LoadArtifact`, `BuildContext`, `EvaluateSide`, `SkipWithoutMarket` and their failing twins are the decision
loop. Meanwhile the world records results, promotes or withdraws calibrators, moves the clock and aborts the run.
The modules below `SportPipeline` are its pure parts and have no state. Names are sequences of tokens, numbers ten-thousandths;
`None` is a missing value everywhere and is never read as zero. `Abbreviates` and `Acronym` stand for what the code
computes from letters.

### Features and TrainingData

The world is one or two events of a day on top of a few days of history (`Past`): `Reschedule`, `Begin`, `End`, `PutOff` and `Resume` move it; a
run fetches, then saves (`Fetch`, `Save`: the two are steps of their own and the run may die between them); each
synchronisation looks and then inserts (`SyncLook`, `SyncWrite`) without a lock between processes. Data sets, splits, folds, ratings and reports are
operators on the rows there are at the moment, so that TLC evaluates them in every state of the history; the trainings of the
tennis baseline and of its calibrator are actions, since what they used must be compared with what came later.

### DataMaintenance

`files` maps each name to its content (the numbers of the runs whose output it holds), whether it is whole, and its day of
change. A compression is three steps (`OpenGz`, `CopyToGz`, `UnlinkPlain`), a backup two and its compression; a run keeps the descriptor it
opened (`run.out`) when its log is renamed. The listing of a directory is read once (`todo`), and its files are taken in any
order. `KillMaintenance` and `KillRun` end a process between any two steps; the kernel frees
the lock.

### ModelRegistry

Files and their hashes are one thing: `"whole"` (as trained), `"other"` (changed since), `"half"` (metadata cut short). A training
is three writes and may be killed between them; an operator edits or breaks the registry; a disk damages one file. A load is one
read per step: the registry once, then metadata and bytes of each version (`ReadMetadata`, `ReadBytes`), then what is served
(`FinishLoad`), then the entry of the calibrator and its files (`BindCalibrator`, `ReadCalibrator`). `approved` is a history variable: every
version with the bytes it was allowed with.

## 3. Runs

Twelve runs, each of a question of its own. The one that "fails" is a disagreement between the code and what an assertion of the
repository says, described under `findings` in `PROJECT.json`: TLC must find the property violated.

| Run | Instance | Shows |
|---|---|---|
| `positions_ledger` | 1 position, 2 orders, 3 fills, quantities 1 to 3, every administrative target, all times | at most one non-terminal order; sales backed; UNKNOWN blocks; position and orders agree; rows only move forward: orders that are over stay, and no row changes under its old version |
| `positions_capital` | 1 position, 3 orders, 3 fills, prices 0 to 2, three kinds of fee | the status of a position follows its money, and both logs replay to the rows |
| `positions_unreadable` (fails) | 2 orders, a fee of 3 | a sale with a fee above its proceeds commits a row no one can read |
| `fill_forms` | 1 browser, 2 intents, 1 exit order, 6 calls | the form implements `IntentLedger`, and always stops submitting |
| `panel` | 2 positions, 4 changes of the ledger, 4 calls, a page that leaves and comes back | a panel refreshed after the last change shows it; nothing of another event, or older, or of another position is shown; only orders that were seen are changed; it does not stay at "loading" |
| `file_store` | 2 publishers and a reader of one blob, each fault once | contract kept; never part of a blob; nothing unsynced once all publishers are back |
| `opportunities` | the job and a request, one record shared and one not, 2 versions, 2 failures | no gaps, evaluations never ahead, signals chained; unique where no run shares the record; versions agree and every opportunity is evaluated as long as nothing failed |
| `calibration` | 2 processes, 2 attempts, 2 snapshots that share their test, 1 upset | verdicts earned and attempts registered in order, always; unless calls overlap, the test is read once, one attempt is open at a time, closed ones stay closed, snapshots grow |
| `pipeline` | 1 run of either sport, 1 or 2 games, boards with one oddity each, 2 manifests per sport, 2 disturbances | the best event is taken and the right one not hidden; double headers kept apart; shared markets marked; known results reject and later ones do not; ENTER never; blocks before holds; one calibration per model; rows together; the summary adds up |
| `training` | 1 event of the day on 3 to 5 of earlier days, in either sport, 2 synchronisations, 3 runs | samples are from before the start and truly labelled; splits and folds share nothing; the calibrator never meets what its model was trained or tested on; duplicates are bounded and reported; ratings sum to a constant; features look back only |
| `maintenance` | 3 days, 2 runs, 2 maintenances, 1 kill | captures stay readable until they are deleted in time; printed lines are kept; a whole backup a day unless one was killed; backups unchanged |
| `models` | 1 deployed model, 1 new one, 1 calibrator, 2 edits, 1 damage | only allowed bytes are served, never a rejected candidate, never a calibrator of another model; half a training hides nothing; an evaluation runs what was trained |

A property may be a conjunction of named parts, each defined and commented in its module: the run then checks one question
(`LedgerInOrder`: is the order of the ledger the one the governance asks for?), and the parts say what it consists of. They are:

| Property | Parts |
|---|---|
| `RowsMoveForward` | `TerminalOrdersFrozen`, `VersionMovesWithRow` |
| `BooksAgree` | `TypeOK`, `StatusMatchesCapital`, `OrderLogReplays`, `PositionLogReplays` |
| `HistoryConsistent` | `HistoryTypeOK`, `NoGaps`, `EvaluationsNotAhead`, `SignalsChained` |
| `LedgerInOrder` | `LedgerTypeOK`, `RegisteredInOrder`, `OneOpenAttempt`, `ClosedForGood`, `SnapshotsGrow`, `EarnedAtOnce` |
| `MarketsApart` | `RightEventNotHidden`, `FarApartNeverShareAMarket`, `SharedMarketsMarked` |
| `DecisionsSound` | `KnownResultNeverOffered`, `LaterResultNotUsed`, `BlockedNeverHeld`, `NeverEnter` |
| `ProbabilitiesCoherent` | `EdgesCoherent`, `OneCalibrationPerModel`, `ConsensusAgrees` |
| `RunAccounted` | `PipelineTypeOK`, `RowsTogether`, `SummaryBalances` |
| `ResultsCounted` | `ReportBalances`, `OneResultPerSync`, `DuplicatesReported` |
| `NothingTestedIsSeen` | `SplitKeepsEventsWhole`, `PartsInOrder`, `FoldsBlind`, `CalibratorUnseen` |
| `InputsSound` | `TrainingTypeOK`, `RestPositive`, `FeaturesFromThePast`, `EloZeroSum` |
| `NothingLost` | `MaintenanceTypeOK`, `CapturesReadable`, `LinesKept` |
| `DayComplete` | `RetentionKept`, `BackupOfTheDay` |
| `KeptInTime` | `CapturesRetained`, `BackupsUnchanged` |
| `ServedFits` | `RegistryTypeOK`, `RejectedNeverServed`, `CalibratorFitsModel` |
| `CardCurrent` | `PanelTypeOK`, `CaughtUp`, `ShownSinceSwitch`, `FiguresInOrder` |
| `OrdersSeen` | `OrdersOfTheCard`, `OnlyShownOrdersChanged` |

Why the bounds are enough. Positions never interact: no operation reads or writes two of them,
so one is checked, and the proofs cover any number. Two orders cover an order and its successor (the F5 rule is
about pairs); the capital run has three because "buy, sell part, sell the rest" is the shortest
path through all statuses. Three fills give a partial one, a completing one and a replay. Quantities
up to 3 make "less than, equal to, more than what is left" all happen. In `fill_forms`, six calls are
two complete clicks, which is what a timed-out click and its edited retry need; ids are
distinct per intent, so two intents show interference. In `panel`, two positions make a card single, ambiguous and none in turn;
four calls are two refreshes that overtake each other, the list of orders and an update; leaving once and coming back
is what an answer of the wrong epoch needs. In the store, two publishers race, a reader watches,
and one fault of each kind may be combined with each of the others. In `opportunities` two runs share one record and one of them has another to itself, so
that both cases are in one instance; what needs more versions or runs is proved. In `calibration` an upset (`MaxUpsets`) is a killed process or a
call that begins while another one runs; two attempts and a snapshot that keeps the test of the other are what it takes to
try to read a test again. In `pipeline` games and boards differ from a plain one in one respect each, since the
rules look at one field each; two disturbances make a result and a delay, or a promotion and its withdrawal, meet. In `training` two events of one
moment, one event with two rows and one row of an older version are in the history, because splits, folds and counts differ there; 60 minutes a step is
the lead that a snapshot must have. In `maintenance` the retentions are a day or two, so that each is reached on the third day.
In `models` a model before and one after it, and a calibrator between them, are enough for every wrong pairing.
`CHECK_DEADLOCK FALSE` appears where ids, calls, days or versions of the instance run out and the system rests.

Fairness. `FormsSpec` and `PanelRefresh` assume that a call in flight ends for the browser, by its answer or by its timer: the timer of
`backendJsonFetch` is unconditional. Nothing is assumed of the user, of the other actors or of the server.
`FairSpec` of `OpportunityHistory` assumes that the scheduler starts the job again (it is an hourly
job) and that a run that is not killed goes on; failures stay possible and are not fair.

## 4. Proofs

Checked by TLAPS with no proof left out, for all values of the constants under the assumptions that the modules name, which TLC
evaluates on every run:

| Assumption | Module | Says |
|---|---|---|
| `InputAssumption`, `FiniteAssumption`, `NoneAssumption` | `Positions` | what the schemas admit of quantities, prices, fees and times; finitely many ids; `None` is no row |
| `FormAssumption`, `NoFormAssumption` | `FillForms` | a form creates the order of its own intent, exit forms create others; `None` is no form and no entry |
| `PanelAssumption` | `PanelRefresh` | finitely many positions; `None` is no position, no figures, no row |
| `StoreAssumption` | `LocalFilesystemStore` | the shard of a blob is a function of it, and no shard is called `sha256` or `tmp` |
| `HistoryAssumption` | `OpportunityHistory` | a run has a batch, not empty, of records |
| `LedgerAssumption` | `CalibrationLedger` | what the manifests of `calibration_governance.py` must satisfy to be accepted: parts disjoint, dates numbers |
| `TrainingAssumption` | `TrainingData` | finitely many events of the day and synchronisations; times, sizes of blocks and percentages are numbers, percentages up to 100; what one side is promised of a game (`Promise`) is between 0 and 1 for finitely many differences of rating |
| `PastAssumption` | `TrainingData` | the rows of earlier days have the shape in which the program writes them, refer to one another as it makes them do, and are of other events |
| `MissingAssumption` | `TrainingData` | `None` is no number, no result and no log of a pitcher |
| `VersionAssumption`, `NoneAssumption` | `ModelRegistry` | versions are numbers, finitely many; those of bases and of calibrators differ; `None` is no metadata and nothing served |
| `PipelineAssumption` | `SportPipeline` | what the program relies on in the answers of others: names are lists of tokens; times, prices, odds, probabilities and shifts of calibrators are numbers once parsed; `None` is none of these; an event lists its markets, which have tickers, and a ticker is of one event |
| `MaintenanceAssumption` | `DataMaintenance` | ages are at least `MIN_FILE_AGE_DAYS`, at least one backup is kept; `None` is no file, run or work |

**Positions** (`PositionsProofs`). `TypeCorrect`: `Spec => []TypeOK`, through `TypeInv`, which adds that an order's
position exists and that a fill's order does. The sums of `Totals` are cardinalities of
finite sets of unit entries, so that facts about finite sets replace induction over the table.
`SafetyInv` is `TypeInv` with `OneNonTerminalOrder`, `UnknownOrderBlocks`, `SellOrdersBacked` and `Booked`. `SellOrdersBacked`
is not inductive by itself: that a fill of
another order cannot take the contracts a live sale counts on needs F5 (there is no other live order), and that a
fill moves the position's contracts by what it moves the order's needs `Booked`, which ties
both to the table of fills. From `SafetyInv` follow `OneNonTerminalOrderAlways`,
`UnknownOrderBlocksAlways`, `SellOrdersBackedAlways` and `LedgerAlwaysAgrees`. `RowsAlwaysMoveForward` is about
steps: from `TypeInv`, each operation rewrites one order that is not over, and one position, with the next version
(`RowsRewritten`). `BooksAlwaysAgree` (`BooksInv`) is the accounts: each operation that rewrites a row appends to its log the very
change it made, so that the log replays to the row, and every rewriting of the money ends by setting the status that goes with it.

**Forms** (the second half of `PositionsProofs`). `FormsAreCallers` (`FormsSpec => Spec` of `Positions`) carries every theorem above to the system with
its forms, exit forms, timers and delayed requests. `LedgerAlwaysKept` (`FormsSpec => LedgerKept`) is the refinement of `IntentLedger`: an
intent is recorded when its fill is in the table, and told when its form has said so; initial states map to initial states and each step to a step of the ledger
or to none. `FormsInv` is what it needs: the calls of one user have different numbers, so that a request still waited for is the only one
with its number, carries the intent of the form and belongs to its phase (`Timely`, `CallsApart`); two open forms have different
intents (`Apart`); and what an answer on its way says of a fill was true of the table when it was given (`Answers`) and stays so, because no
operation rewrites a fill. `FormsTypeCorrect` is its first part.

**Panel** (`PanelRefreshProofs`). `CardAlwaysCurrent`, `OrdersAlwaysSeen` and the action property `CardGoesForward`, from `PanelInv`. Of
`CaughtUp` nothing is inductive: between the last change and the answer that shows it lie two reads of the service and a row that may have been dropped and made
again. `PanelInv` says of every call what it has read and which row it will meet: a call of the present epoch has a row, whose sequence number is not below the call's;
the one call with the row's own number brings back at least what the row shows (`Answers`), and, if nothing changed since it was
asked for, what there is.

**Store** (`LocalFilesystemStoreProofs`). `StoreTypeCorrect` and `NeverAPartialBlob`, from `StoreInv`: a
temporary file is whole when flushed and flushed when linked, and everything published was flushed. `StoreKeepsContract`, `Spec => KeepsContract`, is the refinement
of `BlobStore`. Its
extra invariant `PathInv` says that the directories of a published blob exist and that a publisher
past a directory finds it there, without which `exists` could answer "no" for a blob that is there. `SettledAlwaysSurvives` adds `Pending`: as long as no
publisher was stopped by an error or killed, an entry that would not survive a power loss has a publisher who has yet to sync its directory.

**Opportunities** (`OpportunityHistoryProofs`). `HistoryAlwaysConsistent`: types, `NoGaps`, `EvaluationsNotAhead` and `SignalsChained`, for any number of runs,
records and failures. None but the first is inductive alone. `HistoryInv` says that the versions of each table are `1 .. k` for some k (perhaps some of
them twice), and of each run what it knows: what it read is still there (rows are never removed), and from the check of the opportunity on, the
evaluation it read is no later than the opportunity it read. That last fact is the heart: the check compares with the latest
opportunity *after* the evaluation was read, and evaluations are not ahead then. `AlwaysUniqueUnlessShared` and `VersionsAlwaysAgree` come from `AloneInv`, which says
of a record that one run only can reach what the race takes away: what the run has read is the latest still, the versions of both tables count their
rows, and, unless something failed, the evaluations are behind by the one that the run is about to write.

**Governance** (`CalibrationLedgerProofs`). `LedgerTypeCorrect` and `VerdictsAlwaysEarned`, for any number of
processes and upsets. `EarnedInv` says of each call how far the ledger must already show its evaluation to have come: a call
about to write FINAL_VERDICT = ELEGIBLE has its preliminary verdict, its reading and an OK result behind it. It
does not depend on what other calls do, because the ledger only grows; that is why it holds in spite of the races that
break the reading-once promise. `TestAlwaysReadOnce` and `LedgerAlwaysInOrder` rest on `OrderInv`, which has two kinds of parts: what comes before what (`Before`) holds however
calls overlap; that nothing came in between since a call looked (`InTurn`), and that the last lines are those of
the evaluation in progress (`Trace`), hold as long as no two calls overlapped, which is how those properties are stated.

**Models** (the second half of `ModelProofs`; the behaviours of `ModelRegistry` are its `RegistrySpec`). `ServedAlwaysApproved` and `EvaluatedAlwaysTrained`, for any versions, edits and damages. `ApprovedInv`
adds to the statement that every entry of the registry, and of the copy a load took of it, was approved, and that what a load has
found so far was checked against that copy with the very bytes it keeps; breaking or editing the registry afterwards takes nothing from it
because `approved` only grows. `ServedAlwaysFits` (`FitInv`) follows the metadata from the file to what is served: a rejected candidate is dropped when its metadata
is read, and a calibrator is bound to the base its own metadata names. `NewestAlwaysServed` (`NewestInv`) says of a load that met no edit and no damage since it
began that no allowed and whole version it has gone past is newer than what it found, and all it has still to read are.

**Training data** (the first half of `ModelProofs`). For any earlier days, number of events, runs and synchronisations, any times, block sizes and fractions:
`TrainingTypesAlways`, `TennisAlwaysLearnsFromBefore`, `LabelsAlwaysTrue`, `ResultsAlwaysCounted`, `NothingTestedIsEverSeen` and `InputsAlwaysSound`, all from
`DayIsInvariant`, that `DayInv` and `ModelsInv` always hold. What the properties read are tables at rest, and none of them is inductive,
because a run holds a copy of the world between its fetch and its save, and a synchronisation a result between its look and its insert:

- `WorldInv` says of the events that a tennis match that has begun did so at its hour or later and is not moved any more, `SeenInv` and `ListedInv` that what a run holds or the history
  lists of a match is never later than the match is. With these a sample chosen before the listed start was computed before the true one, although the hour changed in between.
- `ResultsInv`: a result that names a winner, recorded or on its way, is of an event that is over and was won by that side. Hence labels are true whoever records first.
- `CountInv`: the results of an event and the synchronisations about to write one are together at most as many as there are synchronisations. `OneResultPerSync` alone is not inductive: the
  insert comes a step after the look.
- `RowsInv` and `RestPositive`: rows have their shape and refer to rows before them, rest days saved are of earlier days.
- `ModelsInv`: the parts the base model was made of are disjoint and the calibrator learned from the middle one, which stays so while the history grows.

The lemmas go from numbers to data sets. A finite set ordered by a relation that lines it up is named once each and in that order (`InOrderIs`), and there is one such order only (`OrderIsUnique`);
this replaces sorting in the models that are proved about (`InOrder` in `Values`). A function defined step by step exists and keeps what its steps keep
(`StepsAreDefined`, `StepsStay`, both from the least element of a set of naturals), which is how recursive functions such as the ratings are reasoned about. On these rest: the parts
of a split are in the order of the events and share none (`PartsAreInOrder`, `SplitIsWhole`); the folds end at an edge of the history, so that none is tested
on what it was shown (`FoldsAreBlind`), and the calibrator meets nothing of its base's (`CalibratorIsBlind`); one game moves rating points from one side to the other (`Balanced`), hence any list of games does;
a pitcher's log cut at the day of the game gives the form of the whole log (`OrderLines`); and the counts of a report add up part by part.

**Retention** (`DataMaintenanceProofs`). `NothingEverLost`, `DayAlwaysComplete` and `AlwaysKeptInTime` (a property of steps), from `MaintenanceInv`, for any
number of days, runs and maintenances, any ages, and any number of kills. It says what each stage may have in hand and how far its `.gz` is: at "copy" the twin is
not whole and the original is there, at "unlink" it is whole and holds the same lines, with a day of change not before
the day they were printed (`LinesOf`), so that neither the unlink nor a later purge takes a line before its time; and that the backup of a day, once
its maintenance is past that stage, is whole, unless something was killed.

**Sport pipelines** (`SportPipelineProofs`). For any batches, boards, manifests, limits, delays and disturbances, from five invariants that build on one another:

- `RunInv` says of each stage what exists by then: lists of equal length, rows of the kind the sport writes, and a summary that counts the records
  gone past and the sides of the one in hand. From it `RunAlwaysAccounted`: the summary balances only at the end, so that the invariant has to follow
  every way to leave a record (no market, no context, one side raising after the other was saved).
- `JudgedInv` adds of every evaluation what `DecisionsSound` asks of it, which stays true of it because its record and its cutoff stay and results recorded later
  come after the cutoff. From it
  `DecisionsAlwaysSound`; that nothing says ENTER follows from the order of `DecideInner` and from the net value, which the soft score asks for and which is unknown.
- `CalibratedInv`: once a record was predicted, its model is in the memo, and the version in hand is the memo's. From it `OneCalibrationAlways`,
  however calibrators are promoted and withdrawn between two records.
- `MatchedInv` says of every record what its choice was made from (`Told`): its market is one of an event that no other admissible one beats (`Chosen`), it has one if
  an event is right (`Found`), and its prices are numbers. The lemmas under it go up from the similarity of two names, which is between 0 and 1
  (`NameSimilarityBound`, `ScoreIs`), over the first of the best of a list (`FirstOfBestIs`: a set of naturals has a least member) to what `find_best_kalshi_event` (`FindBestIs`) and
  the structural pair of tennis (`StructureIs`) return; a time that does not fit halves the measure to below what is required. The marks of shared markets are set in a pass of their own over
  all records and survive everything later. From it `AlwaysOnTheBestMatch` and `MarketsAlwaysApart`. That a ticker is of one event is
  assumed because the exchange gives them so: without it an event at another time could offer the market of the right one.
- `EdgesInv`: the evaluations of the record in hand were made with the probability in hand, those of an earlier one with one probability. From it `EdgesAlwaysCoherent`.

`ConsensusAlwaysAgrees` is about the median of the bookmakers and needs no invariant. What a source finds fair of the two sides misses the whole by at most one unit
(`SharesAddUp`). In the order by YES and in the order by NO, the sources from one place on and those from the mirrored place on are together more than all, hence meet
(`OrdersMeet`, by counting), and a source in both parts bounds the two values at these places (`OrdersAddUp`): so the medians of both sides add up to the whole less
two units at most, for any odds. With the two before it, `AlwaysCoherent`.

Every invariant and every property of steps that the passing runs check is a theorem. Only model-checked is liveness (`SubmitEnds`, `PanelSettles`,
`EvaluatedUnlessFailed`), which is outside this prover.

## 5. What the model says about the code, beside the findings

- An administrative transition observed before its order was created is stored; the order cannot be
  read afterwards and stays as it is for good (`OrderReadable` guards every later operation).
- A free contract (price 0) makes an untouched position CAPITAL_RECOVERED; the next paid purchase takes it
  to RECOVERY_IN_PROGRESS.
- An order can be REJECTED after partial fills.
- `apply_fill` takes an order out of UNKNOWN without recomputing `blocked_by_unknown_order`, so a position can stay flagged as
  blocked with no UNKNOWN order left until the next administrative transition.
- The promises of `governance/calibration/README.md` about the test (read at most once), open attempts and closed ones are
  checks of a ledger read before the lock: two calls that overlap can both pass them, and both read the test or freeze a
  snapshot. `TestReadOnce`, `OneOpenAttempt`, `ClosedForGood`, `SnapshotsGrow` and `EarnedAtOnce` are therefore stated of
  histories without overlapping calls. What remains is the review of every entry before it reaches `main`.
- An evaluation killed after TEST_READ has used up its test: the next one ends in ERROR.
- One exception between the two saves of an opportunity leaves its evaluations one version behind for ever
  (`VersionsAgree` holds only while nothing failed), although CONTRACTS_FASE3.md section 13 says they are equal.
- Closing and opening a form again takes a new intent id, so a fill whose answer was lost can be registered
  twice by a user who closes the form; `LedgerKept` is per intent.

Store and opportunities:

- A publisher that finds the blob of another in place answers before anything of it is synced (`put` returns at "otro publicador"); a power loss
  then takes away a blob that was answered for, against `ARTIFACT_STORAGE_DECISION.md:71`. `SettledSurvives` speaks of stores where all publishers are back.
- Two runs on one record both pass the check and save the same `state_version` twice; `ORCHESTRATOR_SPEC.md:452` takes the sequence for guarded.
  An opportunity whose first evaluation failed is refused from its second version on, and is never evaluated again.

Extension:

- A `create_order` that is served after its timer leaves an order no intent knows of, and the position stays blocked until it is cancelled by hand.
- Once two positions match a ticker, the selected card keeps the object it was selected with (`content_script.js:219`): its figures stay as they were until
  the page changes, which is why `CaughtUp` speaks of the single card only. `refreshOrders` has no sequence number, so the older of two lists can stay; an update
  made from it is refused by its version. A callback of a form of an earlier event refreshes the row there is now. An answer about a plan that comes after a fill shows
  the plan of the old figures although `submitFill` had cleared it.

Pipelines and decisions:

- The rule `unconfirmed_pitcher` never fires: the normaliser writes `lineup_or_pitcher` and the rule looks for another name. In tennis there is never a lineup, so
  `pending_lineup` holds every match within three hours of its start.
- `market_normalizer` always reports `actual_settlement_time` missing, hence every manifest with `recoverable_missing_information` waits; the net value of a payoff is always
  unknown, hence no manifest can say ENTER (`NeverEnter`). `MARKET_UNAVAILABLE` (`POLICY_ENGINE_SPEC.md:30`) is never produced, `compute_consensus_no_vig` never called.
- `_select_market` is outside the try that the comment above it speaks of: one malformed market aborts the run. The warnings of
  `apply_kalshi_match` are overwritten by the validation that follows it; a price that is no number becomes None without being reported missing; start, status
  and participants of `CORE_FIELDS` are never reported missing. A clock set back makes the health of an analysis raise.
- An event that was listed without markets and agrees with a game hides one with markets that agrees as well and comes later: `find_best_kalshi_event` chooses
  by names and time only, and the record gets no market. `RightEventNotHidden` speaks of boards whose readable events all have markets.
- `compute_home_away` answers "HOME" or "AWAY" and `_vectorize_features` compares with lower case: the column is always missing.

Training and models:

- `split_dataset_temporally` orders events by when they entered the history, not by when they were played, as its docstring has it. Elo takes the start of the first snapshot
  of a game. The index of earlier tennis matches counts start times that were given up.
- `sync_results.py` takes the lock, the two scripts of one sport do not: results can be recorded twice. A POSTPONED result bars the final one for good, and a
  game decided outside the look-back of three days is never recorded. `FoldsBlind` is stated of histories with one result per event.
- `load_latest_mlb_artifact` makes no check against the registry and raises on half-written metadata. The metadata of the tennis base is not hashed in production, so that
  its `candidate_status` can be edited (`RejectedNeverServed` excludes metadata that was rewritten).

Maintenance:

- The active log is renamed under a run that prints to it (`DATA_RETENTION_POLICY.md:104` says only closed files are touched); what it prints after the copy is lost. `LinesKept` speaks
  of lines printed to the active log.
- A backup that was killed half way blocks the backup of its day and is never pruned; half a `.gz` counts among the thirty. A rotation killed before the compression leaves
  a log nobody purges.

## 6. Not modelled, and the plan

Left out for good: floating-point fits and metrics, parsing of third-party payloads, page scraping and rendering, the wording of evidence and explanations,
the anchor of the governance in Git, and Python's own text normalisation. Fixed-point figures follow the formulas of the code, not the last place of a float.

Not modelled yet, most important first:

1. Recovery plans: `compute_recovery_plan` against the least number of contracts that recovers the capital, and plans saved from
   a position that moved.
2. The advisory engine as operators, checked against the precedence its documents state.
3. The rate limiter under concurrent requests, and the retries of `base_client`.
4. The analysis service: the answer of a request against the rows another run wrote.
5. The baseball loader and the safe export format beside `ModelRegistry`.

Proofs to add: the state machine of recovery plans once it is modelled, and that a rating or a report read later differs from an earlier one only by
the rows recorded in between.
