# market_hist_script: formal models

TLA+ models of the historical-market-data pipelines in this repository, the TLC
configurations that check them on small instances, and TLAPS proofs of most of
their safety properties for every value of the constants. Paths below are
relative to the repository root (`src/` in `PROJECT.json`).

The repository holds three generations of the same job: take bars from Alpaca,
turn them into yearly Parquet shards, and register the shards as a *dataset
manifest* that a later back-test may rely on.

| generation | code | catalog | objects |
| --- | --- | --- | --- |
| official pipeline | `market_pipeline_lib/` | JSONL files, one atomic rewrite per call | local tree, later S3 |
| market loader | `idea2strategy-market-loader/src/market_loader/` | PostgreSQL transactions | S3, `IfNoneMatch: *` |
| file backfill | `market_data_backfill/` | JSON files per dataset and year | local tree, later S3 |

Around them stand the older collection scripts (`daily_pipeline.py`,
`data_collection/`, `data_filtering/`, `data_validation/`).

All of them make the same promise: what a manifest or a checkpoint names exists
and does not change; a retry after any failure continues the work; readers of a
dataset never go backwards. The models ask where that promise depends on the
order of writes, what a crash between two of them leaves behind, and which
sequences of legal commands lose what was served before.

## 1. Inventory

For each component: the state it keeps, its operations, whom it talks to, and
what makes it correct. What is not modelled is in section 8.

**Dataset publishing (official pipeline).** `MarketPipelineEngine.publish_dataset`
(`market_pipeline_lib/engine.py`) with `LocalCatalog` and `LocalObjectStore`. State: the
object tree and `storage-objects`, `dataset-objects`, `dataset-manifests`,
`quality-incidents`, `pipeline-run-outputs`, `dataset-object-lineage`, each a
JSONL file. It chooses a revision, writes a BUILDING manifest, stores one object
per group of rows, inherits the untouched objects of the previous manifest, stages
rows for all of them, records incidents, publishes AVAILABLE or QUARANTINED, and
retires the predecessor. Every command of the CLI publishes through it. Hard: some
ten separate file writes and no transaction. Correct when rows are backed by
bytes, a published manifest is immutable, the inventory is the hashed one, no two
objects cover the same day of a shard, and readers never regress.

**Backfill command.** `MarketPipelineEngine.backfill` and its staging directory, run record and
`--resume`. State: staging files by symbol, chunk and year, one pipeline run per
idempotency key, and the catalogs above. Hard: crash between staging files, a
chunk that straddles two years, failed fetches that quarantine some years only,
derived datasets published after the native one. Correct when no readable year
holds part of a symbol, and what the operator was told SUCCEEDED is served.

**Incremental, correction, derive, compact and migrate commands.** Calls into
`publish_dataset` over days, weeks, months and years of the same datasets. State:
the catalogs, the staging directories and the idempotency keys of the runs that
SUCCEEDED. Hard: which larger object a smaller partition replaces, the detection
of re-adjusted prices and the backfill it starts inside a daily run, keys that
leave out what a command read. Correct when a day once served stays served
through any sequence of commands, the bars of a symbol have one adjustment, and
derived data are those of the native dataset.

**Catalog files shared by processes, upload and apply-db.** Any two commands
read a whole table file, change a row and replace the file (`catalog.py`); `upload`
copies objects to S3 and tables to another catalog, `apply-db` the tables into
PostgreSQL (`operations.py`). Hard: lost updates, tables read at different
moments, deaths between two tables, a transaction built from several files.
Correct when a reader of an AVAILABLE manifest finds all of its rows, in the
catalog, in the copy and in the database.

**Market loader engine and tables.** `BackfillEngine.run` with the repositories,
publisher and registrar. State: `pipeline_runs`, `pipeline_partitions`,
`dataset_manifests`, `dataset_objects`, lineage, and the bucket. Hard: several
loaders at once, immutable keys, take-over of a BUILDING manifest, the sample
gate, resumption by partition. Correct when a published manifest is one load and
entirely stored, a SUCCEEDED run published all resolutions, lineage is true, and a
run that failed can be resumed. The last is false in general: a Parquet file carries the
time it was written (`parquet_writer.py:99`), so whoever takes over a BUILDING manifest of
which a shard is stored meets a file of another SHA-256 at that key (`s3.py:72-83`) and fails.
The properties say when a resumed run does end, and what such an orphaned manifest blocks.

**File backfill: manifest build.** `build_manifest_year`
(`market_data_backfill/pipeline.py`). State: part files, a state file per shard, the manifest
JSON, the resume fingerprint. Hard: a resumed attempt takes shards over from an
attempt that had other failures. Correct when listed parts are stored and from one
build, and AVAILABLE is complete.

**File backfill: upload and database plan.** `upload_objects`
(`market_data_backfill/remote.py`). State: the plan file, `upload-state.json`,
the bucket. Hard: plan and state file are rewritten separately. Correct when
what is called remote is remote and an interrupted upload can be finished.

**Daily collection.** `daily_pipeline.run_pipeline`, `pipeline_state`,
`collect_sip_long_term`, and the inactive-symbol cache it shares with
`collect_sip_1min`. State: three interval files per symbol and price type, a
checkpoint per symbol and price type, the state file, the ticker list, the cache.
Hard: a death between two of the three files, a re-adjustment during a run,
symbols that are delisted and listed again. Correct when a checkpoint means
complete files of one adjustment and every symbol catches up.

**Session bars.** The session filter, resampler, derived bars and quality checks
(`filter_regular_session.py`, `resample_sip_bars.py`, `processing.py`, `core.py`, the loader's
`resampler.py`). State: the collected, the filtered and the resampled file. Hard: bars missing at
the start of a session, early closes, corrections older than the last output.
Correct when the incremental chain ends as a whole run would, each bar is in one
longer bar, and a longer bar that lacks source bars is told from a whole one.

### Interactions

The commands of the official pipeline call `publish_dataset` in sequence within
one process, handing over staged rows; between calls, and between processes, they
share only the catalog directory and the object tree. Loaders share only
PostgreSQL and S3 (each has its own staging directory; two processes of one run on one disk
would share `local_staging.py`'s path for a shard), and never hold a transaction over an S3 call. The manifest
build hands the upload its plan through a file, and `update_symbol_data` hands
the filter and the resampler the earliest changed time. No component uses
callbacks or threads for state (the long-term collector's thread pool only
fetches), so concurrency is between processes; the common hard case is a death
between two writes followed by a repeated command.

The full list of hazards, each with the line where it bites and the properties
that answer it, is the `hazards` entry of `PROJECT.json`.

## 2. Plan

Everything planned is done:

1. `DatasetPublish`, the function everything of the official pipeline publishes
   through, and `SnapshotSeries`, its abstract specification: checked, its properties
   and the refinement proved.
2. `MarketLoader`, the component with real interleaving: checked, its safety
   properties proved.
3. `BackfillRun`, the command over several datasets, with `publish_dataset` as one
   step. 4. `ManifestBuild`. 5. `PlanUpload`. All three: checked, their safety
   properties proved.
6. `DatasetLifecycle`, the sequences of incremental, correction, backfill, compact,
   derive and migrate, with `publish_dataset` as one step: checked, its properties
   proved.
7. `CatalogTransfer`, processes that share one catalog, and the two commands that
   carry it elsewhere: checked, its safety properties proved.
8. `DailyCollection`. 9. `SessionBars`, with the pure algorithms. Both: checked,
   their safety properties proved.

What could follow: the page tokens and retries of the loader's Alpaca client, and
the two steps of `publish_dataset` that `DatasetLifecycle` takes as one opened up
where a correction dies half way.

Modules are written to be proved about: constants with named assumptions, one
action per operation, no RECURSIVE operator anywhere.

## 3. Modules

Operators whose comment begins with "Mutant:", or that stand without one directly before
the definition they vary, describe a plausible bug there; no specification uses
them. They show that each property depends on the code. Every module that keeps
state defines `TypeOK` (`UploadTypeOK` in `PlanUpload`), and each of them is a theorem.

### `DatasetPublish` (one contract and year)

| state | code |
| --- | --- |
| `store` | files under `local_root`; `ObjectKey` is revision and slot (partition, shard) |
| `storage`, `members`, `incidents`, `manifest` | the JSONL catalogs of the same names |
| `provenance` | run-output and object-lineage rows |
| `pc` and the locals | where the `publish_dataset` call in progress stands |

An *object* is its revision, slot and content: content stands for the bytes up to
SHA-256, and the object id, which the code derives from contract, key and hash, is
the record itself. Partitions are half-open day ranges. `BeginPublish` is the call
up to the BUILDING record; `PutObject` and `GroupFails` are `_write_new_objects` for
one group, `GroupFails` covering a quality ERROR, a disk error before or after the
file was moved into place, and a key that holds other bytes; `ComputeSnapshot` takes the retained
objects; `StageStorage`, `StageRelation`, `RecordProvenance` are one catalog write
each, in the code's order, per object; `RecordIncidents`, `PublishManifest` and
`SupersedePrevious` end the call. `Crash` may happen anywhere. The order of objects
inside one call is fixed (`FirstOf`), as the code sorts them. A catalog call is one
step because it rewrites one file with `os.replace`.

One process is assumed (`CatalogTransfer` has several). `Call` lets a caller replace any batch of partitions with
any rows for them, which covers every command. The dataset-level lineage row
(`engine.py:728-735`) is written last, read by no operation, and left out.

`SnapshotSeries` says what a dataset promises without mentioning how: a served
revision and its inventory; a step publishes a later revision whose
inventory is what the new one did not replace, plus new objects. It takes the
periods and what it means for two of them to overlap as parameters, because three
modules implement it: `DatasetPublish` (half-open day ranges), every dataset of
`DatasetLifecycle` (sets of sessions) and every resolution of `MarketLoader` (the
year, which each manifest replaces as a whole). It is the common promise of the two
pipelines, which share no code.

### `MarketLoader` (one year and adjustment, any number of processes)

`runs`, `partitions`, `manifests` are the tables (objects and lineage inside the
manifest), `s3` the bucket, the rest the locals of `BackfillEngine.run` per
process. Steps: `Begin` (sample gate and `create_run`), `Collect`,
`SkipResolution` / `StartResolution` (`successful_manifest_for_partitions`),
`CreateManifest` (a transaction of its own, taking a BUILDING manifest of the same
processing version over, perhaps after another loader published the resolution), `Upload` /
`UploadConflict` (`write_parquet` and immutable `put`, one shard: a key that holds any file
conflicts, for no two files are alike; only the repeated `put` of one file, inside the step,
is a reuse), `Finalize` / `FinalizeRejected` (one
transaction: retire, publish, objects, lineage, partitions; rejected by the row
counts or the unique index), `Complete`, `Report`, `RecordFailure`, and `Fails` /
`Dies`. A step is one transaction or one S3 call. Transactions that lock the rows
they read (`FOR UPDATE`, `ON CONFLICT`) are atomic. The bars of a shard's file are one of
`Pieces`; `Provides` names the data Alpaca may answer a run with.

### `BackfillRun` (one idempotency key and price type)

`staging` holds fragments (symbol, chunk, year); `manifests` and `store` are the
catalogs of each dataset (a year and a resolution, 0 is native); `told` is what the
operator was told: the symbols for which the command ended SUCCEEDED; `cut` is a history variable that only properties read. `Begin` and
`ReuseRun` are the run record, `SkipStaged`, `Fetch`, `FetchFails`,
`WriteFragment`, `EndCollect` are `collect_staging`; `Publish` is `publish_dataset`
as one step with the same key conflicts and outcome, in the code's order of
datasets; `DiesInPublish` is a death inside it, after some objects were
stored and with the manifest still BUILDING; `Finish` is the final status;
`CleanupStaging` the command of that name. `CoversOf` says
which years the bars of a chunk lie in, `MarkedBy` which years a failed chunk
raises an incident for.

### `DatasetLifecycle` (the datasets of one year and price type)

| state | code |
| --- | --- |
| `today`, `feed` | the sessions that have ended; the adjustment Alpaca answers a symbol with |
| `manifests` | by dataset and revision the status and the objects: a granularity, the days of its period, a shard, rows |
| `succeeded` | idempotency keys of the runs that SUCCEEDED |
| `staging` | staging files by run key |
| `pc`, `job`, `waiting` | the command in progress; `waiting` is the day's increment that a correction goes before |
| `told`, `slips` | history: what a SUCCEEDED increment was for, and which loss or missed adjustment happened |

`Incremental` is `incremental` up to its collection, with
`_detect_adjusted_revision` (`Detected`, over the last `Overlap` sessions) and the
correction it starts; `Backfill`, `Compact` (with all its early returns),
`Derive` and `Migrate` are the commands of those names; `Collect` is
`collect_staging` with its failed symbols and `--resume`; `Publish` is one
`publish_dataset` (`NextRevision`, `KeyTaken`, `Retained`, the rows an earlier
attempt left under the same revision, the status); `Refused` is the error of
`_next_revision` when a correction's revision is behind a derived dataset;
`Finish` is `finish_pipeline_run`. A process may die between two of these steps; a
death within a publish is `DatasetPublish`'s.

`Careful` limits the operator to commands that do not replace a longer object by
a shorter one; it is TRUE where the question is about failures and retries and FALSE where
it is about the commands themselves. `slips` records by name, in the step where
it happens, each way in which the code

* loses bars (`Losses`): rows leaked into a reused revision, a partial migration, a larger
  object swept away by a smaller one, an explicit revision built in place, stale staging files;
* misses a re-adjustment: a failed detection request, a re-adjustment during a command, a
  gap longer than the overlap;
* leaves the datasets different (`Splinters`): a correction refused by `_next_revision` halfway,
  a process that dies after the native publish, a command that has one dataset published and another
  quarantined, or that cuts a longer object which only some of the datasets have.

The properties hold outside them; `lifecycle_swept` shows one of them. The last group
matters because the detection compares native bars only: an adjustment that is old in a derived
dataset alone is never found.

### `CatalogTransfer` (processes beside each other)

| state | code |
| --- | --- |
| `manifests`, `storage`, `relations`, `rights` | `dataset-manifests.jsonl`, `storage-objects.jsonl`, `dataset-objects.jsonl`, `providers.jsonl` |
| `local`, `bucket` | `LocalObjectStore`, `S3ObjectStore` |
| `copy`, `db` | the destination catalog of `upload`, PostgreSQL |
| `pub`, `upl`, `app` | where each publishing command, the upload and `apply-db` stand |
| `clobbered`, `retried`, `copied` | history: a lost update, a taken-over manifest, an upload nothing overtook |

A publishing command works for one dataset: `Begin` (the engine's constructor resets the
provider's rights), `Build`, and for every row `ReadTable` and `WriteTable`:
`LocalCatalog.upsert` reads the whole file and replaces it, and another process
may write between the two. `BeginUpload`, `Put`, `CopyManifests`, `CopyStorage`,
`CopyRelations`, `UploadDies` are `upload_catalog_objects`; `BeginApply`,
`ReadStorage`, `ReadRelations`, `Check`, `Commit`, `Abort` are
`apply_catalog_to_postgres`, which reads the tables one by one and writes them in
one transaction with the constraints of the schema (`Constrained`); `Approve` is
the rights review the README asks for. `ValidationErrors` is `validate_catalog`.

`beside` bounds a behaviour to an upload or an `apply-db` beside the publishing
commands: neither reads what the other writes, so no interaction is lost. The
model ends where a lost update is written (`clobbered`), after which nothing is
promised. Runs, feeds, lineage and incidents are tables of the same kind;
`export_db_plan` writes a report only; no command constructs `PostgresCatalog`.

### `ManifestBuild` (one dataset and year)

`files` and `states` are the part files and shard state files, `manifest` the
manifest JSON, `mapped` the instrument map (an operator may complete it between
attempts), the rest the loop over shards. `Begin` with or without `--resume`,
`TakeOver` (state file present, its parts present, fingerprint equal), `ReadShard` (sources
that fail to read, that carry quality ERRORs or that have no mapping become
failures), `WritePart`, `WriteState`, `Finish`, `Dies`. A part's content is the set
of sources it was cut from.

### `PlanUpload`

`plan` is the set of objects whose plan entry is a remote key already, `bucket` what is stored,
`stated` the objects of `upload-state.json`, `completed` the in-memory copy,
`torn` a state file that cannot be parsed, `owed` an upload asked for and not yet
ended well, and `restarted`, a history variable that only properties read, an upload of a
finished plan begun without `--resume`. `Replan` stands for a new plan file (a new build),
`BeginUpload`, `SkipCompleted`, `Upload`, `WriteUploadState`, `FinishUpload`, `Fails` and
`DiesWriting` are the command; no name is one of `ManifestBuild`, the other command of the
same program, so that one module can be about both. Without a prefix the remote key equals the local one, which is why `HasPrefix` matters.

### `DailyCollection` (the daily run and the one-minute collector)

| state | code |
| --- | --- |
| `traded`, `active`, `version` | what Alpaca answers: sessions with bars, asset status, adjustment |
| `files`, `minute` | the three interval files by symbol and price type; the one-minute file |
| `cache` | `inactive_symbols.json` |
| `checkpoints`, `lastRun`, `tickers` | the pipeline state file, the ticker file |
| `pc` and the locals | `run_pipeline` and the update in progress |
| `dormant`, `raced` | history: sessions a symbol was inactive in, symbols re-adjusted inside a fetch |

`Begin` is `run_pipeline` with `load_pipeline_symbols`; per symbol `SkipComplete`
(`_checkpoint_complete`), `Look` (`should_skip_inactive_symbol` with the cache),
`Fetch` (`_incremental_fetch_start`, the comparison of the overlap), `Refetch` (the whole
window after a re-adjustment), `Save` (one interval file per step), `Mark`
(`mark_stage`); `EndRound` the attempts and the two price types, `Finish` the
validation and `finish_run`; `CollectMinutes` one symbol of `collect_sip_1min`;
`Dies` anywhere. A request may be answered in chunks with a re-adjustment between
them (`Replies`). `NextDay` happens between runs only, because a run reads the
sessions up to its target and no others.

### `SessionBars` (one symbol)

`market` is what Alpaca answers, `source`, `filtered`, `resampled` the three files, `changed`
the earliest change handed on. `Collect` is `update_symbol_data` of
`collect_sip_1min` for adjusted bars, `Filter` and `Resample` are
`process_file_incrementally` and `process_resample_file_incrementally`; these
incremental functions are library functions that today only the tests call.
`NextSession` gives the session's bars in any pattern; `Correct` and `Readjust` change the past.
`Derived`, `Resampled` and `FromFirst` are the three ways of the repository to
put bars together (`derive_regular_bars`, `resample_bars` and the resampler,
`aggregate_regular_30m`); `Warned`, `Rejected` and `ExpectedFromFirst` the checks of the two
`quality_issues`.

## 4. Runs

### What holds

| run | instance | shows |
| --- | --- | --- |
| `publish_faults` | 1 shard, periods day 1, day 2 and both, 2 contents, 3 revisions, 1 failure and the key conflicts that follow | rows, inventory and bytes agree (`Backed`), the manifest chain is readable, readable manifests are frozen, readers never regress, only replaced partitions are dropped |
| `publish_clean` | no failures, 2 shards, all batches, 3 revisions | the inventory is the hashed snapshot, one granularity per time, one AVAILABLE, refinement of `SnapshotSeries`; after a failed call the first three do not hold (`publish_leak`, `publish_overlap`, `publish_two_available`) |
| `loader_shared` | 2 processes, 3 runs of one feed and year (2 with the same data; one of them of the processing version before an upgrade), 2 shards, 2 resolutions, 4 revisions, 1 failure or death | everything published is stored, no mixture is published and a SUCCEEDED run has published all resolutions, lineage is true, readers never regress, a run that failed or died and is resumed ends SUCCEEDED unless the manifest it would take over is orphaned |
| `backfill_repeated` | 2 symbols in 2 shards, 2 years, a chunk that straddles them, 1 failed chunk, 2 crashes, with and without `--resume` | what the operator was told is served, no partial symbol, derived years come from readable native ones, the repeated command ends SUCCEEDED |
| `manifest_attempts` | 3 sources in 2 shards of 3 parts, 2 unreadable inputs, 2 crashes, a mapping completed in between | listed parts are stored and from one build, AVAILABLE lacks only sources that failed before, the build ends AVAILABLE |
| `upload_repeated` | 4 objects, 3 failures, a torn state file, with and without `--resume` | what is called remote is in the bucket, the repeated upload ends well |
| `lifecycle_routine` | 3 sessions in 2 weeks, 2 symbols in 2 shards, native and one derived dataset, increments, backfills, compactions and a migration, 1 failure, 1 death | what readers once had, and what a SUCCEEDED increment was for, stays served |
| `lifecycle_adjusted` | 3 sessions, 1 symbol re-adjusted at any moment, increments in any order with the corrections they start, compaction, derivation, 1 failed request | served bars have one adjustment in every dataset, derived bars are the native ones |
| `daily_faults` | 4 sessions, all of them in the window, a symbol re-adjusted, delisted and listed again, 2 price types, 2 interval files, 2 attempts, 1 failure or death, the one-minute collector beside | a checkpoint means complete files of one adjustment, an inactive symbol is not skipped for longer than its cache entry lives, the runs catch up |
| `catalog_shared` | 2 publishing commands of 2 datasets, an upload or `apply-db` beside them, 2 uploads, 1 fault | readers of the catalog, the copy and the database find all rows of what is AVAILABLE, an ended catalog validates, repeated `apply-db` catches up |
| `session_bars` | 3 sessions with extended hours and an early close, bars present in any pattern, 1 correction, late bar or re-adjustment, widths daily, 2 and 3 | the incremental chain is a whole run, the pipelines put the same bars together, each once, and tell bars that lack source bars |

### Exceptions

Some properties are stated with an exception, because the code does not keep
them without. The exceptions are history variables or operators that say exactly
when.

* `cut` in `BackfillRun` records that `--resume` skipped a chunk of which a crash
  had kept a file from being written. `ToldIsServed` and `NoPartialSymbol` hold
  otherwise.
* `Obstructed(d)` in `BackfillRun` says that an incomplete attempt stored an object
  under the key that a complete one needs. Retries succeed, and derived years have
  their source, otherwise.
* `restarted` and `torn` in `PlanUpload`: an upload of a finished plan begun
  without `--resume`, and a state file cut off by a crash.
* `OnlyFailedAreMissing` in `ManifestBuild` allows a source to be missing that could
  not be read in an earlier attempt.
* `slips` in `DatasetLifecycle` names the ways in which bars are lost, a
  re-adjustment is missed or the datasets of one command come apart (section 3).
  `OneAdjustment` and `DerivedIsNative` allow the last because of a sequence of two shards: a correction
  fails for one symbol and leaves the YEAR object of the other at its revision in the native dataset; a
  `derive` before the retry meets the key that the failed attempt occupies in the derived one; the
  retry then publishes the native year and is quarantined in the derived dataset.
  `lifecycle_uneven.cfg` (2 symbols in 2 shards, 2 sessions, increments and derivation, 1 failed request,
  1 death) is such an instance and passes with the exception.
* `clobbered` (a lost update) in `CatalogTransfer`; `retried`, for `ValidWhenEnded`
  only: the inventory of a manifest taken over from a dead attempt; `copied`: an
  upload that no publishing command overtook. `ApplyCatchesUp` asks for a catalog
  that has `Settled`: no two manifests with one hash, and none whose hash another
  still has in the database (`Swaps`), which the unique index rejects.
* `raced` in `DailyCollection`: Alpaca re-adjusted a symbol between two chunks of one
  fetch. `dormant` is not an exception but the sessions a skipped symbol may lack.
* `MissingIsWarned` in `SessionBars`: `quality_issues` of the official pipeline counts
  the bars expected of a session's last bin from the first bar present, and misses the ones
  before it.

### What the code does not keep

Each of these configurations checks one property that a document, docstring, message or
test of the repository states, and ends in a counterexample. `lifecycle_swept` is
a run of `PROJECT.json`, whose `findings` quote the line; the others are kept
beside it and are run the same way
(`tlc -config publish_leak.cfg MC_DatasetPublish.tla`; the prefix of a
configuration tells the module, its `MC_` variant where there is one).

| configuration | counterexample |
| --- | --- |
| `lifecycle_swept` | the correction that an increment starts publishes the retained year as one object, which the increment's own day then replaces as a whole (`engine.py:1956`) |
| `publish_leak` | the retry of a QUARANTINED or crashed publish reuses its revision and manifest id, and so serves the rows the first attempt staged (`engine.py:598`) |
| `publish_two_available` | a crash between publishing and retiring leaves two AVAILABLE manifests for good (`engine.py:720`) |
| `loader_lineage` | a resumed run keeps its 30m manifest and derives the rest from other bars (`pipeline/backfill.py:157`) |
| `backfill_sample` | a SUCCEEDED sample answers for the full run (`engine.py:1440`) |
| `manifest_forgets` | a resumed build forgets the unreadable sources of the shards it takes over (`pipeline.py:569`) |
| `publish_overlap` | the rows of `publish_leak` can be a DAY under the new partition of the same days (`engine.py:680`) |
| `publish_same_revision` | `--revision` equal to the latest one rebuilds the AVAILABLE manifest in place (`engine.py:369`) |
| `loader_resumed` | a run that dies after its first upload meets its own files, under another SHA-256, on every resume (`pipeline/parquet_writer.py:99`; `RUNBOOK.md:35-37` calls it resumable) |
| `loader_upgraded` | a BUILDING manifest of another version hides the AVAILABLE one, so that a loader that stored all shards is refused by the unique index (`repositories.py:367`) |
| `backfill_skipped` | `--resume` takes a chunk for done after the first of its two years (`engine.py:881`) |
| `backfill_stuck` | a failed chunk's shard occupies the retry's key for ever (`storage.py:72`) |
| `backfill_orphan` | an AVAILABLE derived year names a QUARANTINED source (`engine.py:1512`) |
| `manifest_remapped` | a resumed build takes over shards made with another instrument map (`pipeline.py:85`) |
| `upload_restart` | an upload started over after a complete one, and interrupted, finds its files no more (`remote.py:49`) |
| `upload_torn` | a state file cut off by a crash stops every later upload (`remote.py:127`) |

Five more configurations pass and are kept beside the runs: `daily_window`, a variant of
`daily_faults` with no cache and a window of three sessions, so that files are trimmed as it moves on, in
which a run that reports success also has updated every symbol (`SuccessIsComplete`; with the cache, a symbol
must be skipped, listed again and missed within one window, which takes the four sessions of `daily_faults`); `loader_series`,
`publish_series` and `lifecycle_series`, in which every step of the module is one of
`SnapshotSeries` or a stutter (the first two with failures, the last with re-adjustments and
the corrections they start), and in the first of which, with runs of one version, an orphaned manifest
stays one and blocks its resolution (`OrphanStays`, `OrphanBlocks`) while a loader that stored all
shards is never refused (`UploadedIsFinalizable`); and `backfill_causes`, in which a backfill ends FAILED
for one of the named causes only. What the last four check is proved in general (section 6).

### Bounds

* Revisions (`MaxRevision` 2 to 5): the longest interaction between revisions in
  the code is of three: the one read as previous, a failed one, and its retry; the
  lifecycle instances add one per command that can still follow. `BackfillRun`
  guards `Begin` by `HasRoom`, so that the bound stops a behaviour
  between commands and never inside one, and liveness is not decided by it.
* Failures (1 to 3): one to leave something behind, one to disturb the retry, one
  more where the repetition itself is the question. In `publish_faults` one failure
  is enough, because the conflicts it causes at later keys are not counted and fail
  the retry too. Liveness relies on failures being finite; that is the
  assumption under which the code can terminate at all.
* Two symbols, years and shards are the least that make part of a dataset fail,
  two shards let two loaders be at different ones of one manifest, three periods (a day, the next day, both) are the least
  with touching and overlapping partitions.
* Three sessions in two weeks of one month are the least in which a week can be
  compacted beside a day, a gap is longer than the overlap of two sessions, and a year
  is swept by a day. Four sessions of daily collection let a symbol be delisted,
  skipped, listed again and found once its cache entry has aged; it is updated or
  skipped on its own, so that one symbol is enough.
* Two datasets and two calls are the least that write one table over each other; a
  third call would only repeat one of them.
* Nothing uses symmetry: the sets are small and liveness is checked beside safety.

`CHECK_DEADLOCK FALSE` stands where the system really may stop: no command need be
given again, the last session of the instance has ended, or a bound is reached.

## 5. Fairness

* `MarketLoader`: `WF(Step(p))` for every process, and `SF` of beginning each run
  of `ResumedRuns`, which states that an operator repeats the command for as long
  as the run is not SUCCEEDED, whatever another loader does meanwhile. Runs outside `ResumedRuns` carry no
  such assumption.
* `BackfillRun`: `WF(Step)`, a sequential Python process that goes on unless it dies,
  and `WF(Command)`: a repeated command. `ManifestBuild`:
  the same, and `SF` of completing the instrument map between two commands: a build
  that lacks a mapping is QUARANTINED until the operator adds it.
* `PlanUpload`: `WF(UploadStep)` and `WF(owed /\ UploadCommand)`: an operator who owes an
  upload tries again.
* `DailyCollection`: `WF(Step \/ Begin)`: a run goes on, and the scheduler begins the
  next one. The process is always in a run or between two of them, so that one
  weak fairness says both.
* `CatalogTransfer`: `WF` of beginning `apply-db`, of its steps, and of the rights
  review. A publishing command or an upload need never go on: `ApplyCatchesUp` asks for
  a catalog that settles.
* `DatasetPublish` has `FairSpec` with `WF(Step)` for `publish_same_revision` only.
  `DatasetLifecycle` and `SessionBars` state no fairness; their properties are safety.

No fairness is put on failures, crashes, or on Alpaca answering differently.

## 6. Proofs

Every theorem holds for all values of the constants that satisfy the named
assumptions of its module (`ASSUME ...Assumption`: bounds are naturals, sets are
subsets of what they range over). What more a theorem assumes is said here.

**`DatasetPublishProofs`.** `TypeCorrect`; `AlwaysBacked`: storage rows have bytes,
inventory rows have storage rows, a key never names two contents, a readable manifest's
hashed objects are in its inventory. `Frozen`, `NeverRegresses`, `ReadableChain`:
a readable manifest and its inventory never change, readers never lose the dataset
or go back, and a readable manifest supersedes only an older readable one. The last three
assume `ExplicitRevisions = {}`, that is, `PipelineConfig.revision` is `None` (its
default); `publish_same_revision` shows the assumption is needed.

`Backed` is not inductive: the step that stages a row needs to know that the object
in hand is stored, and the step that publishes needs to know that everything of the
snapshot is already in the inventory. `BackedInv` adds `CallIsBacked`, which says for
each point of the call what of `fresh`, `snapshot`, `unstaged` and `current` is
stored, has a storage row, or is related. `ReadableIsFrozen` rests on where a call
may write. `SeriesInv` adds `ServedIsNewest` (the newest AVAILABLE revision is above
every readable one) and `CallIsAhead` (the revision under construction is above all
readable ones until it is published, and what was read as previous is still as it was read).
With no explicit revisions `_next_revision` returns the latest AVAILABLE plus one,
which is then above everything readable (`NextIsAhead`), so no write of the call
touches a readable manifest except to retire it (`WorkingKeepsReadable`). The three
theorems follow from one step lemma, `SeriesStep`.

The rest of the module is about what a snapshot holds. `KeepsTheRest` (`NothingElseDropped`) has no further
hypothesis: its invariant `RetainInv` adds to `BackedInv` that the snapshot of the
call holds what the previous manifest keeps. `AlwaysHashed`, `AlwaysOneAvailable`
and `AlwaysOneGranularity` assume `NothingFails` (no failure, no explicit revision), without
which `publish_leak`, `publish_two_available` and `publish_overlap` refute them;
`AlwaysOneGranularity` also that no call is given overlapping periods (`BatchesAreApart`). Their
invariant `CleanInv` says that only the call's own manifest is unpublished
(`OnlyCallUnpublished`), that its groups and objects have slots of their own within
the replaced periods (`CallIsSeparate`), that the snapshot is what is retained and
what is new (`CallIsSnapshot`), and that one manifest is served (`OneServed`).

The refinement of `SnapshotSeries` needs much less. `AlwaysSeries` says of every
behaviour, with failures, crashes and retries but no explicit revision, that each step
into a state in which `InventoryIsHashed` is a step of the abstract specification or a
stutter; `ImplementsSeriesUnlessLeaked` that a behaviour in which it always does is a
`SnapshotSeries`. A leaked row is thus the only way in which failures break the
promise. `PublishManifest` maps to the abstract step and every other action to a
stutter; the retirement of the predecessor changes nothing readers see, even when a crash has left several
manifests AVAILABLE, because they are given the newest. `WholeInv` adds `CallIsWhole` to what is known from
`BackedInv`, `RetainInv` and `SeriesInv`: while a call goes on, its new objects lie in the replaced periods under
its own revision, and its snapshot is what it retained and those. `ImplementsSnapshotSeries`, for
`NothingFails`, follows from it and `AlwaysHashed`.

**`MarketLoaderProofs`.** `LoaderTypeCorrect`, `AlwaysStored`, `AlwaysOneLoad`,
`LoaderNeverRegresses`, for any number of loaders, runs, shards and failures. `LoaderInv` says of
the tables that a key names one file (`KeysAreUnique`), that a manifest supersedes an earlier
one (`LaterSupersedes`), that what is published is whole, what a run
completed is its own, and a SUCCEEDED run completed everything; and of every loader
(`LoaderIsSound`) that the shards behind it are stored. The point is the last:
between two uploads any other loader may take the manifest over, and the shards stay
what they are because `put` never overwrites. `AlwaysMatchesSource` adds the
hypothesis `AnswersAgree`, Alpaca answers the runs of a dataset with the same bars;
`loader_lineage` shows that it is needed. Its invariant `LineageInv` follows the files from the
upload of either kind to the manifests that name them. `LoaderImplementsSeries`, for every resolution and
with no further hypothesis: what readers are given of it is a `SnapshotSeries`, whatever the loaders overlap. It
adds to `LoaderInv` that one manifest at most is AVAILABLE (`OneServed`), which is the unique index
of the schema that `Finalize` is guarded by; that the revision it publishes is above the one served comes from
the manifest it retires.

Three theorems say what becomes of a manifest that a loader left behind. `AlwaysStaysOrphaned`, with
no hypothesis: once a shard of a BUILDING manifest is stored and no loader is past it, the manifest is BUILDING for
good, whoever takes it over. Its invariant `FirstInv` is about the first shard: it is stored before the
others and before the manifest is published (`StoredHasFirst`), and since its key takes one file, only the loader
that stored it goes on (`OneGoesOn`), with a manifest that is BUILDING as long as it does (`AtBuilding`).
`AlwaysBlocked` and `AlwaysFinalizable` assume `SameVersion`, that all runs are of one `processing_version`:
then readers get no other manifest of the orphan's resolution, and a loader that stored every shard is never refused
by `finalize_manifest`. `OrderInv` adds that a BUILDING manifest is the last one and supersedes the
AVAILABLE one (`Orderly`) and that a loader knows which one its own supersedes (`KnowsPrevious`).
In `loader_upgraded`, where versions differ, both conclusions fail: the orphan is passed over, and it hides
the manifest that must be retired.

**`BackfillRunProofs`.** `NeverPartial` and `ToldAlwaysServed` assume `OneRequest`: every
run of the key asks for the same symbols; with two requests `backfill_sample` refutes
`ToldIsServed`. `WholeInv` says that while no cut chunk was skipped every chunk that
is neither to do nor pending nor failed is entirely staged (`Covered`), a readable
year holds all that was asked for, and after SUCCEEDED every dataset has a latest revision.
`DerivedAlwaysSourced` has no further hypothesis. Its invariant follows a dataset's
key conflict through the retries: until SUCCEEDED, staging only grows and every
stored object is part of what is staged (`StoreIsStaged`), so that an object
that lacks a row at the next revision's key stands there for good
(`Blocked`, `BlockedStays`), and when a derived dataset's turn comes its native one is
published from the same files, or it is blocked, or the derived one fails too
(`NativeIsDone`). `RunTypeCorrect` and `AlwaysFailsForCause` have no hypothesis either. The latter says
why a call may end FAILED: one of its own chunks failed, a cut one was skipped, a year has
no bars of its symbols, or a key it needs is taken (`Obstructed`). `CauseInv` says that the files a call
publishes hold all that it was asked for (`CallCovers`), and that a dataset it has flawed has such a
cause (`FlawHasCause`). With the run's termination, which TLC checks, this is why repeating
the command succeeds.

**`FileBackfillProofs`.** `ManifestAlwaysTyped`, `AlwaysListed`, `AlwaysOneBuild`; and `OnlyFailuresMissing`
(this one and the first for finitely many sources, which a build has). `StoredInv` says that a call
writes no file that a state file or the manifest lists (`WritesUnlisted`); `BuildInv`
adds that the parts of a shard were made of the same sources; `CompleteInv` that, before
any read failed, state files and the call's objects have every source mapped from the start.

The module extends `PlanUpload` as well, the upload that takes the build's plan. `UploadAlwaysTyped`
and `AlwaysUploaded` follow from `UploadInv`: what the call takes for completed is in the bucket, and
every object before the next one is completed. The two halves of why a resumed upload ends well are
theorems, the fairness that joins them is not: `AlwaysFoundWhenResumed`, an upload is not refused unless the
state file was torn or a finished plan was started over, from `RemoteIsStated` (a plan that names remote keys
was written when the state file listed all of its objects, and every resumed call keeps that list); and
`UploadGoesOn`, every step of a call leaves fewer of them to come.

**`CatalogTransferProofs`.** `AlwaysTyped`, `AlwaysCatalogIsComplete`, `AlwaysCopyIsComplete`,
`AlwaysAppliedIsComplete`, `AlwaysValidWhenEnded`, `AlwaysAbortsForCause`, for any number of datasets and
commands, whatever other processes write the tables beside them, until an update is lost. A
manifest that is complete now says nothing of the rows a command has still to write or of
what an upload has read already, so `TransferInv` speaks of all of them: a manifest row that a
command has to write comes after the rows of what it lists (`Covered`), the destination of an
upload has what the tables have up to the point it is at (`UploadFollows`), and the manifests
`apply-db` read are covered by the tables it read after them (`ApplyFollows`). `Whole` asks of
every manifest what readers need of a readable one, for a retired manifest keeps its list.
`ValidInv` adds, while no attempt takes over the manifest of a failed one, that a
manifest is related to what it lists and nothing else, or is the one a command is
building, with what it has left to write in a known order (`Remaining`).

`AlwaysAbortsForCause` is about why PostgreSQL rolls `apply-db` back: no foreign key fails in a
transaction over the tables as they are, so that what is left are two equal hashes, a hash another
row still has, or a table that changed between two reads. `Keyed` says that every relation has its manifest and its
storage row, because a command writes the BUILDING manifest and then the storage row before it
(`LinksFirst`, `StorageRowFirst`), and that the database knows no manifest the files do not
(`DatabaseFollows`). With the instance of `catalog_shared`, `AbortsForCause` was found to hold by TLC first.

**`DailyCollectionProofs`.** `AlwaysTyped`, `AlwaysCheckpointIsComplete`, `AlwaysOneAdjustment`,
`AlwaysSkippedForCacheDays`, `AlwaysSuccessIsComplete`, for any number of symbols, intervals, sessions and
failures. `CheckpointIsComplete` speaks of the last session only; an older
checkpoint becomes wrong the moment it is taken for a newer one, and a death between two
files leaves them at different days and adjustments. `DailyInv` says that a file never has a
hole before its last bar (`FileSound`), what a checkpoint of any age stands for
(`Justified`), and, while files are being saved, that those before the interval at hand and
what was fetched for the others together make up the window with one adjustment (`Saving`).

`AlwaysSuccessIsComplete` relates the report of a run to its checkpoints: after `success` every symbol of the ticker
list is updated for the session in both price types, over retries, symbols skipped for an earlier
checkpoint and runs that died. `RunInv` says that a symbol that is neither to be tried nor to be tried again
has a checkpoint of the session in the price type at hand, and, while the raw prices are
collected, that one the adjusted round did not give up has the adjusted one.

**`DatasetLifecycleProofs`.** `AlwaysTyped` has no hypothesis. It needs to know that the
command in progress fits the catalogs (`JobFits`): there is a revision left for every dataset
it has still to publish, a correction names its revision, and the parts of a publish lie in the
replaced periods and overlap only within one period. Rows are of sessions that have ended
(`AllPlaced`); that `Migrate` asks this of the legacy files came out of the attempt to prove it.
`AlwaysStays` and `AlwaysTold` assume `Trusted`, which `lifecycle_routine` satisfies: commands
are for all instruments, `Careful`, and no `derive` on its own, which rebuilds the derived
year from a native manifest that may lack what the derived ones were published with when the native
one was quarantined. The properties look at one step and at what is served; their invariants at what a
command has collected but not yet published. `ServedInv` says that objects that overlap are of
one period (`Apart`), so that what is replaced is replaced as a whole; that what is served is in the
range of a backfill or a migration (`InScope`); and that the parts of a publish hold what the
command was for, or all that a compaction takes out (`PartsHold`). `ToldInv` adds that the sessions of a
key that SUCCEEDED were told, and that an increment without a failure has its days served in the
datasets it has published. All of it holds for as long as nothing is lost (`NoLoss`).

`AlwaysDerived` and `AlwaysOneAdjustment` have no hypothesis: any requests, ranges, failed files,
`derive` at any moment. `DerivedIsNative` is not inductive because a command publishes one dataset
after the other, and it says nothing while one is in progress. `SameInv` does: a command has parts
with the same rows for every dataset (`PartRows`), what it does not replace (`Beside`) is the same in all of them,
and from its native publish on, each dataset that it has still to publish (`Awaits`) will serve what the
native one serves already; `compact` and `derive` put the rows that are served into other objects and
change none, which for `compact` needs that objects overlap only within one period. The proof showed what the
exceptions have to be: a publish that changes one dataset and not another (`Uneven`) and a death after
the native one (`halfway`). `AdjustedInv` builds on it. The detection sees the native bars of ten
sessions; if it finds no difference, and no symbol is served outside them only, all that is served of a
symbol is of the adjustment that Alpaca answers with (`SeenIsFresh`), in the derived datasets too because
they are the same. A correction leaves every dataset like this (`AdjustedFinish`), so an increment
only ever adds bars to ones of their own adjustment.

`AlwaysSeries` says that each publish of a dataset moves its readers to the next snapshot of a
`SnapshotSeries` and every other step of any command leaves them where they are, in each step
that ends without a reused revision (`NoReuse`: neither `leaked` nor `inplace` has happened);
`LifecycleImplementsSeries` that a behaviour in which none is reused implements the abstract
specification in every dataset. Readers are given the latest AVAILABLE manifest; the point is
that the parts of a publish lie in the replaced periods (`JobFits`), that what the abstract
specification keeps is what the command retains (`KeptAreRetained`), and that a publish without an object is
quarantined, so that readers never lose a dataset to an empty snapshot.

**`SessionBarsProofs`.** For every calendar, width and pattern of missing bars. `AlwaysExact` rests
on lemmas about bins: a slot lies in one bin of its session, and the bins of the two
pipelines differ in their names only. `AlwaysFull` is about the incremental files: between
two of their runs the outputs are those of the collected file (`OutputsAreFull`); after the
collection the filtered file is right for what is earlier than the first change
(`FilteredIsKept`), and after the filter the resampled one is for what is before the opening of that
session (`ResampledIsKept`). The windows are made of whole sessions, so that a longer bar is in
the window just when its bars are (`BinOfWindow`), and the window only moves on
(`WindowMoves`). `AlwaysWarned` counts: bars of different slots are as many
as a stretch has slots only if each slot has one (`BarsOfStretch`), a bin is such a stretch
up to the close (`BinIs`), and so is a longer bar of the file backfill from its own start
on (`FromFirstIs`). `AlwaysTyped` comes with the same invariant.

## 7. Model-checked only

* Liveness: `EndsUnlessOrphaned`, `RetrySucceedsUnlessObstructed`, `EndsAvailable`,
  `ResumedUploadSucceeds`, `CatchesUp`, `ApplyCatchesUp`. TLAPS proves nothing about
  fairness and ENABLED. What is proved beside them is the safety they rest on: `AlwaysFinalizable`
(nothing but a conflict or a failure stops a loader of one version), `AlwaysStaysOrphaned` and `AlwaysBlocked` (the exception is permanent),
`AlwaysFailsForCause` (nothing else makes a retry fail), `AlwaysFoundWhenResumed` and
`UploadGoesOn` (an upload is not refused and comes to its end), `AlwaysAbortsForCause`.

No recursive definition is used anywhere, so no proof is missing for one.

## 8. Not modelled

* The dataset-level lineage row of the official pipeline, which no operation reads.
* Parquet, pandas and arrow detail: files are what they hold up to their hash.
  Normalisation of provider columns and the checks of single rows are the outcome
  of a fetch or of reading a source.
* `alpaca-py` and PostgreSQL themselves: a fetch answers or fails, a transaction is
  atomic. Network retries and page tokens are invisible to the pipelines.
* `export_db_plan` writes a report; `PostgresCatalog` is constructed by no command;
  `apply_database_plan` is one transaction; `benchmark` measures time.
* Universe, instrument and rights rows of the market loader: upserts of reference
  data that no modelled operation depends on.
* `validate_output`, `reconcile`, `doctor` and the validation scripts read and report.
* The daily reports, the ETF list and the ticker scripts: one-shot downloads of
  lists.
