# Verification of instruments-service

TLA+ models of the instruments service, TLC configurations that check them on
small instances, and TLAPS proofs of their main properties for every value of
the constants. All paths below are relative to `src/instruments_service/`
unless they start with `scripts/`.

The service builds, for each calendar date and asset group, the list of
instruments every venue offered on that date, writes one parquet object per
venue, and records in an *availability manifest* what it knows of each
`(date, venue)` cell: captured, an honest zero, an expected absence, a failure,
or a gap nobody has attempted yet. Everything downstream (freshness checks,
backfills, catalogue views) trusts the manifest, so the question behind most of
the properties is: **can a row say something the run did not observe, can it
hide something the run did observe, and can two runs undo each other's rows?**

Contents: [1 inventory](#1-inventory), [2 modules](#2-modules),
[3 ShardRun](#3-shardrun-one-date-several-runners),
[4 DefiUniverse](#4-defiuniverse-one-batch-many-dates),
[5 sports](#5-sports-per-league-rows), [6 Catalogue](#6-catalogue-the-lifecycle-roll-up),
[7 ManifestUpkeep](#7-manifestupkeep-beside-the-writers), [8 runs](#8-runs),
[9 disagreements](#9-where-code-and-text-disagree), [10 proofs](#10-proofs),
[11 limits](#11-limits-of-the-models), [12 plan](#12-plan).

## 1. Inventory

For each component: the state it keeps, its operations, what it interacts with,
what is hard about it, and what makes it correct.

| component | where | state | status |
|---|---|---|---|
| shard pipeline, venue grain | `engine/orchestrator/process*.py` | one run's records, counts, retryable set, buffered rows | modelled (`ShardRun`) |
| availability manifest | library, used through `ManifestWriter` | the consolidated index, one row per row key | modelled as used (`Manifest`) |
| venue core | `engine/orchestrator/venue_core.py` | none (configuration) | modelled in both |
| per-venue writers | `engine/orchestrator/writers.py` | objects, buffered rows | modelled, futures and market objects left |
| DeFi universe cache | `engine/orchestrator/defi.py` | module-level cache and retryable set, per process | modelled (`DefiUniverse`) |
| URDI fetch | `engine/urdi_reference_provider.py` | semaphore of four | its outcomes are modelled |
| adapter base and factory | `reference_data/base_adapter.py`, `factory.py` | pool of adapters, answer cache of one hour | answer cache modelled |
| CLI handler, batch loop | `cli/instruments_handler.py` | one process, dates in order | modelled in `DefiUniverse` |
| trading calendar | `reference_data/adapters/tradfi/databento/sessions.py` | none | enters as the set of closed venues |
| sports fixtures and reference pipeline | `engine/orchestrator/sports_*.py`, `process_zero_records.py` | league files, per-fixture capture sets, cached teams and standings | modelled (`SportsFixtures`, `SportsEntities`, `SportsCore`) |
| sports triggers | `triggers/` | read-modify-write of the same files, a season cache | modelled (`SportsFixtures`) |
| sports enrichment providers | `engine/orchestrator/footystats.py`, ... | files per league | not modelled |
| fixture completeness | `sports/fixture_completeness.py` | none (pure) | not modelled |
| prediction markets | `engine/orchestrator/prediction.py` | none of its own | not modelled |
| lifecycle catalogue | `scripts/build_instrument_catalogue.py` | `catalog.parquet`, one staging object | modelled for cefi and tradfi (`Catalogue`) |
| manifest upkeep | `scripts/enumerate_expected_universe.py`, `scripts/reconcile_phantom_manifest_rows_all.py` | snapshots and verdicts, held for minutes; a rewritten index; part files | modelled (`ManifestUpkeep`) |
| venue adapters | `reference_data/adapters/` | external clients and parsers | a nondeterministic outcome |
| API server, configuration, removal probe, migration scripts | `api/`, `config/`, `oracle/`, `scripts/` | none shared with the pipeline | not modelled, I/O |

**Shard pipeline.** Nine stages per date, in `process_instruments`: venue
resolution and freshness pre-flight (1), fetch (2), date filter and enrichment
(3), the zero-record path (4), validation (5), per-venue writes and manifest
seeding (6), enrichment (7), completeness assessment with honest-empty stamps,
retries and failure stamps (8), finish (9). It calls the URDI fetch once per
venue, the writers once per venue, and opens several manifest writers, each
flushed on its own. *Hard:* four places stamp the same cell at three different
row-key grains; rows are buffered and flushed later, so a crash or a second
runner falls between decision and effect; the bucket a row goes to depends on
whether the run covers one asset group or several; partial failures must end as
failures, not as zeros. *Correct when:* captured rows have objects, failures
are visible, no requested venue is silent, later rows only add information.

**Availability manifest.** Key-value rows, merged per key, last writer wins. The
writer and the consolidator live in a shared library outside the repository; the
model keeps what the service's calls rely on. *Hard:* lookups see the
consolidated index, not the rows other runs have buffered. *Correct when:* a
flush changes the keys it carries and no others.

**Per-venue writers.** Object first, then the row, with three attempts, then log
and return. *Correct when:* a row never precedes its object.

**DeFi universe cache.** In batch mode the DeFi venues are fetched once, for the
first date that needs them, and filtered for each later date. A guard compares
the answer with the manifest's high-water marks, retries what regressed and
drops what is below half of its mark. *Hard:* three caches with different lives
(universe per process, adapter answers per hour, marks per manifest); failures
of the first date must be remembered for every later date; two naming schemes
for a venue. *Correct when:* the dates of a run agree with each other, a failure
is never a zero on any date, a collapsed answer neither is served nor replaces a
fuller capture, as far as the marks can be read.

**URDI fetch, adapters.** At most four venues at once, each classified as data,
retryable failure or permanent failure; adapters are pooled and cache answers by
`(instrument_type, date)`. *Correct when:* each venue ends in exactly one class
and a cached answer is never mistaken for a fresh one.

**Sports pipeline and triggers.** Rows per `(date, data_type, league)`. The
fixtures of a date are listed by the batch, re-polled daily and refreshed by a
status trigger: three programs that write the same two files per league while
matches are played, postponed and moved. Per-fixture entities (statistics,
events, lineups, ...) are fetched fixture by fixture with a pre-fetch skip of what
is captured, and written league by league, merged in recovery mode. Teams and
standings are fetched once per process and written under each of its dates.
*Hard:* overwrite-on-write after partial fetches, read-modify-write without a
lock, calls that fail for some fixtures or leagues, absences stamped from reads
that are old or cannot be made, files written long before their rows. *Correct
when:* captured leagues have files with rows, an outage never becomes an absence,
a stored league is never stamped absent, a finished match stays finished, a fire
of the refresh leaves no stale row that it had the answer for.

**Lifecycle catalogue.** A daily *incremental* job reads the snapshots of a trailing
window and merges them onto the previous catalogue; a weekly *full* job reads all.
Promotion is upload, copy and delete of one staging object, after a guard against
shrinking. *Hard:* the snapshots change under the walk; jobs die between promotion
steps; migrations delete snapshots; a thin day or an outage looks like a
delisting. *Correct when:* no instrument leaves the catalogue, listing dates never
move later, whatever was captured is seen by the next job, only absences on a full
day of a captured venue close an instrument.

**Manifest upkeep.** The *reconciler* audits captured rows against the stored objects, which
takes minutes, flags those without one (`attempted_failed` with a reason of its own),
un-flags those that have one again, and uploads the whole index. The *enumerator* reads
index and shards once and writes absences and gaps for what a catalogue says should exist, in
part files up to a cap. *Hard:* both act on what they read long ago, beside a
consolidator and runners that go on; the index is replaced whole; a captured row in
a shard may outrank the flag. *Correct when:* rows and stored captures that were there at the second read
survive the upload, a phantom the audit found does not, and an enumeration that ends
has left no expected atom without row.

**Trading calendar, fixture completeness, prediction grouping.** Pure functions;
each would be an operator checked against a reference definition.

## 2. Modules

```
Manifest  <-- ShardRun <-- MCShardRun <-- ShardRunClaims
                 |   \
                 |    ShardRun_proofs
                 +--INSTANCE--> HonestCoverage

DefiUniverse <-- MCDefiUniverse
        \
         DefiUniverse_proofs

SportsManifest <-- SportsFixtures <-- MCSportsFixtures
   |  |     \
   |  |      SportsEntities <-- MCSportsEntities
   |  SportsCore <-- MCSportsCore
   |
SportsManifest_proofs <-- SportsFixtures_proofs, SportsEntities_proofs, SportsCore_proofs
      (each of the three EXTENDS its component as well)

Catalogue <-- MCCatalogue
        \
         Catalogue_proofs

ManifestUpkeep <-- MCManifestUpkeep
        \
         ManifestUpkeep_proofs
```

(`A <-- B`: B EXTENDS A.)

* `Manifest`: buckets, row keys with their three grains, statuses, the per-key
  merge, the seed's lookup, and what the freshness check may answer.
* `ShardRun`: one date, any number of runners, one action per section of the
  code between two accesses to the index or to the object store.
* `HonestCoverage`: the abstract specification: a cell per venue that only ever
  gains information, and no capture without stored data. It knows neither
  runs, buckets nor row keys. `ShardRun` instantiates it with a refinement
  mapping (`CellOf`, and the objects of a venue in its own group's bucket).
* `MCShardRun`: named venues and dispatch lists for TLC.
* `ShardRunClaims`: sentences of comments and docstrings that the code does not
  keep, each as written; no passing run uses them.
* `ShardRun_proofs`, `DefiUniverse_proofs`, `SportsFixtures_proofs`, `SportsEntities_proofs`,
  `SportsCore_proofs`, `Catalogue_proofs`, `ManifestUpkeep_proofs`: theorems about these
  components (section 10); `SportsManifest_proofs`: the lemmas about rows and gap stamps
  that the three sports modules share.
* `DefiUniverse`: the batch cache over a range of dates, runs that follow one
  another, adapter caches, crashes.
* `MCDefiUniverse`: its instance and the claims about it.
* `SportsManifest`: the per-league rows of one date, their merge, the reasons of an
  absence and the gap rows all sports writers emit.
* `SportsFixtures`: the fixture list of one date under the batch and both triggers.
* `SportsEntities`: the per-fixture entities of one date.
* `SportsCore`: teams, standings and injuries of one date.
* `Catalogue`: snapshots, catalogue and roll-up jobs of one asset group.
* `ManifestUpkeep`: reconciler, enumerator, consolidator and a runner over the rows of one
  bucket, each in the steps between two accesses to the object store.
* `MCSportsFixtures`, `MCSportsEntities`, `MCSportsCore`, `MCCatalogue`, `MCManifestUpkeep`:
  their instances.
  The claims that do not hold are at the end of the module they are about.

Operators whose comment starts with `(mutant)` are deliberately wrong variants
of the definition that follows them (a dropped guard, a missing merge, a counter
not counted). No specification uses them. Substituted for the definition they
precede, each makes a property of the runs fail, which shows that the property
depends on the code behaving as it does.

## 3. ShardRun: one date, several runners

State: `index` (the consolidated manifest: row key to status), `objects`
(`<<bucket, venue>>` pairs with an `instruments.parquet`), and per runner a
record of the locals of `process_instruments`: `dispatch` (the asset group
list), `active` (`active_venues`), `outcome` (what stages 2, 3 and 5 left of each
venue), `counts`, `retryable` (`retryable_venues`), `todo` (the venues the
current write loop has not reached), `buffer` (rows not flushed), `round` (retry
attempts), `pc`.

| action | code | remarks |
|---|---|---|
| `Start` (`Skip`, `Begin`) | `process.py:114-222`, `process_preflight.py:492-662` | freshness is read from the first group's bucket; where a venue's rows disagree both answers are possible |
| `Fetch` | `urdi_reference_provider.py:251-392`, filters and validation | every outcome per venue; a venue without adapter fails permanently |
| `ZeroRecords` | `process_zero_records.py` | pure DeFi batch returns; no adapter, all-future and closed-TradFi days are stamped; else the shard raises |
| `RejectAll` | `process_write.py:125-181` | all records invalid |
| `PreStamp` | `process_write.py:505-588` | closed TradFi venues enter `counts` and leave the write loop |
| `WriteVenue`, `WriteFails` | `writers.py:300-437` | object, then row, then `counts`; a failure is logged and leaves `counts` alone |
| `Seed` | `process_write.py:591-779`, `806-900` | reads the index *now*; rows go out with the flush |
| `Flush`, `FlushDone` | `ManifestWriter.close()` | one merge per bucket, in any order; then the next stage |
| `StampEmptyOk` | `process_completeness.py:205-262` | the honest zeros |
| `RetryFetch`, `CloseRetry` | `process_completeness.py:360-464` | two rounds, retryable and missing venues only, primary bucket |
| `Finalize` | `process_completeness.py:546-688` | below 50% the shard fails *before* the failure rows; so it does for a venue the calendar does not know |
| `ThinDay` | `process_completeness.py:467-522`, `693-719` | any written CeFi venues |
| `Crash` | | buffered rows are lost, objects and flushed rows stay |

Properties (in `ShardRun`):

* `CapturedHasObject`: object-before-row survives crashes between the two,
  writes that fail half-way, retries into another bucket, and other runners.
* `NoContradictoryStamp`: a run does not stamp a gap, a zero or a failure on
  a venue it has written, though the venue may have been failed, retryable and
  missing before its retry wrote it.
* `FailureVisible`: an accepted run leaves a failed row (or the closed-day row)
  for each CeFi or TradFi venue whose fetch failed and was not recovered, over
  whatever the seeding of stage 6 wrote. In a DeFi batch the code records
  permanent failures as zeros, so the property excludes them there and
  `ZeroNeverHidesFailure` reports it; the theorem `FailuresVisible` covers live mode,
  where no venue is exempt.
* `NoSilentAbsence`: after an accepted run every venue of the target universe
  has a row in its group's bucket.
* `SeedNeverMasks` (action property): a row that says more than a gap never
  becomes a gap. It is proved for one runner at a time and fails for two
  (`ShardRun_seed_race`).
* `ImplementsCoverage`: the run refines `HonestCoverage` while one runner works.
* `RunTerminates`: under `FairSpec`.

**Fairness.** `WF_vars(Step(p))` for each runner: a run that can take its next
step takes it. The code justifies it because every wait of a run is bounded: the
HTTP session always carries a bounded `ClientTimeout` (`base_adapter.py`, session
creation), the retry delays are the two-element list `[10, 30]`
(`process_completeness.py:384`), writes make three attempts (`writers.py:341`).
`Start` and `Crash` are not fair: nothing obliges a run to begin or to die.

## 4. DefiUniverse: one batch, many dates

State: `stored` and `zeroed` (what the manifest holds per `<<day, venue>>`),
`held` (the answers pooled adapters still cache), `universe`
(`_defi_universe_cache` with `_defi_universe_retryable`), and the runner.
Instruments are known by the day they become available.

| action | code |
|---|---|
| `StartRun` | `InstrumentsHandler.preflight`: a new process, both caches empty |
| `SkipDay` | `process.py:156-192`: nothing live yet, or every cell has a row that ends the work |
| `FetchUniverse` | `defi.py:368-384`, `base_adapter.py:229-263`: a held answer is given again, failures are never cached |
| `CheckMarks` | `defi.py:386-440`: marks, one retry of what regressed, removal below half |
| `MarksUnread` | `venue_core.py:238-245`, `defi.py:389-431`: the read of the manifest raises, there are no marks, the check is skipped and the answers are cached as they came |
| `Reuse` | `defi.py:368-373`: cache hit |
| `WriteDay` | stages 3 to 8 of the date, with the batch classification of `process_fetch.py:119-151` |
| `RetryDay` | `process_completeness.py:384-464`, not guarded by marks |
| `Expire`, `Crash` | the hour of an answer; the end of the process |

Properties: `DaysAgree` (what stage 6 of one run wrote of a venue on two dates
differs only by the instruments that became available in between),
`RetryableNeverZero`, `CollapseNeverServed` (for venues whose rows carry their
own name, in runs that could read their marks: `run.marked`). The docstring
promises the guard without that exception (`defi.py:360-361`), so its claim fails where the
read does (`UnmarkedNeverStored`, section 9). `run.wrote`, `run.asked`,
`run.failed`, `run.regressed` and `run.marked` are history that the properties read and no guard does, `run.failed` excepted: it hands the
retryable venues from `FetchUniverse` to the cache that `CheckMarks` fills.

## 5. Sports: per-league rows

Sports data is kept per `(data_type, league)`; `SportsManifest` has the row keys (some
error paths write rows without a league, which no per-league row replaces), the
absences with their reasons, and the gap rows of `emit_empty_gaps_for_entity`. Each
module follows one date.

### SportsFixtures: the fixture list

State: what the provider lists under the date and says of each match (`listed`,
`status`), the two files of each league (`stored`: the status in each
`fixtures_schedule` row; `outcome`: the matches in `fixtures_outcomes`), the leagues with an
`instruments.parquet` (`venue`), `index`, and per runner the answer it holds (`seen`), the
leagues left (`todo`) and its buffered rows.

| action | code |
|---|---|
| `Play`, `Postpone`, `Reschedule` | the matches; a match leaves the date or comes to it |
| `DaysPass` | `_date_window`, `_status_refresh_window`: the date leaves the re-poll's window for the refresh's, 30 days, and then that one (`window`) |
| `BatchFetch`, `WriteVenue`, `CloseVenue` | `process_write.py:262-384`: venue files per league, absences of leagues that neither this run nor the index has |
| `BatchFetchEmpty`, `BatchFetchFails`, `ZeroMarkers` | `process_zero_records.py:103-286` |
| `Ensure` | `sports_reference_fixtures.py:79-171`: the second listing, which writes the schedule |
| `Repoll`, `RepollFails`, `RepollEmpty` | `triggers/sports_fixtures_daily_repoll.py` |
| `Scan`, `Season`, `SeasonFails`, `ById`, `ByIdFails` | `triggers/sports_fixture_status_refresh.py`; an answer may come from the fire's season cache |
| `WriteSchedule`, `WriteOutcomes` | `sports_fixtures.py:402-466`: one league's files, one after the other |
| `WritesDone`, `Flush`, `Crash` | the manifest rows of a trigger come after its files |

Properties: `CapturedHasFixtures` (a captured league has a file behind it),
`CapturedNotMasked` (only a run that found nothing at all on the date turns a captured
row into an absence), `FinishedStays` (the row of a finished match that is still listed
never regresses and is never lost), `OutcomeHasRow` (the two files agree, also after a
death between them), `RefreshSettles` (when a fire of the status refresh records its rows,
every match that was over and stale when it began has its final row and its outcome,
however old the season lists are and wherever matches move meanwhile). The last excepts
matches that only a failed call could have answered for; `run.over` is the history it reads.
No liveness is claimed: the trigger visits a date on 30 days and no more, so if all those
fires fail, a stale row stays (section 11).

### SportsEntities: per-fixture entities

State: which fixtures are over and whether their schedule is stored, `files` (the
fixtures with rows in each cell's file), `index`, and the locals of each run: the fixtures
asked for and those with a league in the map (`ids`, `mapped`), the queued calls, the cells
left alone because they are complete (`kept`), what the calls brought (`got`, `lost`), the
entities left, the leagues written, the buffered rows.

| action | code |
|---|---|
| `Begin`, `NoFixtures`, `Ensure` | `sports_reference_fixtures.py:49-171`, `process_preflight.py:665-771`: normal, forced, single-entity and recovery runs |
| `Prefetch`, `Fetch` | `:340-412`, `:488-598`: what is captured is read once, before the calls; each call brings rows, nothing, or an exception |
| `StartWrites`, `BarePath`, `FailEntity`, `EmptyEntity` | `sports_reference_fixtures_write.py:227-355`: the four ends of an entity |
| `WriteLeague` | `:86-200`: the league's file is replaced by this run's rows |
| `ReadForMerge`, `WriteMerged` | `sports_fixtures.py:543-619`: recovery, two steps without a lock |
| `EmitGaps` | `sports_reference_core.py:187-343`: absences, guarded by files and index, none if either cannot be read |
| `Flush`, `Crash` | `process_enrichment.py:131-208`: rows go out when all entities are done |

Properties: `CapturedHasRows` (index and buffers: a captured cell's file has rows),
`EmptyNeverStampedOverData`, `RecoveryPreserves` (a recovery that could read the file keeps
what it read), `NothingCapturedNeverEmpty` (an outage of an entity is a failure).

### SportsCore: teams, standings, injuries

State: `files`, `index`, the process (`cached`: the leagues in its two caches; `entity`,
`todo`, `done`, `wrote`, `buffer`). `EarlierDate` fills a cache as an earlier date of the
process would have; `FetchSlow` calls league by league; `FromCache` reuses;
`FetchInjuries`, `InjuriesFail`, `WriteLeague`, `EmitGaps`, `Flush`, `Abandon` and `Restart` are the
rest of `sports_reference_core.py:494-871` and of its two callers. Properties:
`CapturedHasFile`, `EmptyNeverOverFile`, `OutageNeverAbsent` (an outage of all leagues is not
cached and stamps no absence, on this date or a later one).

## 6. Catalogue: the lifecycle roll-up

State: `rows` (the `<<day, instrument>>` rows of all snapshots), `late` (cells written after
their day), `cat` (the catalogue with its modification day), `staged` (the one object under
`_catalogue_staging`), and per job its mode, window, the snapshots left to read, what it has
read, its roll-up. `calm`, `short` and `cat.drift` are history: no snapshot changed under the
job; its window is shorter than the catalogue's mtime would have made it; such a window has
left days out since the last full job.

| action | code (`scripts/build_instrument_catalogue.py`) |
|---|---|
| `Capture`, `Backfill`, `Prune`, `NextDay` | the orchestrator, backfills, migrations, the calendar |
| `Begin` | `5007-5085`, `3953-3996`: previous catalogue, its mtime if that can be had, window (the minimum one without mtime), listing |
| `Load` | `2760-2946`: one snapshot, in any order; a deleted one is skipped |
| `RollUp` | `1603-1720`, `4056-4174`, `5076-5154`: build and merge; a full job reads the catalogue only now |
| `Decide` | `3445-3606`: the monotonic guard |
| `Stage`, `Copy`, `Clean` | `3616-3620`: promotion in three calls |
| `Die` | the job is killed, or a call raises |

Properties: `NeverLost`, `FromNeverLater`, `OnTimeSeen` (what was written on its day is in
the catalogue after the next undisturbed promotion, however late that comes; after an
incremental job that did not know the mtime only a full job restores this, as the docstring
of `compute_window_start` says), `FullAuthoritative` (a full job leaves the ends that follow from all snapshots, whatever
incremental jobs made of their windows), `ThinDayClosesNobody`, `OutageNotDelisting`.

## 7. ManifestUpkeep: beside the writers

State: `index`; `fresh` and `taken`, the rows of the shards no consolidation has read and of
those the one under way has read and not pruned yet; `con`, the index it is about to
write; `objects`; `rec` (the reconciler's first read, its verdicts, the frame to upload), `enu`
(the enumerator's two sets and what it has left to write), `run`. `recorded` and `past` are
history: the stored atoms a runner has recorded as captured; what the audit of the apply run
under way missed, what was consolidated since its second read, and what an upload has undone
of either. What every reader sees is `Merged` (`merge_canonical_with_outstanding_shards`).
Nobody waits for anybody: the consolidator, the enumerator and the runner go on while the
reconciler works, and whether it is ever applied is an operator's choice.

| action | code (`scripts/`) |
|---|---|
| `RecRead` | `reconcile_phantom_manifest_rows_all.py:1718-1786`: the first read, for the forward pass, both (`--unphantom`) or the reverse one alone (`--unphantom-only`) |
| `RecAudit`, `RecAuditErrs` | `305-674`, `1780-1801`: the listings of the captured rows; a failed one is raised for sports' dates (`Raises`), elsewhere it counts as empty |
| `RecReverse`, `RecReverseErrs` | `1803-1855`: those of the flagged rows, later; with nothing to change the run is over |
| `RecMerge` | `1882-1898`, `676-759`: second read, verdicts moved onto its rows by key |
| `RecUpload` | `1900-1917`: the frame replaces the index, whatever that is by now |
| `EnuReadIndex`, `EnuReadShards`, `EnuSkipShards` | `enumerate_expected_universe.py:3518-3633`: index first, then the shards still there, which may not be listable |
| `EnuFlush`, `EnuHalt`, `EnuEnd` | `4178-4378`: part files of `ChunkSize` rows; over the cap the run stops and what is flushed stays |
| `ConRead`, `ConWrite`, `ConDie` | the consolidator (external) |
| `RunStart`, `RunForce`, `RunStore`, `RunRecord`, `RunEmpty`, `RunFail` | a runner reduced to one cell: skipped if captured or an honest absence, object before row |
| `RecDie`, `EnuDie`, `RunDie`, `Lose` | deaths; a migration that removes a parquet |

`Outranks`: a captured row beats a later row of another status, the consolidator's rule by
`flip_sports_odds_captured_leak_to_attempted_failed.py` (lines 13-22) and
`enumerate_expected_universe.py:3790-3793`. The service's own
comments describe plain last-writer-wins (`process_completeness.py:693`,
`process_write.py:823`), which is what the pipeline models use; the one theorem that
needs the former rule states it.

Properties: `CaptureStands` (a recorded capture is what readers see, through stale
verdicts, stale seeds and deaths, unless an upload has undone it: its listing failed,
or its shard was consolidated between second read and upload), `NoRowLost` (only such an upload
removes a row; that is what the second read is for), `PhantomsFlipped` (the upload leaves
no row captured that its audit found to be a phantom, whatever was written meanwhile),
`SeededOnEnd` (an enumeration that comes to its end leaves no atom without row). The first
two say precisely how far the reconciler's docstring is right: "closes the
lost-update window" holds from the first read to the second and not from there to
the upload (`WindowClosed`, section 9).

No fairness: nothing in the repository schedules the reconciler, and over its cap the
enumerator may halt in the same way every day. By the docstring its cap is 100,000 rows (`:22`; the
example at `:64` has 50,000), by the code a million (`:4077`), with chunks of
250,000 (`:4175`). With the code's default a run over the cap has flushed parts, as in the
instance; with a cap below the chunk it has flushed nothing, and the next run finds what it
found. `Seeded` (section 9) is the claim about that.

## 8. Runs

Sizes are distinct states. Every passing run is complete; none uses a state
constraint.

| run | instance | checks | states |
|---|---|---|---|
| `ShardRun_groups` | 1 runner; `cex` (CeFi), `fut` (TradFi, closed that day), `amm` (DeFi), `hub` (CeFi, not launched); dispatches DeFi, TradFi, CeFi with TradFi; batch | `TypeOK`, `FailureVisible`, `SeedNeverMasks`, `ImplementsCoverage` | 923 k |
| `ShardRun_venues` | 1 runner, fairness; three CeFi venues, one without adapter | `NoContradictoryStamp` with retries at the 50% boundary; `RunTerminates` | 216 k |
| `ShardRun_two_runners` | 2 runners, three CeFi venues, one without adapter, one not launched | `CapturedHasObject`, `NoSilentAbsence` | 175 k |
| `DefiUniverse_batch` | two venues (one whose rows are split), two dates, two runs | `TypeOK`, `DaysAgree`, `CollapseNeverServed`, `RetryableNeverZero` | 2.8 M |
| `SportsEntities_runs` | 1 runner; one entity, two fixtures of one league, one of another, an uncovered league | `TypeOK`, `CapturedHasRows`, `NothingCapturedNeverEmpty`, `EmptyNeverStampedOverData`, `RecoveryPreserves` | 726 k |
| `SportsFixtures_leagues` | 1 runner; two leagues (one off season) with a match each | `TypeOK`, `CapturedHasFixtures`, `CapturedNotMasked` | 4.5 M |
| `SportsFixtures_status` | 1 runner; one league, two matches, all three windows | `OutcomeHasRow`, `FinishedStays`, `RefreshSettles` | 787 k |
| `SportsCore_dates` | two leagues, one not covered; two processes | `TypeOK`, `CapturedHasFile`, `OutageNeverAbsent`, `EmptyNeverOverFile` | 6.0 M |
| `Catalogue_rollups` | one venue with three instruments, whole or thin snapshots; four days, two jobs, one edit | `TypeOK`, `NeverLost`, `FromNeverLater`, `OnTimeSeen`, `FullAuthoritative`, `ThinDayClosesNobody`, `OutageNotDelisting` | 2.0 M |
| `ManifestUpkeep_window` | three atoms: one outside its life, one a runner works on, one nobody works on; legacy rows captured, phantom or missing; one fault | `TypeOK`, `CaptureStands`, `NoRowLost`, `PhantomsFlipped`, `SeededOnEnd` | 2.5 M |

Why these bounds show the interesting cases:

* *Venues.* Two venues of a shard are the least for a partial failure; three
  put the completeness percentage at 33, 50 and 66. One venue per asset group
  suffices for bucket routing, as the code routes by group.
* *Runs.* The number of successive runs of a `ShardRun`, `SportsEntities` or
  `SportsFixtures` runner is not bounded: after a run ends or crashes the next one starts
  over the index and objects left behind, so retries after crashes, re-runs with
  `redo_all`, and runs over other groups of the same date are all in the state space.
* *Retries.* `MaxRetries = 2` is the code's value.
* *Two runners.* One of the two launched venues has no adapter, so that each shard is a
  partial failure and the state space stays small; with both answering it has 3.6
  million states up to symmetry. A retry needs two answering venues, so the overlap
  of one runner's retry with another's steps is not in this run: the two
  properties it checks, and `NoContradictoryStamp`, are proved for any number of runners and venues (section 10).
* *Dates and runs of the batch.* Two dates are the least for reuse; two runs the
  least for marks and held answers of different ages. `MaxRuns` bounds the
  runs, which is why that configuration switches deadlock checking off: after
  the last run nothing is left to do.
* *Fixtures.* Two matches of one league are the least for a partial capture of a file; a
  second league for rows of several leagues in one run. A match may be played,
  postponed, moved off the date and back any number of times. `LastWindow` ends the calendar:
  at the refresh's window, or past it, where no trigger visits the date any more.
* *Processes of `SportsCore`.* Two (`MaxVisits`): one that leaves files, rows or neither
  behind, and one that finds them, each with warm or cold caches. After the last one
  nothing is left to do, hence no deadlock check. The order of the leagues is fixed
  (`NextLeague`), as in the code; it decides only what a death leaves written.
* *Days and jobs of the catalogue.* `WindowMin`, `Margin` and `MaxRunDays` are one day
  each, `RecentWindow` three: with four days a window can leave a day out, a median of
  two and of three days occurs, and a job can run over midnight. Two jobs (`MaxJobs`)
  are the least for a merge; a single edit (`MaxEdits`) is a backfill or a deletion at any moment
  of a walk. A promotion with drift and one after it by a full job need three (`MaxJobs = 3`: 9.5 M
  states, by hand, passes). After the last day and job nothing is left to do. All seven properties are
  proved for all values, `ThinDayClosesNobody` for recent windows of at least three days.
* *Upkeep.* One row is a chunk and the cap (`ChunkSize`, `MaxWrites`), so that a run with one row
  to write ends and one with more halts after a part; a chunk below the cap (two rows, with one more
  legacy state: 11.9 M states) and two faults on two atoms (5.3 M) pass by hand.
  Jobs recur without bound; one fault (`MaxFaults`) is one death, lost parquet, set of failed
  listings, failed fetch or forced run at any moment. All but `SeededOnEnd` is
  proved for any number of them.
* The safety properties of all runs, `SeededOnEnd` excepted, are proved for every value of the
  constants (section 10, with the hypotheses given there); the bounds above are the evidence for
  `SeededOnEnd` and `RunTerminates`, and for the rest they show that the interesting cases are
  there to be reached.
* Deadlock is checked in all `ShardRun`, `SportsEntities`, `SportsFixtures` and
  `ManifestUpkeep` runs: no stage of these is left without a continuation.

`ShardRun_groups` with `Dispatch <- DefiDispatches`, `Venue = {cex, amm}` and `Mode = "live"`
(943 k states) is `FailureVisible` for DeFi in live mode, to be run by hand.

## 9. Where code and text disagree

Each of these standing runs states a sentence of a comment or docstring and ends in a
behaviour of the code that breaks it. `PROJECT.json` quotes the lines.

| run | what the code does |
|---|---|
| `SportsEntities_prefetch_loss` | a normal run asks only for the fixtures a league's file does not hold, then replaces the file by what it fetched: the earlier fixtures are gone |
| `SportsFixtures_zero_day` | the presence probe of the zero-fixture path lists an entity nobody writes any more, the re-poll's empty branch has no probe: stored leagues are stamped absent |

The other claims fail in the same way. Their configurations are kept, to be run by hand with
`tlc -config <name>.cfg <module>` (the module is the configuration's prefix with `MC` before
it, `ShardRunClaims` for the `ShardRun` ones), after the change of a
constant where one is named; they are not standing runs, since they share a cause with
one above, need a rarer setting, or matter less.

| configuration | claim and source line | what the code does |
|---|---|---|
| `ShardRun_zero_hides_data` | `ZeroNeverHidesData`, `process_completeness.py:135-137` | a venue with valid records whose write failed is stamped as an honest zero |
| `ShardRun_zero_hides_failure` | `ZeroNeverHidesFailure`, `process_fetch.py:73-76` | in a DeFi batch a permanent failure is stamped as an honest zero |
| `ShardRun_seed_superseded` | `CaptureSupersedesSeed`, `writers.py:53-55` | captures carry `instrument_type` in their key, seeds do not: the gap stays beside the capture |
| `ShardRun_own_bucket` | `RowsInOwnBucket`, `process_completeness.py:558-561` | retries and zero-record stamps of a multi-group run go to another group's bucket |
| `ShardRun_seed_race` | `SeedNeverMasks` with two runners, `process_write.py:857` | a seed decided on an old lookup replaces a row written in between |
| `DefiUniverse_guard_dead` | `CollapseNeverStored`, `defi.py:360-361` | marks and counts use different names for split venues: the guard never fires for them |
| the same with `Venue = {pyth}` and `UnmarkedNeverStored` for its property | `UnmarkedNeverStored`, `defi.py:360-361` | a read of the manifest that raises leaves no marks (`venue_core.py:238-245`): the guard is skipped and a collapsed answer is cached and stored |
| `ShardRun_seed_defi` | `FailureSupersedesSeed`, `process_write.py:820-823` | DeFi seeds are keyed by protocol and chain, failures and zeros by the glued name: the gap stays beside them |
| `ShardRun_closed_day` | `ClosedDayNeverCaptured`, `process_write.py:695-696` | the retry writes look-back records of a closed TradFi venue as captured |
| `ShardRun_thin_day` | `ThinDaySupersedes`, `process_completeness.py:693-694` | the thin-day correction has a key that cannot replace the capture |
| `ShardRun_half_written` | `HalfOfExpectedWritten`, `process_completeness.py:665-666` | the completeness percentage counts venues outside the expected set |
| `ShardRun_broken_day` | `BrokenDayFailsShard`, `process_zero_records.py:11-13` | a run without records is accepted when its TradFi part is closed, although CeFi fetches failed |
| `DefiUniverse_guard_retry` | `CollapseNeverStored`, `defi.py:360-361` | the stage-8 retry stores what the guard would have blocked |
| `DefiUniverse_retry_cached` | `RegressedAskedAgain`, `defi.py:358-359` | the retry of a regressed venue may be answered by the adapter's cache |
| `DefiUniverse_never_asked` | `ZeroMeansAsked`, `process_completeness.py:135` | a venue that goes live during the batch is stamped as a zero response without having been asked |
| `SportsEntities_failed_league` | `FailedLeagueNeverEmpty`, `sports_reference_fixtures_write.py:261-262` | a league all of whose calls failed is stamped as an expected absence when another league of the entity has rows (`:226`) |
| `SportsEntities_phantom` | `AggregateHasFile`, `sports_reference_fixtures_write.py:228-230` | a forced single-entity run without a fixture map writes no file, but its counts become a captured row of the whole date (`process_fetch.py:233-295`) |
| `SportsFixtures_rerun` | `RefreshKeepsRows`, `triggers/sports_fixture_status_refresh.py:30-34` | the league's file is replaced by the answer: a row an earlier fire recovered by id is dropped (`:345`) |
| `SportsCore_zero_day` | `PerLeagueRowsOnly`, `sports_reference_core.py:567-569` | the zero-fixture path still records teams and standings for the whole date (`process_zero_records.py:318`) |
| `SportsCore_zero_day` with `FailedNeverEmpty` for its property | `FailedNeverEmpty`, `process_zero_records.py:66-67` | a league whose teams call failed gets an absence by the gap rows of the same run |
| `Catalogue_gap` | `CatchUpExact`, `scripts/build_instrument_catalogue.py:3969` | the catch-up window counts calendar days, the thin-day median needs captured days: after a venue's gap its thin day is the only day in the window and closes whoever is missing from it |
| `ManifestUpkeep_window` with `OnlyTruePhantoms` for its property | `OnlyTruePhantoms`, `reconcile_phantom_manifest_rows_all.py:17-18` ("real captures are left at captured") | outside sports' dates a listing that raises is an empty listing (`:523-525`, `:410-415`): the captures under it are flagged |
| `ManifestUpkeep_window` with `WindowClosed` for its property | `WindowClosed`, `:42-47` ("closes the lost-update window") | the upload (`:1915`) replaces whatever was consolidated since the second read (`:1886`): rows of shards pruned in between are gone |
| `ManifestUpkeep_window` with `FresherRowWins` for its property | `FresherRowWins`, `:723-726` ("the fresher shard's version of that row wins") | a key is skipped only if it has no row; a row captured anew since the audit has the same key and is flagged |
| `ManifestUpkeep_window` with `SeedsOnlyGaps` for its property | `SeedsOnlyGaps`, `enumerate_expected_universe.py:7-8` ("with NO manifest row") | absences are written for every atom outside its life that is not captured, row or no row (`:3358`) |
| `ManifestUpkeep_window` with `SPECIFICATION DailySpec`, `Seeded` for its property, `Legacy <- MCNoLegacy`, `Worked = {}` and `ChunkSize = 2` | `Seeded`, `:13-14` ("every expected (shard_key, day) tuple"), a cap below the chunk | the run halts before its first flush, and so does each later one |
| the same with `ChunkSize = 1` | `Seeded`, with more absences than the cap | the absences written again in each run use up the cap, the gaps behind them are never seeded |
| `ManifestUpkeep_window` with `Outranks = FALSE` | `CaptureStands` without the captured-outranks rule, `:3785-3790` | the captured set is read once: what is recorded after that, or consolidated between the reads of index and shards, is not in it, and the absence written later hides it |
| `Catalogue_overlap` | `NeverLost` with two overlapping jobs | they share the staging object (`3431-3435`), and a slow incremental job replaces a catalogue promoted after it loaded its own |

Two have a practical consequence worth separating: a zero row *ends the work* on a
cell (`_should_skip_shard`), so data that failed to be written is not attempted again
without `redo_all`; a gap beside a capture only makes the freshness answer depend on
which row is read.

## 10. Proofs

TLAPS proves the following for every value of the constants that satisfies their
assumptions: every set of venues, leagues, entities, fixtures, instruments and atoms, every
calendar and coverage table, every number of runners, jobs, runs, faults and days. A
hypothesis is named in the column "if"; where there is none the theorem holds for any number
of overlapping runners or jobs.

Every safety property of a passing run, invariant or action property, is stated by one
of these theorems, `SeededOnEnd` excepted; so is the refinement of `HonestCoverage`.

| module, theorem | `Spec =>` | if | inductive invariant |
|---|---|---|---|
| `ShardRun_proofs` | | | |
| `TypeSafe` | `[]TypeOK` | | `TypeOK` itself |
| `CapturedSafe` | `[]CapturedHasObject` | | `ObjectFirst`: *buffered* captured rows have objects too |
| `ContradictionSafe` | `[]NoContradictoryStamp` | | `AllConsistent`: what each stage may hold in `counts`, `todo`, `buffer` |
| `AbsenceSafe` | `[]NoSilentAbsence` | | `AllConsistent /\ AllCovered` |
| `CapturesFinal` | a captured row stays captured | | `AllSorted`: a row is captured exactly if its key has an instrument type |
| `FailuresVisible` | `[]FailureVisible` | `OneRunner` | `AllVisible`, with `AllConsistent` |
| `SeedsNeverMask` | `SeedNeverMasks` | `OneRunner` | `AllSeedsUnseen` |
| `RunImplementsCoverage` | `ImplementsCoverage` | `OneRunner` | `AllSorted /\ AllSeedsUnseen`, `CapturedHasObject` |
| `DefiUniverse_proofs` | | | |
| `UniverseTypeSafe` | `[]TypeOK` | | `TypeOK /\ AskedOnce` |
| `DaysAgreeSafe` | `[]DaysAgree` | | `CacheInv` |
| `RetryableNeverZeroSafe` | `RetryableNeverZero` | | `CacheInv` |
| `CollapseSafe` | `[]CollapseNeverServed` | | the property with `CacheInv` |
| `SportsCore_proofs` | | | |
| `CoreTypes` | `[]TypeOK` | | `IInv` |
| `CapturedRowsHaveFiles` | `[]CapturedHasFile` | | `IInv` |
| `OutagesStayFailures` | `[]OutageNeverAbsent` | | `IInv` |
| `GapsSpareFiles` | `EmptyNeverOverFile` | | `IInv` |
| `SportsFixtures_proofs` | | | |
| `FixtureTypes` | `[]TypeOK` | | `Typed` |
| `CapturedLeaguesHaveFiles` | `[]CapturedHasFixtures` | `PollsTracked` | `IInv` |
| `OutcomesHaveRows` | `[]OutcomeHasRow` | `OneRunner`, `PollsTracked`, `TracksResolved` | `IInv /\ Solo` |
| `FinishedRowsStay` | `FinishedStays` | the same | `IInv /\ Solo` |
| `CapturedRowsUnmasked` | `CapturedNotMasked` | the same | `IInv /\ Solo` |
| `RefreshFireSettles` | `[]RefreshSettles` | `OneRunner`, `PollsTracked` | `IInv`, `Owing` |
| `SportsEntities_proofs` | | | |
| `EntityTypes` | `[]TypeOK` | | `IInv` |
| `CapturedCellsHaveRows` | `[]CapturedHasRows` | | `IInv` |
| `FailuresStayFailed` | `[]NothingCapturedNeverEmpty` | | `IInv` |
| `AbsencesHaveNoFile` | `EmptyNeverStampedOverData` | `OneRunner` | `IInv /\ Solo` |
| `RecoveriesOnlyAdd` | `RecoveryPreserves` | `OneRunner` | `IInv /\ Solo` |
| `CapturedNeverMasked` | a captured cell never becomes an absence | `OneRunner` | `IInv /\ Solo` |
| `Catalogue_proofs` | | | |
| `CatalogueTypes` | `[]TypeOK` | | `Typed` |
| `NeverLostSafe` | `NeverLost` | `OneJob` | `IInv` |
| `OutageSafe` | `OutageNotDelisting` | `OneJob` | `IInv` |
| `FromNeverLaterSafe` | `FromNeverLater` | `OneJob` | `IInv /\ AllNoLater` |
| `OnTimeSeenSafe` | `OnTimeSeen` | `OneJob` | `IInv /\ Watched` |
| `FullAuthoritativeSafe` | `FullAuthoritative` | `OneJob` | `IInv /\ Watched` |
| `ThinDaySafe` | `ThinDayClosesNobody` | `OneJob`, `RecentWindow >= 3` | `IInv`, and the lemmas on the median |
| `ManifestUpkeep_proofs` | | | |
| `UpkeepTypes` | `[]TypeOK` | | `UpTyped` |
| `NoRowLostSafe` | `NoRowLost` | | `Base` |
| `PhantomsFlippedSafe` | `PhantomsFlipped` | | `Base /\ Judging` |
| `CaptureStandsSafe` | `[]CaptureStands` | `Outranks` | `Base /\ Held` |

The inductive invariants were checked with TLC on the runs of section 8 (and on instances
with two runners) before they were proved.

### The arguments

**ShardRun.** `ObjectFirst` needs the buffers because a flush publishes rows of which the
index as yet says nothing. `AllConsistent` carries that a venue in `counts` is out of the missing set
until the flush. `AllCovered`: once a run has seeded, each venue of its universe has a row in the
index or in its own buffer, and no step of any runner removes a row. `AllVisible`:
from the final stamps on, the index *together with* the rows yet to be flushed says failed of
each unrecovered venue; one runner, because another's gap may be merged over the
failure. `AllSeedsUnseen`: no buffered gap has a row in the index, so the lookup of a
seed stays true until its flush; with two runners it does not (`ShardRun_seed_race`).
`RunImplementsCoverage` maps the initial state to an initial one and each step to a step or a
stutter of `HonestCoverage`: `CellMeans` says what a cell is in terms of the venue's
rows, `CellsGrow` that a merge of unseen gaps and of rows sorted by grain only adds to it,
`CoverageStep` puts the step together. `AllSorted` is also why no seed, zero or
failure of any runner ever replaces a capture: captures have keys of their own.

**DefiUniverse.** `CacheInv` says that the universe is filled at most once per run, that
venues which failed retryably have no records in it, and that each cell stage 6 wrote is
the universe filtered for its day. The middle conjunct is what makes the others
inductive: `RetryDay` overwrites cells, but only of failed venues, of which stage
6 had nothing to write and whose marks no served venue is compared with
(`MarkKept`).

**Sports.** The part that needs no hypothesis is the same three times: a captured row has its file
as soon as it is *buffered* (`Backed`), and what a stage still has to write is in what
the run has fetched (`Fine`). `SportsCore` adds that a buffered absence is about an
entity the run has left behind (`Settled`), whose leagues had no file when it was stamped (`Empty`),
and that a stage written from the cache has rows (`Filled`). `SportsEntities` adds that the rows of an
entity whose calls all failed say so from the moment they are buffered (`Owned`). With one runner,
`Solo` says that what a run has read is still so: an absence waits in the buffer only for a
league without file of an entity that is done; the base a recovery merges onto is what
the file holds. For the schedule it is a statement about *ages of answers*: what a run was told is
over is over (`Truthful`), and of the leagues it is about to replace, whatever is stored as over is in
its answer as over (`Complete`). What is on file as over is over (`Final`), so an answer that
lists the match after that says so too, and `TracksResolved` is what gets the refresh a list
of the whole league. `Owing` follows what a fire of the refresh owes: until its answers are
in, the matches that were over are still stale on file; then each is in its answer as over, and
after the league's two writes in both files.

**Catalogue.** `IInv` follows a catalogue through a job: what an incremental
job loaded is the catalogue (`Dated`, `JobShape`), what it rolled up, staged and
copies contains the catalogue it replaces and leaves the rows of uncaptured venues as
they were (`Carries`). It is inductive only because nobody else replaces the
catalogue or the staged object in between: `OneJob` (all members of `Job` are equal) is the
code's own assumption (nothing locks them), and with two jobs `NeverLost`
is false (`Catalogue_overlap`, section 9). `AllNoLater` adds the listing days of the roll-up.
`Watched` adds time: the catalogue has every on-time row of the days before `cat.at - MaxRunDays`
(`Known`), a job began at most `MaxRunDays` ago (`Clock`), has read or will read what was in its window
before its day began (`Reads`), and so has it in its roll-up (`Made`). The next window
begins `Margin` days before the catalogue's mtime, and `MaxRunDays <= Margin` closes the chain:
what no window reads any more is in the catalogue already. All of this is under `~ cat.drift`: a
window taken without mtime breaks the chain, and a full job, which reads everything, mends it. This is what the
margin of the source is for, and the theorem says it suffices. `ThinDaySafe` is about
the median: `RankedIs` and `MedianAbove` show that when every other recent day has more than
twice the thin day's rows, and there are two or more of these, the median exists and exceeds
twice the thin day's rows, while some other day reaches half of it; by `ThinIsNotFull` the last
full day is then an earlier one. The types of
roll-ups need that the minima and maxima they take exist (`NatMin`, `MinIs`, `MaxIs`, by
well-foundedness of the naturals).

**ManifestUpkeep.** `Base`: the index a consolidation will write is the one it read with its
shards (`Folding`), and the frame to upload has a row wherever the index has one, what was
consolidated since excepted (`Holding`). From these each step either leaves every
reader's rows as they are (merging is associative, `WinsAssoc`, so it does not matter when
shards are folded in), or appends rows, or uploads that frame. `Judging` follows a verdict from
the audit to the frame: what was missed is no row the reverse pass can have found, and is never captured in it.
`Held` says why a stale verdict is harmless where captured rows outrank others: the frame
keeps every capture of the index that was neither missed nor consolidated in the meantime
(`Framed`), a capture that waits in a shard outranks the frame once it is uploaded, and a
consolidation under way writes it or leaves it in a later shard (`Firm`). `UpkeepTypes` includes the enumerator's
queue, which `Yielded` builds along the catalogue by a recursive function: `YieldedIsSeq` shows
that the recursion has a value, by a least counterexample (`NatLeast`), since the library's
induction theorems cannot be instantiated.

### The hypotheses

* `OneRunner`, `OneJob` (all members of `Proc`, of `Job`, are equal). The code takes no lock; its
  scheduler starts one run per date or asset group. TLC has counterexamples without
  them: `SeedNeverMasks` (`ShardRun_seed_race`), `FailureVisible`,
  `EmptyNeverStampedOverData`, `RecoveryPreserves` (a recovery merges onto what another run
  has replaced), `NeverLost` (`Catalogue_overlap`).
* `PollsTracked` (`Polled \subseteq Tracked`): the leagues the re-poll asks for are in the writer's
  universe. Without it the re-poll records a league as captured which the writer
  skipped (`triggers/sports_fixtures_daily_repoll.py:168-197`, `sports.py:128`).
* `TracksResolved` (`Tracked \subseteq Resolved`): every league that may be stored has an id for the
  status refresh. Without it the refresh has only the rows it fetched by id, and
  replaces the file by them: a finished row is dropped
  (`triggers/sports_fixture_status_refresh.py:135-159`).
* `RecentWindow >= 3`: the code has 14 (`build_instrument_catalogue.py:636`). With counts of 5 and 2 in
  a window of two, the median is their mean and the thin day is not below half of it.
* `Outranks`: captured rows outrank others in a merge. Without it `CaptureStands` fails
  (section 9); the other theorems about the upkeep hold for either rule.

Assumptions on the constants, all evaluated by TLC: `AssetGroupAssumption` (each venue has one
venue-grain group), `ConfigAssumption` (constants of the right kind, finitely many
venues, no empty dispatch), `UniverseAssumption` (a range of at least one date, launch days are
naturals, a venue's manifest name is another configured venue's name only if it
is that venue: glued `PROTOCOL-CHAIN` names and bare protocol names do not collide),
`SportsAssumption`, `CoreAssumption`, `FixtureAssumption`, `EntityAssumption` (tables of the right kind,
`NoLeague` is no league, at least one process in `SportsCore`), `CatalogueAssumption` (each snapshot is of one
venue, there is a day and a recent day, finitely many instruments, a
job runs for no more days than the window's margin), `UpkeepAssumption` (constants of the right kind, a
chunk of at least one row).

### Only model-checked

`RunTerminates`, the one liveness property: it holds under weak fairness, and a proof would
need `ENABLED` and the rules of fairness, which are out of this prover's reach.
`SeededOnEnd`: which atoms `Yielded` holds follows by induction along the catalogue, and the
library's induction theorems cannot be instantiated.

## 11. Limits of the models

* `ShardRun` covers lists of venue-grain groups. The sports and prediction
  branches of the same functions, the "ALL" dispatch and a `venue_override`
  outside the requested groups are not modelled. Instrument counts are not:
  `ThinDay` lets any written CeFi venue be thin.
* `Fetch` is one step with every combination of outcomes. The semaphore, the HTTP
  retry loop and sibling-venue routing are below its grain.
* The manifest library is external: per-key last-writer-wins merges of one
  flush at a time. Where a venue has several rows that disagree, the freshness
  check may answer either way.
* `DefiUniverse` has at most one instrument per venue and day and one
  instrument type per venue; the relevance filter and adapter epochs are left
  out, as is the live-mode guard. Stages 6 and 8 of a date are single steps
  there, detailed in `ShardRun`; runners do not overlap. A venue the guard
  blocked ends the date as an honest zero, as in the code. `CollapseNeverServed` says nothing of
  a run whose read of the manifest failed, because the code checks nothing there.
* The sports modules follow one date. Left out: the leagues and venues entities, the
  mappings of fixtures and teams, the gates that look at an entity's columns, the
  freshness short circuits, and which provider answers. A trigger's fire is followed
  over one of its dates; the season cache it carries between dates enters as an
  answer as old as the fire. Of `_ensure_canonical_fixtures_for_override` the copy of a legacy
  path (`sports_reference_fixtures.py:130-143`) and the ids from the API
  (`:192-282`) are left out.
* The status refresh visits a date from its second to its 31st day
  (`sports_fixture_status_refresh.py:105-107`); nothing is said of a stale row after that, and
  nothing obliges a fire within it to succeed. The docstring's "a date whose
  stale status persists past this window is picked up on a subsequent fire" (`:89-94`) is not
  true of the code: later windows begin later. Only a run by hand, with other bounds, gets there.
* `SportsFixtures` and `SportsEntities` are model-checked with one runner at a time, and the
  theorems with hypothesis `OneRunner` need it. Two fires with answers of different ages
  write the older one last if they happen to; `_write_fixtures_per_league` compares
  nothing, and no text says otherwise. What holds for overlapping runs is proved without it
  (section 10). `SportsCore` follows one process after another.
* `Catalogue` follows an asset group whose instruments keep their ids: not the DeFi
  carve-out (never delisted), the builders of sports and prediction, respelled ids
  with the passes that fold them, tags, or `--allow-catalogue-shrink`. Dates are
  days; a job runs at most `MaxRunDays`, no more than the margin of the window. An incremental
  job that cannot learn the mtime looks back the minimum only; what that leaves out
  stays out until a full job, and `OnTimeSeen` excepts it.
* `ManifestUpkeep` follows apply runs and the bounded-window run; not
  the deletion passes and scope filters, the full-history artifact, a pre-cached copy of the
  manifest, or the calendars and path templates that decide which atoms exist and where
  their parquet lies. Shards are one map of rows; `VM_NAME` is a unique tag, as the
  enumerator demands, so part files of different runs do not overwrite each other. The
  listings of one pass are one step (the two passes are two), and so is a read of index and shards
  by `merge_canonical_with_outstanding_shards` (a library call). The reconciler has no schedule
  and does not make the consolidator wait: whether phantoms are ever looked for, and what is
  consolidated under an upload, is up to whoever applies it.
* Not modelled at all: the enrichment providers (the shape of
  `SportsCore.FetchInjuries` and `WriteLeague`, once per provider), venue adapters
  (clients and parsers, whose answers are nondeterministic here), the API server, the
  removal probe, one-off migrations (of which `Catalogue.Prune` is what the models
  feel), `pipeline_e2e_check.py` and `measure_honest_coverage.py` (readers).
* Logging, events, metrics and catalogue records are left out.

## 12. Plan

Done: `Manifest`, `HonestCoverage`, `ShardRun`, `DefiUniverse`, `SportsManifest`,
`SportsFixtures`, `SportsEntities`, `SportsCore`, `Catalogue` and `ManifestUpkeep` with
their runs and claims; theorems about all of them, among them every safety property of the
runs.

Next, in this order:

1. Proofs: what two overlapping runners still guarantee where the theorems ask for one
   (that a lost failure row is always another runner's gap, say); which atoms `Yielded` holds,
   beyond its type.
2. `AbstractLeague`: the set of captured fixtures of a league that only grows, refined by
   `SportsEntities` in recovery mode, where the code promises it, and proved so.
3. The live-mode DeFi guard (`process_fetch.py:152-183`) in `DefiUniverse`; the relevance
   filter; adapters that pin a date at construction (`factory.py:629`).
4. Enrichment providers as instances of the shape of `SportsCore`; the prediction branch.
5. Fixture completeness and the trading calendar as pure operators, checked
   against reference definitions.
6. URDI fetch: the semaphore of four and sibling routing, each venue ending in
   exactly one class.
