# A TLA+ model of DET

DET (`src/src/det`) extracts from sources into an immutable **raw** lake, loads
raw into typed **bronze**, and leaves silver to dbt; around that stand leases,
locks, a catch-up between bronze and silver, approvals, retention and an
Iceberg catalog. This project models the parts of it that keep state which
several processes touch, checks them with TLC, and proves the main results with
TLAPS.

## 1. Inventory

State that outlives a process is kept in four places: the lake (objects under
`raw/`, `bronze/`, `ops/`, `runs/`), Postgres (leases, locks, approvals when so
configured), the SQL or Iceberg bronze, and dbt's silver tables. Workers, the
CLI, Airflow tasks and the operator are separate processes; they meet only
there. Every hard behaviour of DET comes from that: two remote operations of
one handler with anything in between, a worker that dies at any point, a
deadline that passes while an answer is under way.

| Component | State | Operations | What makes it correct |
| --- | --- | --- | --- |
| Interval lease (`runtime/lease/lake_store.py`, `postgres_store.py`, `__init__.py`) | one lock per pipeline and interval: token, version, deadline | acquire (create or steal), refresh, ensure_held, release, force release | one owner; only lapsed leases are stolen; a lost lease stays lost; a passed fence was the owner's |
| Dataset lock (`dataset_lock_lake.py`, `dataset_lock_postgres.py`, `dataset_lock.py`) | one body per bronze dataset: exclusive holder, intent, shared holders | acquire shared or exclusive, wait, refresh, ensure_held, release, force release | readers or one writer; no holder's entry is lost; a waiting writer gets in |
| Runner (`runtime/runner.py`, `manifest.py`) | raw prefix per run, its commit object | extract, load, run | a committed prefix is never touched; only the lease holder publishes; load reads committed raw only |
| Bronze landing (`bronze_land.py`, `ingestion/*`) | bronze rows per run | replace-by-run write, validation stamp | a reload converges; a run appears whole |
| Iceberg writer and catalog (`iceberg_writer.py`, `iceberg_catalog.py`) | metadata versions, `version-hint` | create, commit, purge, schema evolution | commits are not lost; the hint names an existing version |
| Silver catch-up (`silver_catchup/`, `silver_catchup_ops.py`) | manifest pair per id | diff, plan, apply, build, verify, heal, clean-up | missed runs are found and built; silver never goes back; the applied plan is the approved one |
| Silver model (`src/dbt/macros`) | one row per key | watermark build, catch-up build | the newest run wins per key |
| Approvals (`approval.py`, `approval_store/`) | one approval per plan digest; claim; use | approve, check, claim, heartbeat, consume, release | an approval is used once, for its own plan, before it expires |
| Migrate (`migrate.py`) | bronze dataset | plan, purge, rebuild from raw | no load gets in between; what was purged is rebuilt |
| Prune (`prune.py`) | raw and bronze runs | plan, delete | the runs to keep stay; no run in use is deleted |
| Receipts, SLO (`receipts.py`, `receipts_materialize.py`, `slo.py`) | one object per attempt; the table `ops.run_receipts` | record, scan, replace a day, register, test | each receipt that is read gets into the table once and stays; a passing test says the truth |
| Lake roots (`runtime/lake`) | flags and environment | select mode and roots, resolve | one lake in one mode, and an approval binds the one that takes effect |
| Plans and gated commands (`approval.py`, `cli/`, `mcp/dry_run/`, `src/dags`) | a shown plan, its digest | preview, approve, call, refuse, run | what is written under an approval is what was shown |
| Secrets and settings (`secrets.py`, `settings.py`) | three caches over environment, file and vault | resolve, invalidate, rotate | a replaced credential ages out; a pinned lookup stays in the environment |
| Sources and HTTP client (`sources/`) | attempt counter, files, pages | index, download with retries, paginate | retries end; nothing half fetched counts; the interval is fetched whole |

Interactions: `run` takes an interval lease, `load` additionally a shared
dataset lock around the bronze write, `migrate --recreate-iceberg` an exclusive
one and then a lease per raw run; prune takes a lease and a shared dataset lock;
each of them calls `assert_lease_held` and `assert_dataset_lock_held` (the
fences) before it publishes. Catch-up reads what loads committed, and races
them. Approvals gate the writing commands (4.7 names those without). Every extract and load leaves a
receipt, which a materialisation takes into a table that the tests of the ops
build judge. What each part is exposed to is listed, line by line, under
`hazards` in PROJECT.json.

## 2. Modules and how they compose

| Modules | Content | Checked by | Proved in |
| --- | --- | --- | --- |
| `LeaseContract`, `LakeLease` | what a lease promises; the lake store that keeps it | `lake_lease` | `LakeLeaseProofs` |
| `LakeDatasetLock` | reader/writer lock in the lake | `lake_dataset_lock`, `lake_dataset_lock_live` | `LakeDatasetLockProofs` |
| `SilverCatchup` | bronze runs, silver, catch-up sessions | `silver_catchup` | `SilverCatchupProofs` |
| `Publication` (over `LeaseContract`) | extract, load, run and prune of several workers on one interval; fences; commit objects | `publication`, `publication_doc` | `PublicationProofs` |
| `ApprovalContract`, `LakeApproval` | what an approval promises; the lake store that keeps it, under commands, Airflow tasks and operators | `lake_approval` | `ApprovalProofs` |
| `BronzeWorkers`, `PostgresLease`, `PostgresDatasetLock`, `IcebergCatalog`, composed in `BronzeRebuild` | loads and migrations of one Iceberg dataset under both Postgres locks | `bronze_rebuild`, `bronze_rebuild_doc` | `BronzeRebuildProofs` |
| `LakeRoots`, `ApprovalPlans`, composed in `ApprovedCommands`; `ApprovalMeaning` | every gated command, from the preview to the write; what an argument list means | `commands` | `ApprovalProofs` |
| `Credentials`, under `HttpFetch` | secrets and their caches; what a source fetches | `http_fetch` | `HttpFetchProofs` |
| `RunReceipts`, under `OpsTable` | receipts, SLOs; their way into the ops table | `ops_table` | `OpsTableProofs` |

The contracts are stated where a component has one worth stating: a lease and
an approval. A contract of the dataset lock that exclusion holds from the
return of acquire would not be kept by the lake store (4.2), so its promise is
stated of the body and of the fences. Runs stay at two or three actors of a
kind: every hazard listed needs two parties and at most a third that comes in
between.

## 3. Modules

### 3.1 LeaseContract and LakeLease

`LeaseContract` is the abstract lease: `owner`, whether its deadline is still
ahead (`live`) or has passed at some time (`lapsed`), and the attempts that are
spent. `Strict` says whether a lease may be stolen only while expired.

`LakeLease` is `LakeLeaseStore` with the `pipeline_lease` context manager. An
attempt is one `acquire()` and its handle; the token is random and fresh, so
the attempt stands for it. The lock object is `owner` (`NoOne`: absent),
`version`, `live`; a handle is `ver` (`Lease.version`) and, while it steals,
`seen` (the token of the first read). `pc` names the next remote operation:

| pc | next operation | code |
| --- | --- | --- |
| idle | `create_exclusive` | `acquire`, lake_store.py 75-83 |
| stealRead, stealVersion, stealRecheck, stealSwap | read, `object_version`, read again, `replace_if_match` | 85-115 |
| created, wrote | version look-up after a put on gs | fsspec_backend.py 241-266 |
| acquired, held | read of `refresh` or of `ensure_held`, or the end of the body | 117-131, 152-178 |
| refreshing, fencing | their `replace_if_match` | 132-150, 179-188 |
| closing, releasing | read, `delete_if_match` | 190-203 |

Time is the moment a stored deadline passes (`Expire`). `Crash` ends an attempt
anywhere; `ForceRead` and `ForceUnlink` are the operator's `det lock-release
--force`. `VersionInReply` separates s3, local and memory from gs, whose put
does not return a version. `refresh` has a branch for a handle without a
version (lake_store.py 123-131); no handle is without one after `acquire`, so
it is not an action.

### 3.2 LakeDatasetLock

`LakeDatasetLockStore` with its context managers. `body` is the JSON object's
content; `expired` holds the tokens whose last written deadline has passed, and
`Pruned` is `_prune_body`. A handle computes the body it wants into `plan` and
writes it under its version. Versions are unique, so all that matters of a
handle's version is whether it is none, the current one or a stale one. The
code's limit of 50 conflicts in a row appears as a choice between trying again
and giving up. A put answers with the version here; the gs look-up is studied in
`LakeLease`. An object deleted between `exists()` and the read is refused like
one deleted before the version look-up. Exclusive callers all use `wait=True`,
the default; `Wait` is a constant all the same.

### 3.3 SilverCatchup

Bronze is, per run (an interval and the second of its extract), the keys it
extracted (`rows`), how far its load is (`phase`) and what dbt can see of it
(`visible`). Silver maps each unique key to the run its row comes from. A
session is a catch-up: `pc` walks before (first diff), plan (second diff),
write (sidecar), commit (marker), build, verify; each diff is two steps, the
bronze listing (`latest`) and the silver query. `Healer` sessions follow
`run_silver_catchup_heal`, `Operator` sessions the CLI: the first diff is the
dry run, whose holes (`plan`) are what the approved digest stands for, the
second one is compared with it. `Land` is a transactional bronze write (DuckDB,
Postgres, Iceberg: one transaction each), `FileStart`, `FileStream`,
`FileCommit` and `FileFails` the JSONL one. `Prune` and `Recreate`
(migrate `--recreate-iceberg`, which purges the table) take landed runs out of
bronze again; a prune may act on an old plan, so that the newer run which it
keeps is one that has been extracted, not one that is in bronze now. What has
been taken out may be loaded again as long as its raw extract is there, and
`lost` remembers it. A dbt build is one step: DuckDB has a single writer,
BigQuery one DML statement at a time per table. The first one creates the silver
table (`built`); before it a diff raises (diff.py:260-261), except when it has
no interval to ask about and the database file exists (duckdb_silver.py:45). A
full refresh of silver is not modelled. A listing is one step although it walks
a directory per interval: what is asked of it is asked per interval.
`setup` is how the pipeline is deployed: JSONL or transactional bronze, lookback,
catch-up window, who runs catch-ups.

### 3.4 Publication

One interval of one pipeline. Each worker makes one call: extract, load of the
latest run, reload of a given one, run (extract and load under one lease) or
prune; `pc` is its place in the code:

| pc | next step | code |
| --- | --- | --- |
| check, clean | `is_committed_raw_dir`; `rmtree` of an uncommitted prefix | runner.py 180-193 |
| acquire | `pipeline_lease` | runner.py 195, 318, 422; prune.py 188 |
| extract | an artifact, the end or the failure of `extract_to_raw` | 217-224 |
| fence, publish | `assert_lease_held`, `write_manifest` | 243, 244 |
| tidy, wipe | the clean-up after a failure: check, `rmtree` | 249-252 |
| resolve | the run to load | 454-481 |
| writeFence, write | `assert_lease_held`, the backend's transaction | bronze_land.py 112, 116 |
| stampFence, stampRead, stamp | `assert_lease_held`, read and put of `stamp_validation_success` | bronze_land.py 132, manifest.py 169, 179 |
| pruneFence, prune | `assert_lease_held`, deletion of the planned runs one by one | prune.py 202, 467 |
| release | the end of `pipeline_lease` | lease/\_\_init\_\_.py 229-233 |

The lease is `LeaseContract` with `Strict = FALSE`, which is what `LakeLease` is
shown to implement: it may be stolen while live if it has lapsed before. A
commit object is represented by who wrote it, an artifact by who wrote it, rows
by the artifacts they come from; `Past` wrote what was there before. `late`
records which commits were made after the lease was lost, `clashed` the runs
that two workers have worked at at a time (`AtWork`: past the check of the
prefix and not through with it).

What it abstracts: reading the artifacts of a run is one step with the write (a
committed run's artifacts do not change, which is `CommittedStays`); bronze is
transactional; prune deletes run by run (Postgres in one transaction, which
leaves out the states between); the dataset lock is left out, since loads and
prunes take it shared. A prune whose window is not exactly the interval takes
another lease, so it may also begin without this one.

### 3.5 ApprovalContract and LakeApproval

`ApprovalContract` is one approval: `status`, `holder` (`claimed_by`), its TTL,
and the runs that found it unused and in time (`admitted`). Each of its actions
is a transaction of `PostgresApprovalStore`, which locks the row first; a
heartbeat changes nothing in it.

`LakeApproval` is `LakeApprovalStore` with its three kinds of callers: commands
(`_gate_approval`, the write inside `_claimed_approval_work` with its heartbeat
thread, `_consume_approval`), Airflow tasks (`check_approval`, the write,
`consume_approval`) and operators (`det approval-release --force`). The record
is `status` and `holder`; `claim` is who created the `.claim` file. Versions are
unique, so a loaded version is only whether it is still the record's: `fresh`,
and `freshBeat` for the heartbeats. `pc` names the next step:

| pc | next step | code |
| --- | --- | --- |
| claim, claimRead | version, then bytes | lake_store.py 116, 56-69 |
| claimFile, claimSwap, claimUndo | create `.claim`; swap; unlink after a failure | 128-146 |
| write | the command's or the task's own work | cli/common.py 260, det_extract_dag.py 151 |
| consume, consumeRead, consumeSwap, unlink | the two tries and the unlink | 155-175 |
| release, releaseRead, orphanLook, releaseSwap | the two tries of a release | 185-216 |
| orphanUnlink, releaseUnlink | unlink | 193, 223 |

`beat` is the same for the two tries of a touch. A touch that is under way when
the write ends goes on (the join waits a second), and commands that consume
inside `_claimed_approval_work` may even start one. Touches of a run are 30
seconds apart, so at most one ends during a consume (`TouchEnds`): the one
assumption about time. A command that failed goes on living until it `Dies`.
Every caller here has the right digest and argument list; what binds an approval
to its plan is in 3.7.

### 3.6 BronzeRebuild

One Iceberg dataset, its raw runs, and workers that `load`, `migrate` or
`migrate --recreate-iceberg`, with both locks in Postgres. Four modules hold the
state that the workers share; their operators are the transactions and remote
operations of one class each, and `BronzeRebuild` strings them together:

- `PostgresLease` (`PostgresLeaseStore`): `holder` is the table, one row per
  interval, `leaseDue` the rows past their `expires_at`. In overlap mode the
  exclusion constraint makes intersecting intervals clash (`Clash`). An acquire
  whose insert meets a conflict reads the rival row and steals it by token in a
  later statement (`MeetRival`, `StealLease`).
- `PostgresDatasetLock` (`PostgresDatasetLockStore`): the exclusive holder, the
  single `intent` slot, the shared rows. Acquiring and fencing hold an advisory
  lock, so each is one step; so is inspection, which prunes. Two instants count
  in such a step: pruning goes by `NOW()`, the time when the transaction began,
  before it waited for the advisory lock, while the exclusive row and the intent
  are compared with the client's clock when they are read. An entry whose
  deadline passed in between (`late`) is not pruned, and not reported either.
- `IcebergCatalog`: what the pointer shows (`table`), what a writer has loaded
  (`base`) and whether that is still current (`fresh`). `rest` stands for the
  catalogs that compare and swap (external), `hadoop` for `LakeHadoopCatalog`,
  whose comparison and whose overwriting of `version-hint` are two steps.
- `BronzeRebuild`: `pc` follows `PipelineRunner._load`, `land_bronze_partition`
  and `BronzeMigrator.migrate`: resolve, lease (rival, steal, refreshLease),
  share or open/poll/wait, fenceLease, fenceLock, ensure, create, write, hint,
  stamp, unlease, renew, close; a recreate selects its parts (`plan`) before it
  waits, then drops and wipes the table and lands one part (`part`) after the
  other. A write beats every chunk (`WriteChunk`); any remote step may fail
  (`GiveUp`, `WriteFails`), any worker may die (`Crash`) and be started again.

### 3.7 ApprovedCommands

`LakeRoots` is the resolution of flags and `DET_LAKE_*` to the three roots, and
what an approval binds of it (`LakeKwargs`). `ApprovalPlans` is the argument
list of each command: a set of flag/value pairs, since its flags come in a
fixed order; a digest is as good as the list. `ApprovedCommands` says for each
command what it accepts, which list it builds and what it would write (its
`effect`: pairs of an aspect and a value), once as the command line does
(`CallOf`) and once as the MCP tool that previews it does (`DryRunOf`), with
`silver-catchup plan` and `heal`, an operator who writes a list by hand, and the
Airflow tasks for prune, backfill and clear-lock. A plan is shown, approved, may
expire; a command is called with whatever flags (`Runs`, `Refusal`: missing
approval, unbound flags, another command, another list, another store), works
or fails, and consumes or keeps its approval. A load may land between preview
and write and change what a catch-up is about to write (`LoadLands`, `Drifts`,
`DigestMatches`).

One process acts at a time here; several on one approval are in `LakeApproval`.
The content of a manifest depends on its pipelines and on how many loads have
landed; the id of a manifest is one value.

### 3.8 HttpFetch

`Credentials` is `resolve_secret` and the lookups of `DetSettings`: `stores` (the
environment, the secrets file, an embedder's vault), the caches in `memory`
(process, file, settings), each with the age of its entries, and when each
credential was `replaced`. A lookup is an operator that returns what it found
and the memory it leaves; one over a list of names (`LookupAll`) stops at the
first that is answered. `HttpFetch` is what a source does with it for one
interval: `Begin` resolves the token, then one action per attempt of a request:
`GetIndex` and `GetFile` for the retrying helpers of `http.py` (to disk, or via
a temporary file to an object store), `WritePage` for the paginated plugins,
`Copy` for local files, `AddArtifact` for what counts in the end. `NextFile` is
the file at hand: files are fetched one by one, year by year. A reply says
whether the body is whole, short, damaged, empty or over the limit and what the
length header says of it; `StreamOnce`, `VerifyGzip` and `Checked` are the code's
checks of it in their order, `After` what is retried, refreshed or given up. An
upload to the object store may break off before, amidst or after the object is
stored (`Uploads`), and an index may be cut short or be none (`Listed`): `seen` is
the list that the extract was served. The
five kinds of plugin (`index`, `names`, `linked`, `offset`, `local`, and the
fixture) stand for the sources of the repository. No source there passes
`refresh_headers`; the parameter is part of the helper's contract, so the run has
plugins that do.

### 3.9 OpsTable

`RunReceipts` has the receipt of an attempt, `classify_error` over the class
hierarchy of the exceptions, the window of a materialisation, the summary, the
daily model of dbt, the SLO defaults and overlays, and the tests of the ops
build. `OpsTable` has attempts that begin and end in any order, materialisations
by `runs-materialize` and by the daily DAG (`Load`, `Create`, `Commit`,
`WriteHint`, one day at a time), expiry of old receipts, and the two
registrations (`BigLakeRegister`, `IcebergRegister`) that decide which table the
ops build reads. A table is a bag of rows, so that a duplicate shows. `End` ends
an attempt with what its body and the release of its lease raise; both are kept
as state, while the receipt has only what `record_attempt` sees, the exception of
the release when there is one (`Raised`). An attempt that was killed, whose
receipt is switched off or cannot be written is one that never ends. A scan may
pass over any receipts (`unread`): `_read_receipt` swallows errors
(receipts.py:339-343), and a listing may miss what is written meanwhile. Of a scan
its day and what the log had then are kept (`began`, `logged`), for the
properties only. `Kill` ends a materialisation at any step but the one after a load:
nothing is written there, so it is as good as being killed before.

## 4. Runs

Types are not checked by the runs: where a module is proved about, its type
invariant is a theorem.

### 4.1 LakeLease

`lake_lease` uses three attempts, so that an owner, a stealer and a third that
comes in between exist at once, and five versions: the object and each handle
remember at most one, so a fresh one is always left. It runs the gs protocol
(`VersionInReply = FALSE`); a store that answers with the version is the case
in which nothing happens before the look-up, and the proofs cover both. The
properties: a conditional write let through by its version is on the handle's
own lock (`SwapsOwnLockOnly`); a passed fence was the owner's
(`FencePassesOwner`); a lease changes hands without release only once lapsed
(`StealsLapsedOnly`); and the whole refines `LeaseContract` with
`Strict = FALSE` (`KeepsLeaseContract`).

With `Strict = TRUE` the refinement fails: the stealer reads an expired lease,
the owner's heartbeat renews it, the stealer then looks the version up, finds
the same token and swaps. The lease was live, though it had lapsed.

### 4.2 LakeDatasetLock

`lake_dataset_lock` has two readers and a writer, each of which comes back
without end: an ended attempt is used again for a new one once its token is in
no body (`Again`). It checks that the body never names readers beside an
exclusive holder (`ReadersOrWriter`), that the write of a heartbeat, a fence or
a release drops no live entry but its own, readers', writer's or intent, and
revives no dead one (`HoldersKeepOthers`), and that a passed fence finds and
leaves its handle in the lock (`FencePassesHolder`).

Exclusion does not hold from the return of acquire: `acquire_*` looks the
version up after reading the body (dataset_lock_lake.py:86 and :158), so what
another acquirer wrote in between is overwritten, and both return with a handle;
the loser notices at its fence. For that reason exclusion is stated of the body
and of the fences, and `HoldersKeepOthers` of holders, not of acquirers. One
release is excepted for the same reason: dataset_lock_lake.py:336 looks the
version up after the body was read when the handle has none. That takes a lock
object that was gone when the handle looked (a forced release) and a token that
came back with the body of an acquirer that had read it before; the release can
then overwrite a holder of the new object. The step has a label of its own
(`lateSwap`), and the property fails once it is included.

`lake_dataset_lock_live` checks that a writer that waits gets in, however often
a reader comes back (`WriterGetsIn`): while the intent stands no new reader gets
in. Excepted is a behaviour in which the intent is lost again and again: it
expires between two polls, is unlinked by force, or is overwritten by an acquirer
that had read the body before. The code has nothing against these. One
reader at a time comes back, with new tokens; with two, the behaviours to check
are more than a run can take. There is one writer: a second one neither
respects nor keeps the first one's intent, and the code has no queue of writers.
Fairness: the waiting writer keeps taking steps (weak), a holder's body ends at
some time (strong on `Leave`, since heartbeats interrupt its being enabled),
deadlines pass (weak on `Expire`), and the writer's conditional write is not
beaten for ever (strong on a swap whose version is current; the others write at
intervals of a third of the TTL, the writer tries 50 times in a row at each
poll). Nothing is assumed of readers' acquires, of heartbeats or of crashes.

The wait has a deadline in both runs, which may come at any poll and need not
come. With `DET_DATASET_LOCK_WAIT_SEC=0` the code has none
(dataset_lock_types.py:61 makes it `None`, which dataset_lock_lake.py:129 and
:191 take for no deadline), where publication-contract.md:130-131 says that `0`
fails fast; `ResolveWaitSec` follows the code.

### 4.3 SilverCatchup

`silver_catchup` has six deployments, over two intervals, two keys and two
seconds. Two intervals give a run that lands late, runs of one second and keys
shared between intervals.

| bronze | lookback | catch-up | runs | taken out of bronze |
| --- | --- | --- | --- | --- |
| transactional | 0 s | a healer | 3 | 0 |
| transactional | 1 s | a healer | 2 | 2 |
| transactional | none | an operator, window of 0 s | 2 | 0 |
| transactional | 1 s | none | 3 | 3 |
| JSONL | none | an operator, window of 0 s | 1 | 1 |
| JSONL | 0 s | none | 2 | 2 |

Silver never goes back (`NeverDemotes`), with one exception: a watermark build
that looks back takes an older row when the newer one, which silver has, is no
longer in bronze, because it was pruned or purged, or because its JSONL file is
being written again. A run of which silver has one row is there whole or outdated
(`CoverageIsComplete`), which is what the diff's per-run question rests on; and
what a verified session has listed is in silver row by row
(`HealedIsReflected`). Both leave out a run that has once been taken out of
bronze under a lookback (`GivenUp`): the same build may then give up some of its
rows, and if the run is loaded again the diff takes it for covered by the others.
Without the exceptions TLC finds these histories. Both are about transactional
bronze. The scaffolded source reads every `data.jsonl`, committed or not
(dbt_yaml.py:123), so that silver may take a part of a run that is still
written, and the diff counts it as covered.

`ReachesSilver` says that every landed run gets its coverage key into silver, so
that the heals end without a hole, or is overtaken in its interval, or taken out
of bronze. It starts with the first build, for a heal does not create the table.
It has no fairness on watermark builds: only the scheduled heal (weak fairness
on its steps: Airflow runs it daily and a running task keeps going), with the
assumption that crashes stop at some time. The window spans all runs; with a
window shorter than the time between extract and load a run is out of reach of
Mode A, as the documentation of census says.

`ReachesSilver` asks for a row of the run's own (`HasOwnRow`), and this is not
for convenience: there is a hole that no heal can close. When every row of a run
is also in a run of another interval that is as new, the guard of the catch-up
build leaves them out, or the deduplication may, and the run's coverage key never
appears. Every later heal of the pipeline then raises
(silver_catchup_ops.py:311-316), and `verify` exits with 1, where
silver-catchup.md:144 says that the count should be 0. No data is missing from
silver; without the condition TLC finds the heal that fails for ever.

Both objects of a committed manifest are the approved plan
(`ManifestAsPlanned`), with crashes between them and retries under one id.

### 4.4 Publication

`publication` has three calls at a time, two seconds, one artifact and
`--keep 1`. Three workers are a holder, one that lost the lease and goes on, and
a third in between; two runs are needed for `Latest` and for prune to remove
anything. A worker may extract any second, also one that another is extracting.
One bound: once two of the three share a run, no lease lapses and no worker dies
any more (`CalmAfterClash`); the proofs have no such bound.

Runs are named by the second, or by the caller, and the check and the removal of
the prefix come before the lease (runner.py:180-195). So an extract of the same
second removes the artifacts that the holder of the lease has written; the holder
then passes its fence and publishes a manifest of files that are gone, although
publication-contract.md:153 calls such callers serialized by the lease. The run
`publication_doc` finds this with two workers and one second
(`SerializedByLease`), in a counterexample where the lease is never lost; the
property leaves out commits after it was.

`publication` says how far this goes. A run that has not `clashed` is never
committed over another's artifacts (`CommittedIsWhole`), its commit is not changed
(`CommittedStays`), and a part of it, or an uncommitted one, does not land
(`BronzeIsWhole`), whoever else clashes over other runs. Every clash counts, but
only what really overlaps does: an extract that was refused or fenced, or that
died, leaves its second free for others. The newest rows are not pruned however
old the plan, clash or not (`NewestStays`). The window between the fence and the
put, which publication-contract.md accepts, shows in `LoadsLatest`: without the
exception for `late` commits it is false; and a run that has clashed may be
removed after a load has looked, and be committed again.

### 4.5 LakeApproval

`lake_approval` has three commands, a task and two operators: a dead run whose
claim or `.claim` file is released, one that is about to claim, and one more
that comes in between are needed for the swap of a claim ever to matter. An
operator acts on a run that is dead when looked at. Two commands do not write
at once (`WritersExclude`), one caller at most ends well and the record stays
consumed (`OneUse`), the second try of a consume is enough against the run's
own heartbeat (`ConflictIsForeign`), and the store refines the contract
(`KeepsApprovalContract`), which includes that the TTL gates claims and not
consumes. There is no fairness: nothing is promised that somebody must do.

`evicted` records the runs whose claim was released while they lived, which
`WritersExclude` excepts. It happens although no operator releases a living run:
a release takes back the claim it finds, and between two releases of one dead
run another run may claim.

Airflow tasks do not claim, so that a task and a command may write under the
same approval. `OneUse` makes one of them fail, after its write. A task whose
approval expires while it writes also fails at its consume: the TTL is lifted
by the claim, which it does not make.

### 4.6 BronzeRebuild

`bronze_rebuild` has two workers, the intervals {1} and {1, 2} (which overlap,
so that the two lock modes differ) with up to one run each, and three deployments:
migrations and recreates with exact leases and a catalog that swaps its pointer,
loads and recreates with overlapping leases and the version hint, loads and
migrations with overlapping leases and a catalog that swaps. Every worker runs
these commands several times over; two workers reach every interleaving of a
rebuild with a load or a migration, of two rebuilds and of two that land, and
any number in any deployment is proved.

The dataset lock does not keep what publication-contract.md:122-124 says of it,
that an exclusive holder "Blocks new shared acquires". An exclusive row whose
deadline passes while a reader's transaction waits for the advisory lock is left
by that reader's pruning (`NOW()`) and passed over by its reading (the client's
clock); the reader is let in beside it, and `refresh` renews the row by its token
(dataset_lock_postgres.py:459-488), or the fence of a transaction that began
before the deadline. Then a writer and a reader are in the lock, both live. The
history variable `crowded` holds the workers that this has happened to, and the
properties say what is kept apart from it: readers and a writer exclude each
other (`ReadersOrWriter`); a recreate that ends well, while its lock was kept
and no reader joined it, has all it planned in the table (`RebuildIsWhole`);
with a catalog that swaps its pointer, what was reported as landed by a worker
that was in the lock beside no writer stays until a purge (`LoadedStays`). A
partition is stamped as validated by nobody whose interval went to another
worker (`StampedByHolder`, without exception). Deadlock is checked.

The model does not keep how long ago a deadline passed, so that any overdue entry
may be `late`: it leaves entries that the code's pruning leaves and, where an
entry was overdue before the transaction began, some that it does not. What
holds in the model holds for fewer of them.

Assumed: no deadline of the dataset lock passes between a fence and the end of
what it guards (the residual window that publication-contract.md accepts; the
lease has no such assumption), nobody force-releases the dataset lock of a
living process, and the clocks of the database and its clients agree.

`bronze_rebuild_doc`: "Parallel loads on different intervals remain concurrent"
(publication-contract.md:118-119), but with the default catalog two loads that
hold leases of different intervals can both pass the comparison of
`commit_table`, and the second version hint hides the first commit. Rows that
were reported as loaded, and whose partition is stamped, are gone
(`CommitsAreKept`).

Met while modelling, and no violation of a property: a recreate whose selection
is empty drops the table and succeeds; what was committed to raw during its wait
is purged without being rebuilt (the code warns of it); the deadline of the
exclusive row is computed before the wait, so a long wait may end with a lock
that is born expired and lost at the first fence; the intent slot is single, so
the second waiting writer displaces the first one's intent.

### 4.7 ApprovedCommands

`commands` takes the commands in families, since what matters is a preview and a
call of the same or of a related command, and five pairs of environments for the
server that previews and the shell that calls: none set, two different lakes,
split roots against a lake, a cloud lake, and a layout and a split that are
refused; two more pairs for the Airflow tasks. Two calls are enough: a plan is
used, and used again. `MCApprovedCommands` lists the flags: each command in its
plain form and with each single change that may matter (another lake, another
spelling of the pipeline or the instant, a `--set` more, a flag that no approval
covers). What is written under an approval is what was shown (`EffectIsApproved`);
where approvals are required nothing is written without one, and an approval is
for one write (`RequiredMeansApproved`); a shown list is the one that the command
builds (`SpelledOutPlansAgree`).

The exceptions in these properties are what the code leaves open:

- `migrate_dry_run` shows a list without `--ingestion` (mcp/dry_run/migrate.py:75),
  which `det migrate` always binds (migrate_prune.py:48, 141-157): its plan never
  matches, although approval.py:423 says "MCP dry-run and CLI must use the same
  lists". Its schema is not resolved either.
- Where only `--interval-start` is given, the tools of migrate, prune and
  catch-up leave `-e` out, which the command fills in.
- The Airflow prune task builds its list without the lake and without overrides
  (det_env.py:228-233), and it checks an approval without claiming it.
- `silver-catchup heal --lake-path B` compares in B, but the list it shows binds
  the lake of the environment (catchup.py:214).
- `--set` is sorted in the list, but the last assignment of a key wins
  (config/load.py:16-38).
- `--project-dir` and `--project-root` need no approval, yet choose another tree;
  a YAML file outside the tree is known by its stem; `DET_GCP_PROJECT` and
  `DET_DBT_TARGET` are not bound.
- The approval of prune binds the interval and `--keep`, not the runs that are
  deleted; a command that fails between the claim and the work keeps its approval
  claimed.
- `init-source`, `runs-materialize`, `lock-init` and the extract and dbt DAGs have no
  gate; the clear-lock DAG passes no approval and is refused where one is required.

There is no liveness: nothing is promised of commands.

### 4.8 HttpFetch

`http_fetch` fixes one interval over two years, so that the year of its last
instant and that of its end differ, three attempts, two pages, two
rotations of the credential; each kind of plugin, and processes with each kind of store, with and without
settings, with a TTL of 0, 1 and 2. The data directory holds nothing half
fetched where that can be told, after a success and between attempts, unless the
extract fails with an error nobody handles, and then it is no artifact
(`NothingHalfFetched`); an extract that ends has the newest file of each year that
the index it was served lists, or every page (`ExtractIsComplete`); a refresh on a 401 survives a rotation
(`RotationIsSurvived`); a lookup pinned to the environment gets nothing else
(`PinnedToEnvironment`); a replaced credential is in use for less than two TTLs
(`CredentialsAge`: the process cache lies on that of the file or under that of
the settings); and every extract ends (`ExtractEnds`), under weak fairness of
its steps, which is that a process that works goes on.

Where the code and its comments part: `http_get` says that a refresh makes a
rotation not fail the run (http.py:169-180), but the runner works under its
settings (runner.py:134), and `invalidate_secret` (secrets.py:80-83) does not
reach their cache; `RotationIsSurvived` excepts them. "Object-store dests download
to a local tempfile, verify, then upload so a truncated gzip is never PUT"
(http.py:251-252) is true of what the server truncates. When the upload itself
raises (http.py:399-404), leaving the `with` closes the object, which may store
the part that was written, and no handler removes it; nor does one remove what an
error of the local disk or a `zlib.error` from a damaged stream leaves (the latter
is not among what `_http_get_file_local` handles, so it is not retried). Such a
file stays until the runner removes the prefix; these are the exceptions in
`NothingHalfFetched`. An empty gzip passes `verify_gzip`. `http_get` checks neither
the length nor the content of an index (http.py:195-199), and an index without a
table is one of no files (storm_events.py:278-280): the extract then succeeds with
nothing. `ExtractIsComplete` is therefore about the index that was served. A
refresh on the last attempt is never tried.

Not modelled: an `_unlink` that fails (swallowed, http.py:112-116), `check_url`, how long a retry waits, the content of pages, rows
that shift between pages while they are fetched.

### 4.9 OpsTable

`ops_table` has two attempts of one pipeline, a command and the DAG as
materialisers, a window of two days (the code's is seven), a tick of the clock
for every 24 hours; three deployments: no table yet in the lake's catalog; an
older, unpartitioned table there, which BigQuery reads; a table with columns of
another type in an outside catalog. Two attempts on two days are enough for a
day to be replaced while the other is kept, and for a duplicate. A failed release
and an unread receipt are looked at one at a time (the constraint `OneTrouble`):
the first concerns what a row says, the second whether it is there. The proofs
have no such bound.

The table has each attempt once (`OneRowPerAttempt`). After a materialisation that
ran alone the daily model agrees with the summary of the receipts that it read
(`DailyAgreesWithSummary`), and the table has every readable receipt of the days
that it was asked for (`TableSettles`): up to today by a command, of yesterday by
the DAG. `RowsStay` says what may take the row of a receipt that is still there,
overlaps included: only a materialisation that could not read the receipt, one
that had scanned the log before the receipt was written while another added it,
or one that overwrites a version hint which has moved since it was compared.
`VerdictIsTrue` says what a passing SLO test means for the attempts themselves.

No liveness is stated. Nothing in the code makes a receipt arrive: the DAG
takes only yesterday (det_ops_dag.py), so what ended after its run is left to a
`runs-materialize` that somebody has to run within the window.

Three things that the code does and a reader of the table should know, each an
exception of a property, and each needed (TLC refutes the property without it):

- a receipt that cannot be read for a moment (receipts.py:339-343, an `OSError`)
  is not counted as skipped, and the replacement of its day takes its row away,
  with no other materialisation near;
- an older scan that commits last takes away what a newer one has added: the
  commit is compared with the table that was loaded after the scan;
- when the body of an attempt breaks a contract and the release of its lease fails
  (lease/__init__.py:228-233), the receipt has the second error, `unknown`, and
  `assert_ops_slo_fail_closed` passes. The receipt still says `error`.

Not modelled: durations and percentiles, the counts of rows, intervals in
receipts, limits of listings, stale SLO seeds, malformed receipts. Registering
and writing are one step each. Seen in the code: `_metadata_uri_for_table` prefers
an old version hint after a move to an outside catalog; `iceberg-register`
leaves a table that exists; inside `det run` a release of the lease that fails is
in no receipt.

## 5. Proofs

`LakeLeaseProofs` proves for every set of attempts and versions, with and
without the version in the reply, that `LakeLease` keeps its type and each of
the properties of 4.1, and that it implements `LeaseContract`
(`ImplementsContract`). Assumed are only `ConstantsAssumption`: `NoOne` is no
attempt, `NoVersion` no version, `VersionInReply` a Boolean.

The argument is the inductive invariant `IInv`. `SwapsOwnLockOnly` alone is not
inductive for two reasons. A stealer's `ver` is a version it looked up, not one
it wrote, so one must know that a swap it lets through replaces the lease whose
token the stealer read (`StealersSawLapsed`, second part) and that this lease
had lapsed (first part). And a token could come back if an attempt that is
still acquiring had its token in the lock: `TokensAreSpent`. `ExpiredHasLapsed`
ties the deadline to its history. `FreshVersion` gives the step cases: a put
never produces a version that a handle remembers.

`SilverCatchupProofs` proves the safety of 4.3 for all intervals, keys, seconds,
windows, lookbacks and sessions. `ManifestAsPlanned` needs no assumption: its
strengthening `ManifestInv` says that a marker lies only over an equal sidecar
and that a plan is fixed while one of its objects exists. Nor does
`NeverDemotes`, with the exception of 4.3: a watermark build that reaches back to
a row finds every newer row of its key that bronze shows (`WatermarkTakesNewest`).
The other two are about transactional bronze and rest on `BronzeInv`: what dbt
sees of a run is all of it or nothing (`BronzeIsWhole`), and what silver has taken
is in bronze unless it was lost (`SilverIsInBronze`). A run that is reflected
stays so while it is in bronze, or if there is no lookback (`ReflectedStays`).
With the lemma `BuildsTakeWholeRuns` this gives `CoverageIsComplete`, and
`HealInv` (what a session has listed has landed and is there or lost, what it has
verified is covered) gives `HealedIsReflected`.

`PublicationProofs` proves the properties of 4.4 (those of `publication`) for any
workers, artifacts, number of runs and `--keep` of at least one, without an
assumption about who extracts what. `NewestStays` holds since every planned
removal has a newer run beside it (`NewerIsKept`), which holds when the plan is
made and is kept by removals of other prunes since each of those has a newer one
too. The invariant `Inv` of the others adds to the properties that a run at
which two are at work has clashed (`OwnRuns`) and what a call relies on at each
place if its run has not: the run it extracts is not committed (`Uncommitted`),
its artifacts are in place (`Gathered`), the run it loads is committed and the
manifest it stamps is the current one (`Resolved`). The lemma `Touches` says that
such a run is changed only by the call that extracts it, `GetsToWork` that nobody
gets to work at it but by a check, which notices a clash, and `Others` that a call
leaves the others' state alone. The lease enters only `LoadsLatest`
(`PicksLatest`, `InTime`): the rest holds whoever has it.

`ApprovalProofs` proves all of 4.5 for any number of commands, tasks and
operators; assumed is only that these are different actors. Its invariant
`FreshSeen` says that what an actor has read under a version that is still
current is what the record is, so that every swap is a step of the contract
(`ContractKept`). `Holders` (a command that has claimed is the record's holder
until it is evicted) gives `WritersCorrect`; the `.claim` file is not used, and
the exclusion does not rest on it. For `ConflictIsForeign`, `Tries` says that
once a consume has lost, the only touch that can have beaten it has ended.

It also proves the three invariants of 4.7 for any environments, flags and commands.
`RequiredMeansApproved` rests on `WriteInv`: a command at work under the approval
has checked or claimed it and nobody has used it up since (`AtWork`), so that it
is consumed by one write (`OneWrite`). `EffectIsApproved` rests on the argument
list. `ApprovalMeaning` reads from a list, and from nothing else, what a command
with that list does (`Means`). A plan or call is `Honest` if its effect is what
its list means; the lemmas `...Says` give for each builder the values of each
flag in the list, the lemmas `...Does` read the effect back from them, and
`CallHonest` and `DryRunHonest` collect the commands and the tools. A command is
admitted where its list is the approved one, so `EffectInv` keeps: the approval's
effect is what its list means (`ShownInv`), and so is the effect of a command at
work under it (`AtWorkInv`) and of what was written (`WrittenInv`). `WriteInv` is
needed there too: a new plan is only shown while nothing was written under an
approval. Assumed are `ScenesAssumption` (commands in use are commands, and have
lines) and `LinesAssumption`: lines are what the parser lets through, with
required options there and a switch passed only to turn it on.

`SpelledOutPlansAgree` compares two lists that are built from different lines, by
a tool and by the command. `ToolPlan` keeps what a tool showed as what it shows
for those flags (`ShownBy`, for every tool but migrate's, whose list never
agrees); the rest is the lemma `ListsAgree`. Lines that mean the same are `Alike`
once the builders have normalised the pipeline (`PlansAlike`), their windows are
the same where the end is given (`PlansWindow`), and they choose the same lake
(`SameSettings`), so every part of the two lists is the same. The plan of a
catch-up adds the manifest and its digest; that the command passed those of the
plan follows from reading them back from the list (`CatchupPlanSays`).

`LakeDatasetLockProofs` proves the safety of 4.2, for any shared and exclusive
callers, waiting or not. `ReadersOrWriter` is not inductive: a body that is about
to be written must keep the two apart too (`AllApart`), which it does since it
was computed from one that did. `HoldersKeepOthers` is proved as it stands: what
a holder writes back was read after its version was looked up, and while that
version is current only deadlines have passed, and a new attempt's token is in no
body. A holder is in the body it renews (`OwnEntry`), hence `FencePassesHolder`.

`BronzeRebuildProofs` proves the properties of `bronze_rebuild` for any workers,
intervals, numbers of runs, scopes and deployments, under the assumptions of 4.6
that are built into the model. `ReadersExclude` rests on `Sides`, which counts
expired entries too: where a writer and readers are in the lock together, all of
them are crowded. `HolderStamps` rests on `OustedLost`: who was ousted is no
longer in its interval's row, so that its fence or renewal fails. For the other
two, `Locked` says that whoever is in the lock is at a place of the code where it
holds it (`InPlace`), and that past a fence the entry is live (`Protected`); so a
recreate that is past its fence is alone with the table or crowded, and so is
whoever is past a fence beside it (`AloneInLock`).
`TableIsLoaded` then ties each writer's `base` to the table while it is fresh
(`NothingIsLost`), and `Rebuilding` accounts for every planned run: in the table,
in hand, or still to do (`RebuildsAreWhole`).

`OpsTableProofs` proves the safety of 4.9 for any attempts, materialisers,
windows, policies and deployments. Assumed are that hours and windows are
numbers and `None` is none of the values it stands in for (`ReceiptConstants`,
`OpsConstants`, `NoTableAssumption`), and that a table which is there before
the first materialisation is empty. `DataInv` says that the rows of a table,
and those a job has in hand, are attempts that were written, none twice:
`OneRowPerAttempt` and, since `classify_error` names a contract error only for
what is one, `VerdictIsTrue` follow from it (`AttemptsOnce`,
`PassingTestsAreTrue`). What one materialisation does to
the table is proved with what it relies on while no other has moved the pointer
(`Relies`): its base is the table, the days behind it are as it scanned them,
what the table has was in the log when it scanned, and its window is what its kind
is asked for (`Span`). That is lost the moment another points the catalog
elsewhere, which is why `DailyAgreesWithSummary` and `TableSettles` (`EndsSettled`)
are about those that were `alone`. For a commit among several, `FreshInv` says
that the base of a job is the table as long as the job is `fresh`; what it then
takes away was not in its scan (`WhatIsReadStays`).

`HttpFetchProofs` proves the safety of 4.8 for any plugins, listings, intervals,
stores and time-to-lives. `FetchConstants` assumes numbers, finite listings,
intervals that start before they end, and that of a year's matching files no two
have the same revision. `DeploymentConstants` assumes of the stores a process
starts with that no credential stands twice, that none is one that an operator
will set later, and that those in the file and the vault can be used. `DirInv` says what an extract
at each step has still to fetch (`JobSound`: files and artifacts together are
what is wanted) and gives `NothingHalfFetched` and `ExtractIsComplete`; lemmas say what a
reply leaves once it is checked (`AttemptChecks`) and once it is uploaded
(`AttemptLeaves`). `StoresInv`
keeps the stores apart through rotations, and `CacheInv` dates each entry of the
caches: the file cache was read before what it holds was replaced, an entry
above it was made while the file cache was young, so the two lives add up
(`CredentialsAge`); an entry marked as the environment's has what the
environment holds (`PinnedToEnvironment`). `RotationIsSurvived` adds `RefreshInv`:
after `clear_secret_cache` no entry is left of the names that the plugin
looks up, so the refreshed headers are those of the stores, and stay so until a
rotation, which `replaced` records.

Model-checked only: all liveness, which is out of the provers' reach
(`WriterGetsIn`, `ReachesSilver`, `ExtractEnds`).

## 6. Not modelled

- Configuration, discovery, naming, coercion and SQL types: conversions of single
  values and static validation, with no state over time.
- Scaffolding: files generated from templates (its commands and their approval
  are in `ApprovedCommands`).
- The read-only part of the MCP server (inspection, catalogue, sampling, resources) and the
  listing commands: they change nothing that a process shares.
- Maintenance of Iceberg (snapshot expiry, orphan removal by Spark) and schema evolution of
  bronze tables; that of the ops table is in `OpsTable`.
- The external tables of BigQuery during a catch-up build, and heartbeat triage.
- Filesystem bronze in `Publication`: prune counts partitions there that were never
  committed among those to keep (prune.py:260).
- Durations: backoffs, intervals between heartbeats and TTLs are the moment at
  which something happens, nothing more.
