# A formal model of devpi-guardian

devpi-guardian puts a quarantine between a devpi server and its users: an artifact
(a file, identified by its SHA-256) is downloadable only after it was analysed and
allowed. This directory holds TLA+ modules translated from `src/devpi_guardian/`,
TLC configurations that check them on small instances, and TLAPS proofs.

## 1. The system

| Component | State it keeps | Operations | What makes it correct |
|---|---|---|---|
| Artifact and verdict store (`verdicts/store.py`, `sql/`) | SQLite tables `artifacts`, `release_mappings`, `verdicts`, `evidence`, `manual_overrides`, `baseline_overrides` | discover, claim, recover, record verdict, mark error, override, revoke, rescan, baseline mark; each is one `BEGIN IMMEDIATE` transaction with its audit event | a result comes from the newest claim; no row that the readers refuse; nothing is served while its analysis is pending |
| Decision rule and reader (`verdicts/invariants.py`, `reader.py`) | none (one read transaction) | effective decision, allowed releases, administrative listings | a row the state machine cannot produce is refused; override before verdict; cooldown |
| Audit log (`audit/`) | table `audit_events`, hash chained, and a cache of the verified prefix | append in the caller's transaction, verify | append only, gap free, tampering is noticed |
| Discovery queue (`worker/discovery.py`) | SQLite table `discovery_jobs` in a second database | discover, claim, recover, complete, fail, retry | leases are fenced, capacity and retry budget hold, damaged rows do not block |
| Discovery consumer (`worker/discovery_consumer.py`) | the claim in memory | `run_once`: claim, download, publish, register, complete | a completed job is a registered artifact |
| Upload capture (`worker/upload.py`) | none | publish, then register | publish before discover |
| Quarantine (`worker/quarantine.py`) | content addressed files below a root directory | persist, get_verified, crash recovery | only complete verified bytes get a name, never overwritten |
| Analysis worker (`worker/pipeline.py`, `runtime.py`, `analysis.py`, `preparer.py`) | the claim in memory | `run_once`, polling thread, coordinator | every artifact gets a result or an error; no result without a lease |
| Baselines (`baseline/`) | none | choose the older release to compare with, compare | only what is allowed at that moment; nothing new goes unreported; a lookup that failed is not a first release |
| Analyzers (`analyzers/`) and analysis engine (`worker/analysis.py`) | none | F7 (baseline), F8 (install surface), F9 (source distribution and wheel), one report | a step that fails is an error of the report, never silence |
| Policy (`policy/engine.py`) | `PolicyConfig` | validate the report, decide, score | accepts what the engine makes; a failure never becomes ALLOW |
| Enforcement (`enforcement/`, `plugin.py`) | block counters | gate of file requests, filter of the simple index | only what was allowed during the request is sent or listed; every refusal is counted |
| Migration, activation, start (`verdicts/db.py`, `activation.py`, `legacy_inventory.py`, `plugin.py`) | `schema_migrations`, `guardian_activation`, directories, attributes of devpi's registry | migrate, take the inventory, activate, publish or roll back | fail closed: one marker, nothing shown before it, nothing left by a failed start |
| Administration (`admin/`) | none | HTTP and CLI front ends of the store, policy simulation, health | a simulation gives the recorded decision |
| devpi source and routes, privacy filter | none | URL grammar, download, redaction of texts | their own tests |

The components meet in three stores without a common transaction: the verdict
database, the job database and the quarantine directory. Behaviours that are hard to
test: leases that expire while their holder goes on, completions that arrive late or
twice, a stop of the process between two stores, times that are read before a
transaction begins, decisions that are read before they are used, and start-up and
migration of several processes at once. `PROJECT.json` lists each such place by line
under `hazards`.

## 2. Modules

```
FencedQueue             what both work tables promise
  <- VerdictStore       (refinement ImplementsFencedQueue)   proofs: VerdictStoreProofs
  <- DiscoveryQueue     (refinement ImplementsFencedQueue)   proofs: DiscoveryProofs
DownloadGate            VerdictStore with requests and listings proofs: DownloadGateProofs
ArtifactIntake          extends DiscoveryQueue by the consumer, upload capture,
                        quarantine and registration             proofs: DiscoveryProofs
Quarantine              one digest, system call by system call  proofs: QuarantineProofs
AnalysisPipeline        the worker threads between the job table and the store
                                                                proofs: PipelineProofs
AuditChain              the hash chained table below the store  proofs: AuditChainProofs
Startup                 migration, activation, publication      proofs: StartupProofs
Analyzers <- Policy <- Lineage
                        what is found, how it is decided, and what decisions on
                        decisions add up to                     proofs: LineageProofs
MC*                     instances for TLC
```

The two queue modules say in detail what a claim and its token are worth; the intake,
the pipeline and the lineage build on that and keep of the stores only what their callers
see. The quarantine appears in the intake as one step (a publication happens or not);
`Quarantine` shows what that step consists of and that it is safe to repeat. The gate
works on the whole of `VerdictStore`.

**FencedQueue** is the abstract specification: items are queued, leased to one holder
under a token that is never reused, and settled only by the newest lease. Items in
`Losable` may be settled without a lease: in the job table those are the rows that damage
has made invalid.

**VerdictStore** has one action per method of `SQLiteArtifactStore`. A raised exception
rolls the transaction back, so every error path is the negation of a guard.
`state`, `lease`, `lastError`, `cooldown` are columns of `artifacts`; `verdict` and
`override` are the current rows of their tables; `trail` is the newest audit event of
each artifact. `claims` is not in the database: it is the set of all claims that
workers were ever given, any of which may be completed at any time, also twice and
also after a crash of its owner. `settler` is a history variable. Times are numbers;
digests are numbers because `claim_next` orders by digest.

**DiscoveryQueue** has one action per method of `FileDiscoverySink`. The walk of
`claim_next` (scrub of a batch behind a cursor, then the ready rows in order, stopping
after a number of invalid rows) is modelled with its batch sizes as constants.
`Damage` lets a row become invalid from outside the program.

**ArtifactIntake** splits `DiscoveryConsumer.run_once` and
`PrivateUploadConnector.capture` at every point where another process can act or this
one can stop. A listing of the simple index reads decisions first and queues jobs
later. `Crash` clears what is in memory. The names of the job table keep their meaning, so
that the operations of the composition have names of their own where both have one
(`EndClaim` calls `Finish` or `Retry`, `IntakeSpec` is the specification).

**Quarantine** looks at one digest, because calls for different digests share nothing but
the directory `.incoming`, where staging names are fresh uuids. Each system call of
`persist`, `get_verified` and `_recover_crash_link` that changes or observes a name is an
action of its own, and every caller may be anywhere in its call. A file is identified
with the staging name it was created under; its link count is the number of its names.
The file system is external, with these assumptions: `link`, `unlink` and `open` are
atomic; `fsync` of a file keeps its bytes and `fsync` of a directory keeps its entries,
but not the path that leads to it; after a loss of power an entry that changed since then is
found in either state, and unsynced bytes are garbage. The directories that `_open_leaf` makes
for a digest are not fsynced in their own parents by the code, so they are `"new"` in `path`
until the file system happens to write them back (`WriteBack`), and a loss of power before
that may take them, and the object with them. The attempts of
`_open_verified_fd` at an object with two links are one action: it may be taken while the
second link is still there, which is an open whose 0.1 s have passed.

**AnalysisPipeline** runs the polling loop of `runtime.py` in several processes, one
thread each, over the files of one release: `recover_expired_claims` of both tables,
one discovery job, else one analysis. `pc` follows a thread through
`WorkerCoordinator.run_once` and through `run_once` of both workers, so that leases can end and other
threads can act between any two calls. An exception anywhere ends the cycle
(`GuardianWorkerThread.thread_run` catches it) and leaves rows as they are: `Interrupted`. A thread
holds one claim at a time, so the identity of the thread stands for the token; that a
token outlives its lease without harm is the matter of the queue modules. The clock is
replaced by the end of leases and of retry delays. A lease whose holder is at work
ends only by a fault (`MaxFaults`), with two exceptions that no number bounds: the analysis of
a file in `Slow` and the download of a file in `Lagging` may take longer than the five minutes
of their lease every time, as neither has a deadline of its own and no lease is renewed.
Pending jobs are claimed in the order of `available_at`, which `before` keeps.
`compared` is a history variable.

**AuditChain** is the table `audit_events`: `rows` as committed, `work` as the open
transaction sees them. `AppendEvent` is `append_in_transaction` with `_verified_prefix`, whose
cache (`cache`, one per writer object) is usable on the same connection, under the same
`PRAGMA schema_version`, and if the row with its number still has its hash. The store opens a connection
for every transaction, so its cache helps only within one; the model also lets a
connection be used again, which the writer allows and its tests do. A digest is
abstracted to what it commits to (the sequence of numbered events up to its row), which
is the assumption that SHA-256 has no collisions. `Tamper` changes rows behind the
program's back and restores the triggers, which the schema version tells; changes of the
database file that SQLite does not count as a change of the schema are not modelled.
What the events say is in `VerdictStore`.

**DownloadGate** adds sessions to `VerdictStore`: a request arrives, `as_of` is taken, the
reader opens its transaction (after any number of store operations), the answer is produced
(again after any number). `Resolve` is `resolve_release_sha256` on what the URL and devpi's
records say; `counts` is the bounded table of `InMemoryBlockMetricRecorder`; `allowedSeen`
is a history variable that collects what was allowed at any instant since the arrival.

**Startup** follows `devpiserver_pyramid_configure` in several processes on one database:
`migrate` with its reads outside a transaction and one commit per version, the audit check,
Pyramid's actions, then the activation with its inventory, the directories, the worker, and the
publication of the attributes one by one. An exception may hit at any step (`Raise`, with
what the handlers undo), a process may be killed at any step (`Stop`), and the write lock dies
with its holder.
`version` and `catalog` are separate because the code reads them separately.

**Analyzers** are the findings of F7, F8 and F9 as functions of two archives. An archive
is what `extract_artifact` and the parsers return: files by path, with the sites (calls, dynamic
imports, install commands, flows of a credential) that `scan_calls` sees in each, lines of
`.pth` files, commands, metadata. What the parsers see in a file is a constant, as is what the
name of a path ends in (`Suffix`) and what else it is used for (`Uses`): a `.py` script of a wheel is
looked at both as Python and as a script. The three analyzers do not look for the same
names: an import of `os` is a finding of F8 only (install_surface.py:54, against diff.py:127 and
sdist_wheel.py:523-530), and the model keeps the difference. **Policy** is
`PolicyConfig`, `_validate_report` and `assess`. Whether a report stays within the limits of
`_validate_report` on numbers, lengths and texts (`WithinLimits`) is chosen freely when the report is
made, because nothing in `analysis.py` guarantees it. **Lineage** lets workers select a baseline,
examine and record, step by step, while administrators override, revoke, rescan and remove
baselines; every step of an analysis may fail (`Faults`), a counterpart may have no bytes in
the quarantine and is then passed over, and `RecordError` is any other
exception, a refused report among them. It also has `simulate_policy`, which decides again on the stored evidence.
`approved` and `faulty` are history variables.

The `Faulty variant` operators are plausible bugs, kept beside the definition they
vary; the model never uses them. Each property of each passing run is violated when
the variant that `PROJECT.json` names replaces its definition.

## 3. Runs

| Run | Question | Bounds |
|---|---|---|
| `store` | validity of rows, the fence, pending artifacts, audit trail, baseline marks, and that the table implements `FencedQueue` | one artifact, two workers, two claims, clock 0..2. One artifact is enough for these properties because no operation but `ClaimNext` (order) and `RecoverExpiredClaims` (several at once) relates two artifacts; two claims are a stale and a fresh one; time 2 lets a lease or an override expire and another one follow |
| `discovery_queue` | capacity, retry budget, damaged rows, and that the table implements `FencedQueue` | three jobs of which one can be damaged, capacity 2, batches of 1 and 2, at most 1 invalid row per walk: the smallest values at which cursor, batch and limit all take effect |
| `intake` | completed means registered means published, a job ends by the hand of its last consumer | two links to one file, two consumers, capacity 1, crashes anywhere |
| `quarantine` | what a name leads to, durability, healing of crash links, no live publisher is disturbed | three callers and three staging files: two publishers of one digest and a third caller that heals; crashes and losses of power anywhere |
| `quarantine_durability` | expected violation, see section 6 | two callers |
| `quarantine_path` | expected violation, see section 6 | two callers |
| `pipeline` | jobs end, artifacts get a result, the files of a release are compared | a source distribution, and a wheel whose download and whose analysis may outlast their leases every time and which may be uploaded; two threads, two attempts per job, one fault |
| `pipeline_drain` | expected violation, see section 6 | two files, one thread, no fault |
| `audit` | the cached prefix decides like a scan, commits verify, a noted head proves the history | two writers, two connections, three rows, two changes by strangers: a cache over two rows, damage before and behind its end, and another writer's row in the place of one that was rolled back |
| `gate` | what is sent or listed was allowed during the request, filter and tween agree, refusals are counted | one artifact, one session at a time, two arrivals, clock 0..1, one claim, one series of metrics: the decision may change between any two steps of a request, and the second refusal meets a full table |
| `startup` | activation before publication, an empty devpi, clean failures, refusals only for cause | two processes that belong to different devpi servers, one of them a replica, three starts, a schema of two versions of which any may exist already (also a newer one), every content of devpi |
| `lineage` | nothing is laundered, failures block, engine, policy and simulation agree | three releases of a wheel and a source distribution of the second (a chain of two baselines, two tiers and a pair), one worker, two events (administrator commands, faults, reports beyond the limits), eight combinations of contents; 791838 states |

The bounds are the constants `MaxTime` and `MaxClaims` (stores), `MaxArrivals` and
`MaxSeries` (gate; the second is a parameter of the code), `MaxFaults` (pipeline), `MaxEvents`
(lineage), `MaxStarts` (start), `MaxRows` and `MaxTampering` (audit) and the number of
staging files (quarantine); no other counter grows. `CHECK_DEADLOCK FALSE` is set where the
clock, the claims, the rows, the starts, the events or the staging files run out, after which
nothing needs to happen. The runs of the pipeline check for deadlock: its threads poll for ever.

Where the type invariant of a module says no more than the ranges of its variables, it is left
to the theorem of section 4 and the runs do without it; in `DiscoveryQueue`, `ArtifactIntake` and
`AnalysisPipeline` it relates states to leases and claims, and is checked as well as proved.

**Fairness** is assumed in `AnalysisPipeline` only, and weak: a thread keeps taking steps
(`while True` in `GuardianWorkerThread.thread_run`, which catches whatever a cycle raises), a retry
delay ends, and a lease ends when nobody works under it or its work is slow (time passes).
Nothing is assumed about whether a download succeeds, what an
analysis results in, or that listings and uploads ever happen. `JobsEnd` rests on the
retry budget and on the order by `available_at`, and says nothing of the jobs in `Lagging`: a
download that always outlasts its lease is recovered whatever its attempts are, and repeated without
end. It does not keep the other jobs from their turn. `ArtifactsSettle` rests on the recovery at
the start of each cycle and has an exception, because the code has it (`HeldUp`): an artifact
whose analysis always outlasts its lease is recovered, is the oldest again and is claimed before all
younger ones, and a job that is repeated without end may be there to be run whenever a
thread might analyse.

## 4. Proofs

`VerdictStoreProofs` proves, for every set of artifacts, workers and releases and
every bound, from `ConstantsAssumption` alone:

* `TypeCorrect`, and on it `StoreStaysValid`: each operation maps valid rows to valid
  rows, so `PersistedStateValid` is inductive together with the types;
  `PendingIsBlocked` is a consequence.
* `FenceHolds`: `ResultFromNewestClaim` is not inductive. The
  invariant `FenceInv` adds that tokens are bounded by `issued` and unique, and that the
  token of the lease in force is the largest of the claims on its artifact.
  `NewestClaimSettles` follows. (That no two claims hold one lease needs no such argument: each is
  compared with the same row. What could go wrong is the granting, and it shows in who settles.)
* `AuditIsTruthful`: a step does one of four things to an artifact (`StepCases`); the
  strengthening `TrailInv` says that an event of this instant states the decision in
  force, which excludes that two equal events in a row hide a change.
* `OptOutSticks`: only `SetBaselineEligibility` changes the mark.
* `StoreImplementsQueue`: each operation is `Add`, `Lease`, `Requeue`, `Settle`,
  `Reopen` or a stutter of `FencedQueue` under the mapping at the end of `VerdictStore`.

`QuarantineProofs` proves, for every set of callers and of files, that crashes and losses
of power included

* `ObjectIsVerified`, `WinnerReturns`, `StagingStays`, `CrashesHeal`: the four invariants of
  the run, and `NoOverwrite`, `PublicationIsDurable`: its two action properties. The second says
  that what `persist` returned is lost only together with new directories that lead to it, not that
  it is never lost: `quarantine_path` shows that it may be.
* None of them is inductive. `IInv` adds: a file that was never created has no name and no
  owner (`FreshFiles`); publishers that have not linked yet own distinct names that are
  there (`OwnStaging`); a file is verified and synced before it can be linked
  (`VerifiedFiles`); what a caller has learnt of the object is still true at its
  later steps, such as that a healer past its unlink finds a single link (`SeenObject`);
  a returned `persist` leaves an object kept in its directory (`Promised`); and a call that
  runs alone never reaches the point of refusal (`AloneSees`). Each part has its own lemma
  with one step per action.

`AuditChainProofs` proves for any number of rows

* `CacheIsExact` and `OnlySoundCommits`. The invariant behind them (`CacheIsSound`): whoever
  verified a prefix under the present schema version has seen a valid table, and only
  appends have happened since.
* `HeadIsEvidence`: two valid chains with one head are equal (`HeadDeterminesChain`). This
  is an induction over rows; it is done with the least number principle (`LeastNumber`,
  from the well-foundedness of the naturals), applied to the distance from the end at which two
  chains differ.

`StartupProofs` proves, for every number of processes, servers and schema versions

* `TypeCorrect`, `RefusalHasCause`, `ActivationIsClean`, `FailureIsClean` and
  `ActivatedBeforePublication`: the four invariants of the run. None is inductive alone.
  The strengthenings say that the holder of the write lock is the process between inventory and
  marker (`LockInv`), that a version and its objects commit together and that a process believes in
  the present version unless it was overtaken (`SchemaInv`), that whoever is behind the activation
  has the marker of its own server (`MarkerInv`), and what is shown or open at each point of the
  start (`ShownInv`).

`DownloadGateProofs` extends `VerdictStoreProofs`: a step of the gate leaves the store alone, a
step of the store is one of `VerdictStore`, so what is proved there holds here.

* `ServedDuringRequest`: the invariant (`GateInv`) says of a session that has its time but not yet its
  read transaction that whatever the reader would now allow at that time was seen to be allowed.
  `LateAnswer` is the reason: an operation that commits after the time was taken changes the
  answer for that time only to what holds at its commit.
* `FilterAgreesWithTween`: from `PersistedStateValid`, the two fields by which filter and tween
  decide cannot disagree.
* `RefusalsAreCounted`: the invariant (`CountsInv`) adds that the series are finitely many, without
  which a sum over them says nothing. The sum itself (`MapThenSumSet`) takes the members of a set in
  an unknown order; that any one of them may be taken out first (`TotalTake`), that the total exists
  (`RunningExists`) and is the same over any larger set (`RunningUnique`) are shown by the least set
  that would be a counterexample, as finite sets are well founded under inclusion (`LeastSet`).

`LineageProofs` proves, whatever the parsers see in a file, for every set of artifacts,
workers, versions and tags and every legal configuration of the policy

* `NothingIsLaundered`. First `NothingNew`: a comparison without findings means that all
  evidence of the newer archive is evidence of the older one, in the same file. Then
  `AllowedAddsNothing`: with `require_baseline`, a report that is decided ALLOW belongs to an
  analysis that had a baseline, and none of whose steps failed. The inductive invariant
  (`Lineages`) carries "approved at some time" along a chain of verdicts: from an
  override or an ALLOW to the baseline a worker has chosen, to its report, to the next ALLOW.
  `NoLaundering` alone is not inductive, because the baseline may be revoked between
  its selection and the verdict.
* `ReportsWithinLimitsAccepted` (of the reports that are within the limits of the policy it
  refuses none), `FaultsNeverAllow` and `SimulationIsFaithful`, from one invariant:
  reports, under way and recorded, are valid, have an error in their evidence exactly where a step
  failed (`Coherent`), and show every fault of their analysis as a failed step (`Sound`).
* `ScoreFitsDecision`: `final_score` agrees with the decision at both ends of its range.

`DiscoveryProofs` proves, for every capacity, batch size, retry budget and bound of the clock, any
number of jobs, consumers and damaged rows

* `TypeCorrect`, `FinishedStays` and `CapacityHolds`, from what one step can do to one job
  (`JobSteps`: it is kept, queued, claimed, dropped, expired or returned). Only `discover_many` looks
  at the limit; all other steps leave the set of active jobs as it is or smaller.
* `AttemptsAreBounded`: every attempt of a pending job from the `max_attempts`-th on ended with an
  expired lease, so that `retry` never repeats a job whose attempts are used up, also after
  leases have expired. It does not bound the attempts, because the code does not: recovery
  ignores them. `RetryBudget` speaks of pending jobs and is not inductive. `BudgetInv` also
  bounds the attempts of a job in processing, which may be at its last one, and `JobFence` says
  that the claim in force carries the attempt its row counts, by which `retry` decides.
* `QueueAdvances`: a consequence of the types. The oldest of the ready rows is among those that the
  walk of `claim_next` examines; if the walk rejects no row, this one is valid, and it is claimed
  (`WalkAdvances`). It needs that some row is the oldest by time, creation and number
  (`OldestJob`) and that at most one job is claimable (`OneClaimable`).
* `JobsImplementQueue`: each operation is a step or a stutter of `FencedQueue`. A walk that puts away
  damaged rows and claims another is one step of the abstract queue, which is why `Lease` and
  `Requeue` carry a set of lost items.
* `IntakeRunsQueue`: the composition is a behaviour of the table, so that what is proved above holds
  in it. `CompletionMeansRegistration` and `PublishBeforeDiscover` follow from
  `IntakeInv`: a consumer before `discover_artifact` has published its target, one before
  `complete` has registered it, and an upload under way is published (`Progress`).
  `LastConsumerEnds` follows from `JobFence`: whoever ends a job holds the newest claim on it, and
  with it the attempt by which `retry` decides.

`PipelineProofs` proves, for every release, any number of threads, attempts and faults

* `TypeCorrect`, for the three groups of columns separately, with the fact that a thread at work
  has a file and an analysis an artifact (`AtWork`).
* `LastAnalysisCompares`. `ReleaseIsCompared` is not inductive: two analyses may be prepared before
  either has recorded its verdict. The invariant `NotBothBlind` counts as blind both a verdict that no
  comparison stands behind and an analysis in hand that was given no counterpart, and says that a
  source distribution and a wheel are never both blind. `BlindSteps` is the reason: a file
  becomes blind only by a preparation that finds no file of the other kind, and a blind file is
  registered, so that it would have been found.

What the proofs assume of the constants is in the `ASSUME` of each module. Two of these assumptions
are finiteness, which counting needs: of the job identifiers (digests of fixed width, of which
there are finitely many), for the capacity, and of the files of one release, for their order.

Only model-checked: liveness (`JobsEnd`, `ArtifactsSettle`), which is beyond the prover. Every invariant
and every action property of the runs that pass, and both refinements, are theorems.

## 5. Plan

1. `VerdictStore`, `FencedQueue`, `Quarantine`, `AuditChain` with proofs (done).
2. `DiscoveryQueue`, `ArtifactIntake`, `AnalysisPipeline` (done).
3. `Startup`, `DownloadGate`, `Analyzers`, `Policy`, `Lineage` with proofs (done).
4. `DiscoveryProofs`, `PipelineProofs` and the sum of `BlocksAreCounted` (done).

## 6. Divergences found

* `quarantine_durability`: README.md:103-105 promises that file and directories are fsynced
  before metadata is written. `get_verified` returns an object as soon as it finds a
  single sound link, which may be between the `unlink` and the directory `fsync` of its
  publisher; the consumer registers it, and a loss of power then takes the bytes. What
  holds is `PublicationLasts`, for what `persist` itself returned.
* `quarantine_path`: the same lines promise that the required parent directories are
  fsynced. `_open_or_create_dir` makes `objects`, `sha256` and the two directories of a digest
  and nothing fsyncs the directory they are made in; `persist` fsyncs `.incoming` and the leaf. A
  loss of power after `persist` returned may take a new directory with the object in it.
  `PublicationLasts` makes this exception and no other.
* `pipeline_drain`: runtime.py:34 says that discovery is drained first so that the files of
  a release are there before analysis. `run_once` of the discovery worker is idle also
  while a job waits for its retry delay or is processed elsewhere, so analysis begins
  without them. What holds is `ReleaseIsCompared`: the analysis that prepares last sees
  the other file.

Without a run of its own: the F3/F4 design (line 368) asks that each audit event carry the previous
and the new effective decision, and `discover_artifact` writes DENY for both when it maps a further
release to an already allowed artifact (store.py:556). `AuditMatchesDecision` exempts this event and
says why.

## 7. Not modelled

* What the parsers do: the flow analysis of `astutil.py`, member checks of archives, metadata
  formats. They are pure functions of bytes with corpora of their own; the models take their
  results as constants (`Sites`, `Tree`, `Parsed`, `Lines`, `Contents`). Places, texts and
  origins of findings. The limits of the policy on numbers, lengths and texts are one
  choice for each report.
* The URL grammar of `devpi_paths.py` and the download of `devpi_source.py`: no state; the intake
  knows whether a link is accepted and a download succeeds, the gate knows whether a path is
  canonical and routed.
* The privacy filter: regular expressions over texts.
* HTTP and command line transport of the administration, its authentication, listings, paging and
  health reports: they keep no state and their commands are the actions of the store.
* In the quarantine the checks of owner, mode and path components and errors of the kernel, which
  end a call as `Discard` or a crash does; links to quarantined files that another program makes.
* In the pipeline a release with conflicting metadata (an analysis error); start-up and shutdown
  of its threads, which `Startup` has as one resource.
* In the start the bounds on the size of the inventory, and file permissions.

`PROJECT.json` lists every part of the repository with its status, and under `hazards` the
reason where no property covers one.
