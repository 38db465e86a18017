# Verification of the RVC Training Orchestrator

A Manager (FastAPI, PostgreSQL, object storage, Redis/RQ, MLflow) hands training
jobs to Workers that poll it over HTTP; users drive it through a web dashboard.
This directory holds TLA+ modules of the parts whose correctness depends on
orderings that tests hardly reach, TLC configurations that check them on small
instances, and TLAPS proofs for every instance.

## Inventory

| part | state | operations | hard behaviour |
|---|---|---|---|
| Assignment ledger (`services/workers.py`, `routers/workers.py`, `routers/experiments.py`) | Job, JobAttempt, JobLease, Worker rows | register, revoke, re-enrol, rotate, create, cancel, retry, claim, heartbeat, renew, report, recover | several polling loops per Worker, lease expiry against late reports, recovery run by every poll, stale ORM rows |
| Telemetry ingestion (`routers/workers.py`, worker `telemetry.py`) | IngestBatch, log and metric rows, watermarks of an attempt, the Worker's spool | ingest logs, metrics, artifacts; spool, flush, dead-letter | duplicated and late batches, batches after the terminal report |
| Artifact uploads (`routers/artifacts.py`, `services/artifacts.py`, `services/artifact_cleanup.py`, `storage.py`, worker `uploads.py`) | upload sessions, Artifact rows, staging and canonical objects | initialize, write, seal, finalize, expire, clean up | row and object change in separate steps, owners lose their tokens in between |
| Samples (`routers/artifacts.py`, `services/samples.py`) | Sample rows of an attempt | register, complete the job | minutes of verification between the look at the claim and the write |
| MLflow outbox (`services/mlflow.py`) | MlflowSyncEvent rows, MLflow's runs | enqueue, claim, project, retry | crashes and lost answers after MLflow acted, slow projections |
| Dataset uploads (`routers/datasets.py`, staging cleanup of `services/maintenance.py`) | Dataset rows, upload generations, staging and canonical objects | init, write, finalize, abort, delete, clean up | background publication against deletion, commits with an unknown outcome |
| Dataset ingestion (`dataset_ingestion.py`) | none | validate, collect, deduplicate | the order of archive members |
| Test sets (`routers/test_sets.py`) | TestSet, items, upload sessions, objects, manifest | upload items, finalize the set, delete | finalizing the set against uploads in flight and half-finished deletions |
| Model registry (`services/model_registry.py`, the registry panel of the dashboard) | registry, entries, operations; the snapshot and the intent of each dashboard | read, register, promote, revoke, reconcile | reads in several statements, long hashing between check and write, requests sent twice |
| Maintenance (`routers/maintenance.py`, `maintenance_queue.py`, `maintenance_tasks.py`, `services/maintenance.py`, `rq_worker.py`) | MaintenanceTaskRun rows, RQ jobs | request, enqueue, quarantine, run, retry, reconcile | the table and the queue are two stores; each Redis call may fail after it took effect; slow attempts beside their successors |
| Users and sessions (`routers/users.py`, `routers/auth.py`, `bootstrap.py`) | User, AdminUserOperation, revoked tokens, the lifecycle fence | log in and out, create, change access, reset password, bootstrap | the last administrator, sessions that outlive a change |
| Worker credentials (`credentials.py`, `token_rotation.py`) | credential file, pending file | prepare, activate, abort, finish | crash between any two writes |
| Secret projection (`infra/runtime/manager-secrets-init.py`) | generations and the link `current` of each volume | stage, switch, roll back, remove | a failing call or a kill between any two of them, over volumes that survive |
| Storage adoption (`services/storage_adoption.py`) | storage namespaces of upload sessions, the runs of the command | list, lock, verify, bind, report | several operators and storages, maintenance meanwhile |
| Worker agent (`agent.py`, `stages.py`) | the active job, cancel and shutdown events | heartbeat, lease, deadline and execution loops | concurrent loops, late answers, shutdown |
| Worker inputs and publication (`client.py`, `datasets.py`, `test_sets.py`, `uploads.py`) | files of a workspace, upload sessions | download, verify, unpack, upload, register | timeouts behind a publication, retries that meet their own first attempt |
| Worker subprocesses (`process.py`, `native_runner.py`) | process groups, output pumps | start, watch, stop, drain | one of several commands fails, children that outlive their leader |
| Native RVC computation, the rest of the dashboard, migrations, installers | files, presentation, schemas | | see "Not modelled" |

Calls go from dashboards and Workers to the Manager over HTTP. The Manager's
requests and background loops meet in PostgreSQL rows (under row locks, versions
and tokens), in the object store, which no transaction covers, and in Redis.

## Plan

All steps are done: every module below exists, is checked by a run and stands for
the code that `PROJECT.json` maps it to.

1. `JobStatus`, `JobLease`, `JobQueue`, `JobLeaseProofs`: the assignment ledger
   and what it promises.
2. `Telemetry`, `TelemetryProofs`, and behind it `MlflowOutbox`: the way of a metric.
3. `TokenRotation`, `Users`, `SecretProjection`, `CredentialsProofs`: credentials of
   Workers, of people and of the Manager's own services.
4. `ArtifactUpload`, `Samples` over `SampleLedger`, `StorageAdoption`,
   `ArtifactUploadProofs`: upload sessions against the object store, what a completed
   job leaves to judge its model by, and the binding of old sessions to their storage.
5. `MaintenanceRuns`, `MaintenanceRunsProofs`: the ledger of maintenance runs, the
   RQ queue and its worker across crashes.
6. `DatasetUpload` over `DatasetIngestion`, `DatasetUploadProofs`: generations,
   objects, deletion against use.
7. `TestSets`, `ModelRegistry`, `ModelReviewProofs`: what models are judged by, and
   their promotion.
8. `WorkerAgent` over `WorkerProcess`, `WorkerInputs` and `JobStatus`,
   `WorkerAgentProofs`: the Worker.

Every invariant and action property of the passing runs is proved for all values of the
constants, `NoOrphanAssignment` and `AgentNotBlocked` under the condition under which
their run checks them. What is left are the liveness properties (see "Beyond the
prover").

## The runs at a glance

| run | module over | kind |
|---|---|---|
| `race`, `jobs` | `JobLease`, `JobStatus`, `JobQueue` | safety, refinement (`jobs`), liveness (`race`) |
| `telemetry` | `Telemetry` and `MlflowOutbox` | safety, liveness |
| `credentials` | `TokenRotation`, `Users` and `SecretProjection` | safety, liveness |
| `artifacts` | `ArtifactUpload`, `StorageAdoption`, and `Samples` against `SampleLedger` | safety, refinement, liveness |
| `maintenance` | `MaintenanceRuns` | safety, liveness |
| `datasets` | `DatasetUpload` over `DatasetIngestion` | safety, reference, liveness |
| `model_review` | `TestSets` and `ModelRegistry` | safety |
| `agent` | `WorkerAgent` over `WorkerProcess` and `WorkerInputs` | safety, liveness |
| `orphan`, `rotation_blocked`, `maintenance_poison` | one each | disagreements between code and comments |

`telemetry`, `credentials`, `artifacts` and `model_review` look at two or three parts of
which none changes what another reads: their MC modules have a variable `part`, chosen
at the start, and what was not chosen stays in its initial state, where it has no fair
step to take. Operators marked "(mutant)" are wrong variants of the definition that
follows them; each shows that a property notices such a mistake. They are used by
no specification.

## The assignment ledger

`JobStatus` is the vocabulary of `packages/contracts/.../status.py` with its
complete transition table.

`JobLease` is the ledger. Each table is a group of function-valued variables,
one per column that a handler reads or writes: `jobStatus`, `jobWorker`,
`jobAttempt`, `attemptCount`, `cancelRequested`, `damaged` (jobs);
`attemptStatus`, `attemptWorker`, `finished` (job_attempts); `activeLeases`,
`leaseLeft` (job_leases); `workerStatus`, `currentJob`, `enabled`, `rotating`,
`offlineLeft` (workers). An attempt is a pair of its job and its number. `held`
is what the Worker processes know.

One action is one committed transaction. A handler locks its rows, reads them
again and commits under the `row_version` of Job and Worker, so its last
transaction is atomic. A heartbeat or a claim is several transactions:
`require_worker` loads the caller's Worker row into the session, then
`recover_expired_leases` commits, then the body commits. `stage`, `seen` and
`stale` describe a request in between; `Slow` says which requests other
transactions may overtake between authentication and recovery. For requests
outside `Slow`, authentication and recovery are one step (`Poll`).

Time is not a number: `leaseLeft` and `offlineLeft` count ticks down to 0, which
means expired and offline, and tick independently of each other, so every ratio
of `lease_seconds` to `worker_offline_seconds` is covered.

Left out: capability matching, dataset and test set verification of a claim and
the artifact checks of a "completed" report, which only refuse, and its sample checks,
which `Samples` has;
priorities, since any queued job may be granted; epochs and telemetry counts,
which belong to the telemetry module; audit rows and MLflow events.

`JobQueue` is what the ledger promises: each job is run by at most one Worker,
each Worker runs at most one job, every run has a new number.
`ImplementsJobQueue` maps the ledger to it.

### Runs

| run | instance | shows |
|---|---|---|
| `race` | two Workers, one job, three loops, one of them overtaken, rotation and revocation, fairness | the ledger is consistent in every interleaving, rotation and assignment exclude each other, expired leases are fences, cancellation wins, and a lease that its Worker lost track of is taken back |
| `jobs` | the complete transition table, two jobs, one that may be found damaged, one Worker, retry | assignments are cleared on both sides, and the queue and its limit on runs are implemented with all nineteen statuses |
| `orphan` | one request overtaken | a disagreement with a comment, below |

`race` and `orphan` contract the stages between "assigned" and the terminal statuses
to one; the ledger only distinguishes queued, executing and terminal statuses,
and `jobs` has the full table. Windows of one tick distinguish live and expired.
Two attempts make requeueing and its limit happen.

### Fairness

`race` assumes that lease and offline clocks advance, that the Manager finishes
a request it recovered for, and, as strong fairness, that again and again a poll
takes every recoverable lease. `SKIP LOCKED` may hide a row from one pass, but no
transaction holds a row for ever. Every Worker's loop polls at its interval. No
fairness is assumed of reports, renewals or users.

### Disagreement

`orphan`: `recover_expired_leases` reads the Worker with `session.get`, which
returns the copy that `require_worker` loaded at the start of the request. When
the Worker's other loop claimed a job after that, the pass closes the attempt and
leaves `current_job_id` set. The Worker row then blocks heartbeats, claims and
revocation.

The same copy also holds an older `last_heartbeat_at`, so the lease can be taken
back inside the offline window.

A heartbeat does not look at `is_active` after it locked the row either: one that
was authenticated before a revocation writes its status afterwards, and the
revoked Worker is not "draining".

### Proofs (`JobLeaseProofs`)

The assumptions are `ConstantsAssumption` (sizes are naturals, sets are included
in each other as they should), `TableAssumption` (executing statuses may fail
and be cancelled, and never go back to the queue) and `OwnerAssumption` (no Worker is
called like one of the queue's other owners). They say nothing about the
number of jobs, Workers and requests or about which requests are overtaken.

* `TypeCorrect`: `Spec => []TypeOK`.
* `LedgerIsConsistent`: `Spec => []LedgerConsistent`. The inductive invariant
  `LedgerInv` adds that a job's current attempt is its own and that attempts with
  a number above the count have left no trace: without the latter a claim could
  meet an attempt that is already closed. `CloseAttemptLedger`,
  `CloseAbandonedLedger`, `GrantLedger`, `WaitingJobsLedger` and
  `IdleWorkerLedger` say what each kind of write does to the ledger; every action
  is one of them or leaves the ledger's columns alone.
* `FinishedAttemptsAreFrozen`, `ExpiredLeasesAreFenced`: both follow from
  `AttemptLifeCycle`, which says what a step can do to one attempt.
* `LedgerImplementsJobQueue`: `Spec => ImplementsJobQueue`. A job belongs to the
  Worker in its row while it executes (`OwnerOf`). `LedgerInv` is what the mapping
  needs: an executing job has a lease, so its Worker's row names it (`RunningOwner`),
  so a Worker whose row is empty, which is all that `claim_job` looks at, owns no other
  job (`IdleOwnsNothing`). `QueueStart`, `QueueStopOne`, `QueueRecovery`, `QueueDrop`
  and `QueueEnter` map each kind of write to a step of the queue.
* `CancellationWins`: `Spec => CancelWins`.
* `PromptWorkersAreBacked`: a Worker whose row names a job has a lease on it, unless one
  of its own requests is overtaken between its authentication and its recovery
  (`Prompt`). Requests of other Workers may be as slow as they like: a recovery reads
  their rows again, only its own it has from the authentication (`BackedRecovery`). Its
  inductive part is that only an overtaken request holds a copy of its row
  (`PromptBacked`). `NoOrphansWithoutSlowRequests` is the special case
  `Slow = {} => (Spec => []NoOrphanAssignment)`; the run `orphan` shows that the condition
  is needed.
* `RunsAreBounded`: a job runs at most `lease_recovery_max_attempts` times (once if that
  is 0) and once more for each manual retry. The invariant `WithinBudget` adds that a job
  in the queue has a run left. It does not rest on the bounds of the model:
  `MaxAttempts` may be larger than every budget.

`LedgerConsistent` includes `PendingMeansIdle`: rotation and assignment exclude each
other. Its inductive part is that the row of a Worker with a pending rotation names no
job (`RotatingIdle`).

`TypeOK` and `FinishedAttemptFrozen` are proved and therefore not part of a run.
Only model-checked: `AbandonedLeaseReleased` (liveness).

## Telemetry

`Telemetry` has both sides. The Worker (`telemetry.py`, `agent.py`): `next` are
the two sequence counters of a session, `pending` and `dead` the spool's
directories, `sealed` the counts that `watermarks` fixes, `cursor` the rest of a
running `flush`. The Manager (`routers/workers.py`): `stored` are log and metric
rows by attempt and sequence, `ingested` the rows of `IngestBatch`, `watermark`
the counts of an attempt's terminal report, `epoch` is `job.current_epoch`, `barred`
says why the Manager refuses everything of this Worker: it was revoked, or the job's
configuration no longer validates. The ledger appears as the `phase` of an attempt.

A batch has as many entries as its source gives it (`Entries`): they take consecutive
sequences and are stored or refused together. `Answer` has the checks in the order of the
code: Worker and configuration, claim and watermark, replay by key and fingerprint, the
values of the metrics (422), a row of another event (409), the write fence (503, the only
one that is sent again). Everything else makes a dead letter, also below the terminal
counts.

`Record` publishes one record; it may fail before or after `os.replace`
(`FailureModes`). `Send` is a request with the Manager's transaction, `Receive`
its answer. The answer can be lost (`Lose`), the Worker can give up on a request
that is processed later (`TimeOut`, `Arrive`), and the process can die (`Crash`).
A flush visits records in the order of their file names, which are hashes: the
constant `Before` puts younger attempts first, the order in which a record that
has to wait holds up older ones.

The run `telemetry` has two attempts under fairness: the first records a training metric
and a snapshot of two metrics, the second a training metric, which may be one that the job
does not allow. One thing goes wrong (`MaxUpsets`): a write fails, before or after it
published the record, a request is processed late, the metric is bad, the Worker is revoked,
or the configuration is damaged; answers are lost and the process dies as often as it
likes. The run
shows that no record is lost and no row stored beyond the terminal counts, also when
two records share a sequence number; that old metrics leave the epoch alone; that a
sealed session has no record beyond its counts but one whose write was reported as
failed; and that everything the counts cover is stored in the end, or lies in a dead
letter that one of three reasons explains: it was refused while the Worker was revoked or
the configuration damaged, for a metric the job does not allow, or because another event
was given one of its rows or its key (`Excused`). All three happen in the run. The
watermark is therefore a bound on what is stored, not a promise that it is all there;
the dead letters are kept on the Worker and nothing sends them again.

Two records of the first attempt (`MaxRecords`) are enough for two to meet in one row, two
attempts for a late batch to meet a successor and for a cancelled successor to hold up the
records behind it. The run does not check for deadlock: when
the job is finished and the spool is empty nothing is left to do.

Fairness: loops flush again and again (`StartFlush`), not
every request and answer is lost (strong fairness of `Send` and `Receive`), an
attempt without a session expires and is recovered, and an agent told to cancel
seals and reports or gives up. No fairness is assumed of events, failures or
users.

`SealCoversSpool` allows one record at the counts themselves: `_write_record` reports a
failure also when only the directory sync failed, though `watermarks` promises durable
counts. Such a record is there and will be delivered,
its sequence number is given out again, and if it was the last one the terminal
report is refused because its counts are below an ingested sequence.

Proofs (`TelemetryProofs`), from `TelemetryAssumption` alone, for any number of
attempts and events and any order of delivery:

* `RecordsAreNeverLost`: `Spec => []NothingLost`. A record is removed on the
  answer "duplicate", which is about key and fingerprint and not about the rows, so
  `DeliveryInv` ties them: an ingested batch has all its rows (`IngestedStored`), and
  whatever is on its way was recorded (`InFlightRecorded`).
* `StoredRowsAreImmutable`: `Spec => StoredImmutable`, by `IngestEffect`.
* `WatermarksAreFinal`: `Spec => []WatermarkCoversStored`, with
  `ReportedHasCounts`.
* `SealsCoverTheSpool`: `Spec => []SealCoversSpool`. The counts of a session are taken
  at once (`SealedTogether`), no counter moves afterwards (`SealedAtNext`), and no
  record lies beyond the next sequence of its counter (`RecordsBelowNext`).
* `EpochStaysCurrent`: `Spec => []EpochIsCurrent`. An attempt starts when those before
  it have ended (`EarlierEnded`), so the active one is the latest (`ActiveIsCurrent`)
  and a batch of any other, however late, leaves the epoch alone.

`StoredImmutable` is proved and not part of the run. Only model-checked:
`ReportedIsComplete` (liveness).

### MLflow outbox

`MlflowOutbox` has the events of one job (`event`: status, whether the backoff is
over, whether the claim is stale), the API processes with the REST request each is
about to make (`proc`), and MLflow (`experiment`, `runs`, `found`), which is external
and modelled by what the adapter asks of it. `Enqueue` is the insert beside the
ledger change; `ClaimOldest` the background loop with its recovery of stale claims,
`ClaimNamed` a request that projects its own event; `EnsureExperiment`, `FindRun`,
`CreateRun`, `ReadTags`, `LogBatch`, `UpdateRun` and `SetTag` the requests of a
projection, each answered, or failed after MLflow acted on it, or failed and still on its
way (`late`): then MLflow acts on it at any time, or never (`ActsLate`). A process that
dies may leave its request there too. `MarkSynced` and `MarkRetry` are the end of a
projection. `replicas` are the processes that run.

In `telemetry` a batch of two requests and a terminal event are projected by one process
with two faults or by two with one (`FaultBound`). `ProjectedOnce`: with one process the
job has one run and nothing is logged twice, but for the effect of an *overtaken* request,
one that MLflow acts on after the adapter gave it up at its timeout and a retry has looked
for the run or for the marker in vain. `Overtaken` is exactly that: at the moment the
request is acted on, the run or the marker is there already, or a process has just not
found it and is about to create it. Nothing in the adapter can tell such a request from one
that was lost, and `docs/DEVELOPMENT_HISTORY.md:2751-2755` leaves the physical duplicate
open. `EventsProjected`: every event is synced in the end and
MLflow has all of it. Fairness: the loop of every process runs, requests end, time
passes; that MLflow answers again is the bound on faults.

Proof (`TelemetryProofs`): `BatchesAreProjectedOnce`, `OutboxSpec => []ProjectedOnce`, for
any events, requests per event and faults. The marker tag of a part is written with its
data (`LoggedIsMarked`), a search finds a run when there is one (`RunsShape`), and a
process that is alone logs only what it has seen unmarked and creates a run only when
there is none (`OneWriter`, with `NotForestalled` for the request it is about to make); a
late request that is not overtaken finds neither run nor
marker, and nobody about to write them. Only model-checked: `EventsProjected` (liveness).

What the properties leave open. With two processes nothing stops each from
creating a run, and a projection that outlives the stale window may log a batch that
its successor logs too, so `ProjectedOnce` is about one. A retry of a job projects
into the same run, in no order between attempts: a FAILED of an older attempt that
was held back may be written over the FINISHED of a newer one
(`docs/ARCHITECTURE.md:199-203` calls the run a projection of the terminal state).

## Token rotation

`TokenRotation` has the Manager's Worker row (`active`, `token`, `pend`,
`expired`, `busy`) and one Worker process that walks through
`reconcile_worker_token_rotation`, `rotate_worker_token` and
`_complete_pending_rotation` (`pc`; `mode` says whether it is the agent, a
rotation, a re-enrolment or a rotation that is about to end). The requests that
change the row travel through `net`: `Send`, the Manager's `Handle`, `Receive`,
and `TimeOut`, after which the request may still be handled when `Late` is TRUE.
Requests that only read are one step. `Operation`, `AfterOk` and `AfterFailure`
are the control flow of the three functions around these requests; `Saved` and
`AfterSave` the one around the credential file. A failing write may or may not
have replaced the file. `Crash` also stands for any step that ends the process
with an error.

| run | instance | shows |
|---|---|---|
| `credentials` (`part` = "worker") | four rotations, enrolments or revocations, four failures, no late requests, fairness | the token that the Manager accepts is always in the credential file, no rotation stays pending beside a running agent, and a Worker comes up again |
| `rotation_blocked` | late requests | a late prepare blocks the running agent |

Four failures allow a lost prepare, a lost activation, a failing write and a
crash in one history. Fairness: the process takes its steps, the Manager handles
requests, the service manager restarts the service (strong, since an operator's
commands use the file in between), jobs end, and the Worker's clock passes an
expiry in the end. `MaxFaults` makes failures finite; after the last one the
Worker must come up by itself.

The disagreement: the reconciliation after an unanswered prepare looks once. A
prepare that commits after that leaves a rotation pending whose token nobody has;
`claim_job` refuses the Worker from then on, also after the rotation expired,
until the service is restarted.

Proofs (`CredentialsProofs`), from `RotationAssumption` alone, for any number of
identifiers and faults, and with or without late requests: `TypeCorrect` and
`TokenIsKnown`, `Spec => []TokenKnown`. An activation may take effect long after
its sender died, so the invariant `RotationInv` speaks about every request in `net`: an
activation that the Manager would accept is for the token in the file
(`ActivationInv`), a request for a new token names an identifier that nobody has
seen (`FreshInv`, from `DrawnInv`), and where the process is about to drop a token
from the file, the Manager neither has it nor can get it (`DropInv`). `SavedKeeps`
is the heart: whatever a save writes, also one that failed half way, still opens
the row. The proof has one lemma per action.

`AgentIsNotBlocked` is `~Late => (Spec => []AgentNotBlocked)`; the run `rotation_blocked`
shows that it is false with late requests. Without them the only request on its way is
the one that the process waits for (`NetInv`), and a pending rotation is the one in the
file or the one that is being staged, and none is pending where the process takes the
rotation to be over (`OverInv`): before it runs, it has read the Manager's answer
that nothing is pending, or aborted or activated what was.

Only model-checked: `ComesUp` (liveness).

## Users and sessions

`Users` has the rows of people (`users`: role, disabled, `row_version`,
`token_version`, password), the first administrator (`booted`), the lifecycle fence,
which is the row lock of `AdminBootstrapState`, the stored operations under
idempotency keys (`ops`), the requests being handled (`req`) and the access tokens
that were not revoked (`tokens`). `Login` reads the row and verifies the password in
a thread, `IssueToken` uses what was read. An administrative request is
`ReceiveRequest` (authentication and the first look for a stored answer),
`LifecycleFence` (the lock and the second look at the actor), `Decide` (the checks and
the write, not yet visible), `Commit` or `Abort`. A history field of each token keeps
the password and the role that its login read.

`AuthorityIsCurrent` has two parts: an enabled administrator remains, also when two
demote each other at once, and a token that is accepted was issued for the present
password and role, also when a reset overtook the login. In `credentials`
(`part` = "users") two accounts, two requests at a time, two passwords and two logins
let two administrators act on each other while one of them logs in. `AskedHere`
leaves out bodies that differ from another one in a field no check looks at.

Proof (`CredentialsProofs`): `AuthorityStaysCurrent`, `UsersSpec => []AuthorityIsCurrent`, for
any number of accounts, requests, keys and logins; the only assumption is that
`Nothing` is not a request. Whoever is past the fence holds it, so at most one
request has decided (`UsersInv`); its actor was an enabled administrator behind the fence
and nobody else writes, so it still is one when the request commits. An update that
removes an administrator is never about its own actor: the actor remains, and the
proof needs neither the count of administrators nor the version that was shown. For
tokens the invariant says that versions in tokens and in logins under way are not
ahead of the row, and that equal versions mean equal password and role; `Written`
raises the version whenever one of the two changes (`WrittenIsLater`).

## Secret projection

`SecretProjection` is `manager-secrets-init`, which runs before every start of the
Manager. Of each profile's volume it has the generation directories (`dirs`), those that
are complete (`whole`), the link that the services read through (`link`) and temporary
links (`temps`). A run reads all sources once (`ReadSources`), then sweeps and stages each
volume (`SweepOne`, `MakeGeneration`, `WriteGeneration`), switches one link after the other
(`LinkTemporary`, `ReplaceCurrent`, `SyncRoot`) and removes the previous generations
(`RemoveOne`). `ActivationFails` starts the rollback, which goes through the same steps
backwards (`undoing`); `RollbackFails` and `RemovalFails` are its other ways out;
`KillContainer` may come between any two steps and leaves the volumes as they are.
`before` and `blind` are history.

In `credentials` (`part` = "secrets") three profiles, three runs and two failing calls
show that `current` always names a whole generation (`CurrentIsWhole`) and that a run
which failed and rolled back has left every profile as it was, while one that reports
success has switched all (`AllOrNothing`). Three profiles let a rollback pass one
that was switched, one that was half switched and one that was not; the third run sweeps
what the first two left. Left out: what the secrets contain, power loss (each step's
fsync is part of it), and two containers at once, which the service definition excludes.

Proofs (`CredentialsProofs`), from `ProjectionAssumption` alone, for any number of
profiles, runs and failures: `CurrentStaysWhole` and `ProjectionIsAllOrNothing`. The
invariant `ProjectionInv` says how far a switch or a rollback has travelled: exactly the
profiles behind it name the new generation and the others the one they had (`TravelOK`),
both of which are whole (`EndsWhole`) until the step that removes one of them
(`RemovalOK`).

What the properties leave open. Both exclude `blind`: a link was replaced, the fsync
after it failed, and then reading the link back failed as well. The rollback skips that
profile, and the generation that its link names is discarded. A run whose removal of
previous generations fails (`outcome` = "unretired") reports failure and stops the start,
although every link names the new generation and some previous ones are gone. That
disagrees with `docs/DEPLOYMENT.md:231-232`, where a failure stops the start and keeps the
previous generation; `AllOrNothing` says nothing of that outcome.

## Artifact uploads

`ArtifactUpload` has the columns of `ArtifactUploadSession` (`status`, the write,
finalization and cleanup tokens, and the cleanup columns as phases `sclean` and
`cclean`), the two objects of every session (`staging`, `canonical`) and the
requests and reconciler passes that work on them (`pc`, `ses`, `todo`). A session
belongs to one attempt; whether it is for another artifact or a new generation of
an expired one makes no difference to it. A token is known by its owner.

A local upload is `ClaimWrite`, `Write`, `Seal`; an upload to S3 is `S3Put`, which
the Manager does not see. A finalization is `ClaimFinalization`, `Verify`,
`Recheck`, `Publish` (the heartbeat), `PutCanonical` (the write), `Commit`; `Leave`
is `_transition_owned_finalizing`. A cleanup pass is `ClaimCleanup`, then for each
object `Delete` and `Record` or `DeleteFails`, then `Release`. Deadlines and
windows are Booleans and phases that pass at any moment. A stopped heartbeat of a
request that still runs, a crash and a storage error are faults, bounded by
`MaxFaults`.

Two assumptions about time are guards here. A local write is renamed before its
deadline (`anyio.fail_after`). A presigned PUT, and a publish that outlives its token,
may end after the URL expired, after the session ended and after the first delete, and
bring the object back (`routers/artifacts.py:1315-1318`), but not after the
confirmation grace (`artifact_cleanup_confirmation_grace_seconds`) that follows the
recorded first delete: `S3Put` stops at phase "confirm", and `ConfirmationDue` waits for
publishers at their put. Nothing in the code bounds either of them; `config.py:301-335`
only demands that the grace before the first delete covers the lifetime of a URL. A write
that ends still later leaves an object that no pass looks at, and the proofs and the run
say nothing of it. What is modelled is what the second delete is for: with one delete
instead of two (`RecordedAtOnce`) `CleanedMeansGone` is violated.

Left out: wrong keys and namespaces, and spool files; the byte
quota, which is counted like the sessions; the commit between the two updates of
`_mark_verification_failure`.

| run | instance | shows |
|---|---|---|
| `artifacts` (`part` = "uploads") | two sessions, two processes, quota one, one fault, both backends, fairness | completed artifacts keep their bytes, recorded cleanup happened, storage stays within the quota, and cleanup ends |

Two processes are a late finalizer and its replacement, a late cleaner and its
replacement, or one of each; two sessions with a quota of one make a reservation
wait for a cleanup. The run does not check for deadlock: when every session is
cleaned nothing is left to do. Fairness: some request or pass goes on, clocks
advance, and the reconciler of some replica takes a candidate; the reconciler runs
in every replica at its interval. No fairness is assumed of Workers.

What the properties leave open: when a second finalization of a session fails
before its publish, `_mark_verification_failure` (`routers/artifacts.py:1267`) records
the canonical cleanup as complete. A first one that was recovered as stale may have
published. The object then stays without a row and outside the quota, and no pass
looks at it (`docs/ARCHITECTURE.md:117` has failed canonical objects deleted twice).

Two remarks on what holds. After a crash between publish and commit the next
finalizer meets its predecessor's object: the publish never replaces one, so the
session fails though the bytes were right. A session that is pending or in
finalization when its attempt ends is never looked at again (only a request of the
Worker, or a local PUT, expires it), so `CleanedUp` is about ended sessions.

Proofs (`ArtifactUploadProofs`), from `UploadAssumption` alone, for any number of
sessions, processes and faults and any quota: `TypeCorrect`, `ArtifactsHaveBytes`,
`CleanedObjectsAreGone`, `EndsAreFinal`, `BytesAreStable`, `QuotaBoundsStorage`.
The inductive invariant is `UploadInv`. A pass deletes long after it looked at the
row, so `CleanerInv` says that what it was told to delete belongs to a session that
ended without an artifact (`CanonicalEnding`) or ended (staging), and that a delete that is
recorded as the last one happened after nobody could write the object any more
(`CanonicalClosed`, `StagingClosed`); `PublisherInv` says that
an owner at the commit has its object, `WriterInv` that a writer before its
deadline owns its session. `LeaveInv` is the step shared by all ways out of
"finalizing". `StepEffect` says what a step does to one session: the action
properties and, by counting `ChargedSessions`, the quota follow from it.

`TypeOK`, `EndIsFinal` and `BytesStable` are proved and not part of the run. Only
model-checked: `CleanedUp` (liveness).

## Samples

`Samples` is one job that asks for samples, through all its attempts: the rows by attempt
and item (`samples`), the claim (`attempt`, `state`, `cancelling`, `leased`) and the
requests (`calls`). `register_sample` is `Receive` (the first look at the claim), then the
verification of the bytes, `Fence` and `Register`; `Answer` is every other end. A report
of completion is `ReportCompleted`, which finds the samples complete
(`sample_completion_ready`), and `CommitCompleted`. `fence` is the request in whose
transaction the rows of the claim are locked; it stands for the row locks of PostgreSQL
and for the write lock that the no-op UPDATE takes on SQLite. What moves the claim
meanwhile (`ClaimJob`, `LeaseExpires`, `CancelRunning`, `CancelQueued`, `ReportEnd`,
`RevokeWorker`, `RecoverLease`, `RetryFailed`) is `JobLease` seen from one job.

`SampleLedger` is what those who judge the model rely on: an attempt has at most one
sample of an item, added while the attempt ran and nobody had asked to cancel it, and
never more output than the limit; a completed job has a sample of every item, all of one
inference run, and keeps them. `ImplementsSampleLedger` maps each variable to itself.

Left out: what the payload is compared with (plan, configuration, runtime, PCM metrics),
and the limits on parallel verifications, which only refuse; the duration limit, which is
counted like the size; the insert race of `register_sample`, which the fence excludes;
listings and downloads, which only read. The artifacts of a sample are completed
uploads, whose bytes stay (`ArtifactHasBytes`).

In `artifacts` (`part` = "samples") two requests, two attempts, two items and four outputs
(a matching pair, one of another run, one that is too large beside any other) let a
request of the first attempt reach its fence in the second, and two registrations meet
at the limit.

Proofs (`ArtifactUploadProofs`), from `SamplesAssumption` alone, for any finite test set, any
outputs, requests and attempts: `SamplesInvariant` and `SamplesKeepTheirPromise`, which
is `SamplesSpec => ImplementsSampleLedger`. The inductive invariant `SamplesInv` has two
ideas. `FencedInv`: behind the fence the claim is what the request saw. `ReportInv`: the
samples that a report found complete are complete still, although nobody locked them,
since a full row takes no further sample and none is ever removed.

## Storage adoption

`StorageAdoption` is the operator's command that fills in the storage namespace of upload
sessions older than that column. `upload` are the rows, `objects` the objects that each
configured storage has, `rowLock` the row locks, `op` the runs of the command. A run is
`List` (named sessions, or a batch, without a lock), then for each session `Take` (lock
and read), `Match` object by object, `Bind` or `Reject`, and `Report`; `KillRun` is a run
that dies. Beside it maintenance expires sessions and deletes staging objects
(`ExpirePending`, `DeleteStaging`), and operators copy objects between storages
(`CopyObject`).

In `artifacts` (`part` = "adoption") two operators with the configuration of two storages,
two sessions, dry and applying runs and one mishap show `AdoptionIsSound`: a session is
bound to a storage that has its bytes, and a run that reports no rejection has bound all
it examined.

Proof (`ArtifactUploadProofs`): `AdoptionStaysSound`, from `AdoptionAssumption` alone (rows
are unbound at the upgrade; names are distinct), for any sessions, storages and operators.
Behind the row lock neither the status nor the binding of a session changes, so the
objects that matched are those the binding needs (`VerifyOK`); what a run is done with is
bound to its storage or rejected (`DoneOK`), and nobody binds a session again.

## Maintenance runs

`MaintenanceRuns` is one run and everybody who moves it. `row` is the
`MaintenanceTaskRun` (status, attempt, maximum, and whether its heartbeat is
fresh), `rowLock` its row lock. `job` is the RQ job of Redis: its status, the lists
it is in, whether it has results or executions, and whether it is exact, that is
`maintenance_job_is_allowlisted`. `proc` are requests with one idempotency key and
the reconciler, of which the advisory lock leaves one; `horse` are RQ work horses.

A request is `Lookup`, `Insert`, `Reread`, `CloseExhausted`, the enqueue call and
`Record`; a reconciler cycle is `Pick`, the enqueue call and `Reconcile`. The call
(`RqMaintenanceQueue._enqueue_cleanup`) is a step per Redis round trip:
`AcquireQueueLock`, `Fetch`, `LookIntermediate`, `LookPlace`, `Quarantine` (one Lua
script), `Put`. A row lock lasts from the SELECT to the commit; the request that
inserted the row, and one that lost the race to insert it, hold none (`Blind`), and
their UPDATE writes the columns that differ from what they loaded (`Assigned`). A
horse goes through `Dequeue`, `Execute`, `Start`, `Pulse`, `WorkEnds`, `Finish`, and
`Succeed` or `Fail`, which schedules the retry that `Promote` queues again.

Faults: a put that raises before or after it took effect, any other failing call, a
crash of the API, a dead horse (its parent reports a failure), a dead RQ worker,
Redis data lost, settings changed so that jobs are no longer exact. Time is left
open: a row may be due at any moment, and a heartbeat late at any moment.

Left out: the uploads that an attempt cleans, which `DatasetUpload` and `TestSets`
have (`WorkEnds` ends with or without a failure), several runs in one reconciler
transaction, RQ's own steps beyond what this code relies on, and a job whose hash disappears between `Job.fetch` and the
read of its status, which the call reports as a conflict. The two tasks differ only
in the uploads, so one run stands for either.

| run | instance | shows |
|---|---|---|
| `maintenance` | two attempts; one request, two horses and a fault, or two requests and one horse, or two requests, a fault and a single attempt; fairness | one horse has the job, and every run ends |
| `maintenance_poison` | two requests, two horses, no fault | an exact job is taken for a poisoned one |

Two attempts make a replaced attempt meet its successor, two requests race for the
insert, two horses race for a job that was put twice. The runs do not check for
deadlock: when the run has ended nothing is left to do.

Fairness: a request runs to its answer, the reconciler cycles for ever, the RQ
worker polls and its scheduler promotes, and a heartbeat gets late. Strong fairness
of horses: a horse waits for a row lock that others take and release, and
PostgreSQL serves waiters while the reconciler skips locked rows. No fairness of
faults, heartbeats in time or new requests.

The disagreement (`maintenance_poison`): between the look at the intermediate queue
and the look at the queue a worker may move the job from the second to the first.
The job is exact and about to run, the call goes on to quarantine it, the script
refuses since it is active, and the run is set to failed with
`maintenance_queue_poisoned_active`, which the operations guide treats as a sign of
tampering and does not run again. The attempt that starts then finds the run failed.

What the properties leave open. A request that inserted the row and whose call failed or
met a conflict writes "enqueue_failed" or "failed" over a run that an attempt has started
or completed meanwhile, and "enqueue_failed" makes a completed run a candidate of the
reconciler again. An end is therefore not final; `EndIsFinal` says that this write, of a
request that holds no lock (`Blind`), is the only step that undoes one. `Ends`
excludes `Abandoned`: when the RQ worker died with the job in its hands, the job
stays started and the run waits for an operator, as `run_maintenance_tasks` says. A
run of one attempt whose put raised after it took effect may end as failed without
being executed.

Proofs (`MaintenanceRunsProofs`), from `RunsAssumption` alone, for any number of
requests, horses, attempts and faults:

* `TypeCorrect`: `Spec => []TypeOK`.
* `EndsAreFinal`: `Spec => EndIsFinal`, which allows exactly that write and no
  other step. `LockInv` is what makes it inductive: the
  holder of the row lock is inside an enqueue call, the row has not ended while the
  lock is held, and the reconciler is in a call only with the lock. `CallContinues`
  says that the steps of a call change neither row nor lock.
* `JobHasOneHorse`: `Spec => []OneExecution`. While Redis keeps its data there is one
  token for the job (`DeliveryInv`): it is in one place, or one horse has it. A put comes
  from a call that holds the queue lock since it found no job, and nobody else creates
  one.
* `CompletedByLatest`: `Spec => []CompletedByItsAttempt`. `CleanInv` adds that a
  horse at its `Finish` without a failure has its attempt among the clean ones, so
  that the comparison of attempts in `_finish_run` is enough.

`TypeOK`, `EndIsFinal` and `CompletedByItsAttempt` are proved and not part of the run.
Only model-checked: `Ends` (liveness).

## Datasets

`DatasetUpload` is one dataset: its row (`dataset`), the generations of its upload
(`up`), which are the sessions under one idempotency key, a staging object and a set
of canonical keys for each generation, and the requests and cleanup passes that work
on them (`pc`, `ses`, `pub`). A local upload is `ClaimWrite`, `Write`, `Wrote`, with
`WriteFails`, `WriteTimesOut` and `Unwrite`; an upload to S3 is `S3Put`. A
finalization is `ClaimFinalization`, `Verify`, `Prepare`, `Publish` key by key,
`Published`, `Commit`, `Unstage`; the ways out are `LoseLease` and `Lost` (the token is
gone), `Undo` and `Settle` (a publication failed), and `Abort` and `Resolve`
(cancellation, or a commit whose outcome is unknown, read back under the lock).
`StartDelete`, `DeleteObjects`, `DeleteRow` are the deletion, which keeps no lock while
it deletes; `CreateExperiment` is the reference it races with. `ClaimCleanup` and
`DeleteClaimedStaging` are the two-phase staging cleanup of a maintenance run.

`DatasetIngestion` is what `dataset_ingestion.py` makes of an archive, a sequence of
members in the order of the ZIP directory. `Validate` refuses it or begins the pass;
`ReadMember` takes the member with the first path that is left, which is the sort of
`_validate_archive_members` and the loop of `_collect_zip`, and `Collect` is what becomes
of it; a corrupt member ends the pass, `IngestFails` is an input or output error, and
`Conclude` is the verdict. The reference knows the members only as a set: one file per
digest of the usable members, named by the first path that has it (`Canonical`) and
numbered in path order, every duplicate attributed to the file with its bytes, every
other entry skipped or rejected (`Reference`). Its `Verdict` decides what a finalization
in `DatasetUpload` commits (`Outcome`).

Assumptions about time, from `config.py`: at the end of the confirmation grace no
write to the staging object is under way (`Grace`), and a presigned PUT ends before
it. Left out: the owner quota, key and namespace mismatches, which only refuse,
and the local spool and snapshot files.

The run `datasets` has two generations of two keys, two processes, one fault, both
backends and an archive for each verdict (with S3 the usable one). Two keys let a
publication fail half way, two generations let an expired one meet its successor,
two processes are a late finalizer or cleaner and its replacement, or a deletion and
a request. A behaviour of the run is either about an upload, which only uses the verdict,
or about the pass over one of the small archives (`part` in `MCDatasets`). It shows:

* `DataAvailable`: a dataset that is offered has all its objects (`SnapshotAvailable`),
  and so has one that an experiment uses, whatever deletion was under way
  (`ExperimentHasData`);
* `CleanedStaysGone`: recorded cleanup is final;
* `IngestionMatchesReference`: on all archives of up to two members of every kind and
  three of the kinds that matter to each other, a pass comes to the verdict and to the
  files of the reference;
* `SessionsSettle`: every session ends completed, cleaned or deleted, or from some time
  on waits for a step that its user (`AwaitsUser`) or a maintenance run
  (`AwaitsMaintenance`) can take at once. So nothing blocks the deletion of a dataset in a
  state that neither gets out of, whatever died where.

Fairness: requests that were begun go on (timeouts bound their calls) and clocks
advance. Nothing is assumed of the people. A finalization whose process died stays in
"finalizing" until somebody calls init or finalize again (`datasets.py:467-473`, `1181`;
maintenance does not take it), and an ended or abandoned session keeps its
staging object until an administrator starts a maintenance run; until then both block
the deletion of the dataset, and `SessionsSettle` counts both as waiting. The run does not
check for deadlock: a settled dataset has nothing left to do.

Proofs (`DatasetUploadProofs`), from `DatasetAssumption` alone, for any number of requests,
generations, keys and faults and any verdict of the ingestion: `DatasetTyped`,
`DatasetsKeepTheirData` (`Spec => []DataAvailable`) and `StagingStaysGone`
(`Spec => []CleanedStaysGone`). The invariant `DatasetInv` has four parts. `ProcOK`: a
finalizer owns its session, or the session is over. `OrderOK`: a generation starts when
the one before has expired. `CleanOK`: nobody writes to a staging object whose cleanup
waits for its confirmation. `DataOK`: a kept snapshot is complete, and every deletion
that has begun is about generations before it; that is why the deletion, which keeps no
lock while it deletes, cannot reach a snapshot that was committed meanwhile.

From `IngestionAssumption` alone, for archives of any size and any limits:
`IngestionIsCorrect` (`IngestSpec => []IngestionMatchesReference`). Since the pass is a
behaviour and not a recursive definition, no induction over data is needed: the
invariant `PassInv` says that the state is the reference result for the members read so
far, and that their paths come before those of the members that are left, so the next
member cannot take the place of a file (`CanonicalExtended`). `Covered`, that every usable
member read has a file with its bytes, is what makes a second member with known bytes
a duplicate of exactly one file. `CollectKeepsReference` is the step.
`IngestionIsDeterministic` adds what the docstring of `ingest_dataset` promises
("deterministic manifest"): a reordered archive is refused or not as before
(`RejectedReordered`), and the reference result is unique (`ReferenceUnique`), because a set of
members has one sequence with rising paths (`RisingUnique`, by the least place where
two would differ).

Only model-checked: `SessionsSettle` (liveness).

What the properties leave open: `initialize_dataset_upload` does not look at the
status of the dataset, so a new generation may begin while a deletion is under way
(`docs/SECURITY.md:288` has active uploads checked first). The row takes the session
with it, and objects the generation stored after the deletion looked stay behind.

## Test sets

`TestSets` is one revision: its status, the upload sessions of its items, staging and
canonical objects, the manifest, and `held`, the request that keeps the row lock of
the test set over several steps. Item uploads are as for datasets, with one
canonical object and without a way back to "pending". `StartFinalizeSet`,
`CheckItems`, `StoreManifest`, `Ready`, `DropManifest` are `finalize_test_set`, whose
failure path deletes the manifest after the lock is gone; `StartDelete`,
`DeleteObjects`, `DeleteRow` are `delete_test_set`.

In `model_review` (`part` = "test_sets") two uploads of two items, two processes and
two faults on both backends show `StorageMatchesLedger`: a ready revision has items, one
completed upload with its bytes for each, and no upload that could change it
(`ReadyIsComplete`), and recorded cleanup is final (`CleanedStaysGone`). Two faults let a
deletion die half way and a commit fail afterwards. No fairness is needed, and deadlock
is not checked: a ready or deleted revision has nothing left to do.

Proofs (`ModelReviewProofs`), from `TestSetAssumption` alone, for any number of
requests, items, sessions and faults: `TestSetTyped` and `StorageKeepsToTheLedger`
(`Spec => []StorageMatchesLedger`). In `TestSetInv` a request that finalizes or deletes
the set holds its row lock, and while the lock is held the sessions stay settled
(`ProcOK`); an item has one session that holds it (`ItemsOK`); a session has one finalizer
in its life, so what that finalizer takes back was never completed.

What the properties leave open: a finalization whose commit failed deletes the
manifest after it freed the lock (`routers/test_sets.py:1571`). When its commit had
taken effect, or a second finalization stored the manifest meanwhile, the revision
is ready and its manifest gone; `docs/REQUIREMENTS_TRACEABILITY.md:32` has a claim
verify the manifest, so such a revision is refused then. `ReadyIsComplete` therefore
does not speak about the manifest. A finalizer that publishes after
`delete_test_set` looked leaves an object without a row.

## Model registry

`ModelRegistry` has the registry of one experiment (`version`, `created`, `entry`, the
operations `ops` by idempotency key), the mutation requests being handled
(`requests`) and the dashboards (`client`: the read under way, the snapshot shown, the
intent that waits for an answer). A read is `ReadVersion` or `ReadAbsent`, then
`ReadPage` and `FinishPage` for each page, which compares the version again (the
champion, the total and the entries of a page are one step: every commit moves the
version, so a read with a commit between them is refused like one with the commit
before or after them); a
mutation is `Begin`, then on the Manager `Preflight`, `VerifyBytes` (the hashing) and
`Apply`, the fenced transaction. `LoseAnswer`, `Reload`, `Resend` and `Abandon` are the
reconciliation after an answer that did not come; `EndSession` disables the user.
`log` and `settled` are history.

In `model_review` (`part` = "registry") two dashboards, two models, pages of one entry,
requests sent twice and one session that ends show that the snapshot on a dashboard
existed (`SnapshotWasReal`), that a mutation replaces what its user saw
(`MutationReplacesWhatWasSeen`), and that an intent which the reconciliation gave up
is not applied later (`SettledStaysSettled`). Dashboards, models and processes are
interchangeable, which the run uses as a symmetry; it checks no liveness.

Proofs (`ModelReviewProofs`), from `RegistryAssumption` (finitely many models, bounds
and page size natural numbers), for any number of dashboards, models, keys, resends,
reads and page size: `RegistryTyped`, `SnapshotsWereReal`
(`RegistrySpec => []SnapshotWasReal`), `MutationsReplaceWhatWasSeen` and
`SettledIntentsStaySettled` (the two action properties). `RegistryInv` has six parts
besides the types. `LogOK`: the log holds the registry of the current version, and no
snapshot of a later one. `ReadsOK`: what a read has gathered is in the registry
unaltered as long as the version and the version of its first page are the current one;
a read that ends so, with as many entries as the total, therefore has all of them
(`CompleteRead`, by cardinality). `ShownOK`: a snapshot shown is one of the log.
`RequestsOK` and `PendingOK`: a key has one intent, whose snapshot is one of the log and
offered the operation. `SettledOK`: the registry has moved on from what the user of a
settled intent saw. The last one needs that an intent is not yet applied in the very
snapshot in which it was offered, which is where the offers of the panel
(`Offered`) meet the tests of the reconciliation. `LogOK` also says that a registry
without a row has no entry and no champion, as an empty answer claims.

What the properties leave open: a request sent twice whose first copy is applied
while the second is hashing is answered 409 though its key is stored (the
reconciliation then reads the registry and finds it applied). An intent that the user
abandons by hand may still be applied.

## The Worker

`WorkerAgent` is the agent and the Manager as it sees it. The executor (`pc`, `stage`)
goes from `Claim` and `Admit` through the stages of `StagePlan` (`ReportStatus`,
`RunStage` or its detailed forms, `StageCallback`) to `Complete`, or by way of `Handle`
to a terminal report and `Close`. `act` is the `ActiveJob` that the loops share with
it: `SendHeartbeat`, `ReceiveHeartbeat`, `SendRenewal`, `ReceiveRenewal`,
`RenewalFails`, `DeadlinePasses`. `mgr` and `remote` are the lease, the cancellation
and the upload sessions of the Manager. Time is what is left of a lease: `Tick` takes
one unit off every deadline, accepted, granted or in flight. `PlanFollowsTable`, an
assumption that TLC evaluates, says that the plan of every configuration follows
the Manager's transition table. A plan is put together from the stages that the
configuration asks for and the scope keeps (`StageIf`, `InputPlan`, `WorkPlan`).

`WorkerInputs` is the workspace of an attempt: a file is looked up, received into a
partial file, checked, linked and retried (`xfer`); a test set is collected in a
staging directory that is renamed when it is complete; the archive is unpacked in the
same way. A call that times out waits for its thread, so its file may be there when
the retry looks. `WorkerProcess` are the commands of a native stage: a leader and at
most one child for each, the watch loop, SIGTERM, the grace period, SIGKILL, the
output pumps, and the relay that carries a cancellation to commands running side by
side.

A behaviour has one of three scopes, since loops, files and processes meet only in
the cancellation of the job: in "lease" the loops run in full over plain stages, in
"inputs" the stages download and unpack, in "work" they run two commands and publish
an artifact and a sample. In the last two `Withdraw` stands for the loops and cancels
for every reason they have.

The run `agent` shows:

* `CancelHasCause`: a job is cancelled only by its user, a shutdown or a lease that
  ran out, not by answers that overtake each other or belong to an earlier claim;
* `LeaseNeverOutlived`: while the agent believes in its lease the Manager does too;
* `CompletionIsEarned`: completion is reported only after all stages returned in
  order, on verified inputs, with everything published;
* `StageLeavesNoLeader`: no stage ends while a command it started still runs;
* `LostAttemptEnds`: a job that was cancelled or lost leaves the agent, unless a child that
  outlived its leader holds the pipes of its command for ever (`OrphanHoldsPipes`).

Two claims let an answer meet the next job; two ticks let a renewal overlap a
heartbeat; two tries let a retry meet its own first attempt and fail; two test items
let a test set be half collected; two faults (one in "lease") let an unclear PUT meet
an unclear finalize.

Assumptions: Worker and Manager read synchronised clocks, and the Manager's clock has
advanced between two grants; a request timeout (30 s) is shorter than a lease (120 s),
so an answer arrives while its grant lasts or not at all; a renewal that timed out is
processed at once or never. Fairness: the event loop runs every task that is ready,
every call ends by its timeout, the Manager answers, clocks advance, and a leader
that does not end within the grace period is killed. A command nobody stopped may run
for ever, and so may a child that outlived its leader. `LostAttemptEnds` excludes a shutdown, after which the service
manager ends the process.

Proofs (`WorkerAgentProofs`), from the assumptions of the four modules, for every plan,
lease length and number of jobs, artifacts, samples, test items, commands, tries and
faults, and with `Stubborn` TRUE or FALSE: `AgentTyped`, `LeaseIsNotOutlived`,
`CancelsHaveCause`, `CompletionsAreEarned` and `StagesLeaveNoLeader`. The inductive
invariant is `AgentInv`, which TLC checked on the instance of the run before it was
proved:

* `LeaseOK` and `ClaimOK`: while the agent has a job, the lease of the Manager is the
  one of its claim, and neither what the agent accepted nor any answer on its way grants
  more than the Manager keeps. `AnswersOK`: an answer extends what its request was based
  on, so a late one cannot shorten the lease and be taken for an expiry, and it carries a
  cancellation only if the user asked for one.
* `RanOK`: the stages that returned are 1 to `Done`, in this order; `ItemsOK`: the items
  before the current one are published.
* `TransferOK` and `GivenOK`: a name is linked only to bytes that were verified, and a
  stage that returned has its inputs; the lemmas on the plan (`PlanFacts`) say that the
  stages which need them come later.
* `CommandsOK`: a runner that is past its watch has no running leader, and a stage ends
  when all its runners are there.

Only model-checked: `LostAttemptEnds` (liveness).

What the properties leave open. A failure that the executor raised before a shutdown
arrives is reported as "failed", although `apps/worker/README.md:132` gives a shutdown
precedence. A child that ignores SIGTERM survives when its leader exits within the
grace period, since SIGKILL is sent only when the leader has not, and a child whose leader
exited before the cancellation is not signalled at all (`process.py:217`). When it holds
the pipes, the pumps are awaited without a bound (`process.py:168`) and the cancelled job
stays with the agent. That is against WRK-006 (`docs/REQUIREMENTS_TRACEABILITY.md:68`: a
cancelled process group is ended, by force after a time limit, and no child is left).
`Stubborn` is TRUE in the run, `StageLeavesNoLeader` speaks of leaders, and
`LostAttemptEnds` names the orphan as the one thing that keeps a lost attempt.

## Hazards without a property

`PROJECT.json` lists the hazards that the properties are for. Five are known and
covered by none, because the code is open to them: the canonical object left by a
failed second finalization of an artifact, the manifest deleted after the lock, the
child that survives SIGTERM, the generation begun during a deletion, and the order of
terminal events of two attempts in MLflow, each described in its section. A sixth is
outside the models: row locks are taken in the order lease, Job, attempt, Worker by
reports and revocation and Worker, Job by `claim_job` (`routers/workers.py:190`). A
committed transaction is one step here, so lock waits do not appear; PostgreSQL aborts
one of two deadlocked transactions, which is a refusal that the modules allow.

## Not modelled

* What training, inference and index building compute, the audio and loudness
  analysis of ingestion, and the file formats they exchange (`native_inference.py`,
  `native_inference_driver.py`, `index_builder.py`, `small_model.py`): numerical code
  without interleaving, out of TLC's reach. Which commands run, in which order, and
  how they end is in the Worker's modules.
* The dashboard but for the registry panel: it presents the API and passes requests
  on, and keeps no state that outlives a page.
* Migrations: schemas, whose constraints appear in the modules that use the tables.
* Installers and recovery archives: commands run one at a time over archives, files
  and containers. They validate formats and checksums and call containers, whose
  effects lie outside the repository.
* Password hashing, token formats, redaction, audit rows, rate limits and wording.

## Beyond the prover

Liveness under fairness and ENABLED stay with TLC: `AbandonedLeaseReleased`,
`ReportedIsComplete`, `EventsProjected`, `ComesUp`, `CleanedUp`, `Ends`, `SessionsSettle` and
`LostAttemptEnds`. No module declares a recursive operator. Two theorems have a condition
beside the assumptions on the constants: `NoOrphansWithoutSlowRequests` (no overtaken
requests) and `AgentIsNotBlocked` (no late ones); both conditions are settings of the
models that the runs use with and without them.
