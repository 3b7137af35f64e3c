# CryptoHawk: TLA+ models, checks and proofs

CryptoHawk inventories the cryptography in use on an organisation's assets. API processes accept
requests, worker processes run scans taken from a durable queue, and scheduler processes enqueue
scans at regular intervals. All of them share one PostgreSQL database and coordinate through
nothing else. The hard part of the program is therefore what happens *between* transactions: a
process reads, another commits, the first writes; or it is killed. The modules here model the
transactions as atomic steps and the processes as program counters plus the values they carry from
one transaction to the next.

## Inventory

| Component | State | Operations | Interacts with | Hard behaviour | Correct when |
|---|---|---|---|---|---|
| Durable queue (`storage/queue.py`) | `scan_jobs`, `scan_queue` | enqueue, claim, heartbeat, complete, fail, cancel, recover | workers, API, quota | leases, blind ORM writes, retries | a job runs under one lease, ends once, and always ends |
| Quotas (`storage/quotas.py`) | `workspace_runtime`, `rate_limit_buckets` | acquire, release, reconcile, consume, prune | queue, synchronous scans, middleware | slot released in its own transaction; first request of a window | slots = scans in progress; at most `limit` requests per window, but for those that race its first |
| Worker (`services/worker.py`) | lease in memory | run_once | queue, executor, evidence | kill at any point, lease lapses during a scan | late results are fenced off |
| Synchronous scans (`services/scan_jobs.py`) | job and slot of one request | run | quota, inventory, evidence | no lease protects it | slot returned on every exception |
| Inventory (`storage/inventory.py`) | workspaces, assets, jobs | create, transition | everyone | status compare-and-set | terminal statuses are final |
| Schedules (`storage/continuous.py`, `services/scheduler.py`) | `scan_schedules`, `scheduled_executions` | create, pause, resume, delete, run_once | queue, retention | several replicas, kills, stale rows | no due occurrence lost, none invented |
| Evidence and drift (`storage/continuous.py`) | snapshots, occurrences, observation states, drift events | record_successful_scan | worker, remediation, retention | two scans of one asset at once | states equal the latest snapshot |
| Remediation (`storage/remediation.py`) | migration items | create, update, verify | evidence | decisions on old reads | verified only by newer evidence of absence |
| Retention (`storage/retention.py`) | policies, everything it deletes | set_policy, sweep, purge | scheduler, evidence | sweep races with scans | referenced evidence is kept |
| Policy packs (`storage/policy.py`) | packs, versions, assignment | create, version, activate | risk evaluation | concurrent administrators | versions are consecutive and immutable |
| Authentication, OIDC (`storage/auth.py`, `storage/oidc.py`) | users, sessions, keys, login transactions | bootstrap, login, revoke, consume | API | one-time tokens used twice | each is used at most once |
| Credentials (`storage/credentials.py`) | encrypted secrets | create, replace, rotate, delete | repository collector | rotation racing replacement | the last secret stored is the one used |
| Repository provenance (`storage/repositories.py`) | one row per scan job | record | executor | retry finds another commit | provenance describes the evidence |
| Container scanner (`scanners/container_image.py`) | none (pure) | apply layers | executor | whiteouts, replaced directories, budgets | reports the effective filesystem of the layers; files below a replaced directory are reported besides |
| Risk engine (`risk/`) | none (pure) | score, evaluate | executor | boundaries | bounded and monotone |
| Reporting, CBOM, API routing, observability, frontend | none of their own | read, format | all | – | – |

`PROJECT.json` lists every component with its status, and under `hazards` every place in the code
where an order of events that no test forces could go wrong.

## Modules

**`ScanQueue`** is the database: the three tables that carry the queue and the quota, and one
operator per committed transaction. PostgreSQL runs at READ COMMITTED, and the code writes in two
ways that the module keeps apart. An `UPDATE ... WHERE` whose row count is tested (`claim_next`,
`heartbeat`, `_finish`, the retry in `fail`, `acquire_scan_slot`) is a compare-and-set: its guard
is a conjunct of the step. An attribute assigned to an ORM object (`recover_expired_leases`,
`request_cancel`) is written at commit by primary key, whatever has happened since the read: the
step has no guard, and the columns it writes are those that differed from the values read.
Timestamps are compared only with the current time, so `lapsed[j]` stands for `lease_expires_at <=
now` and `due[j]` for `next_attempt_at <= now`; a time step may turn each of them true.

**`ScanService`** is everyone who uses those tables. `ScanWorker.run_once` is a process whose
program counter goes through recovery (select, commit, one release per recovered row), claiming
(candidates, acquire, claim, give back on failure, reload), the leased part (cancel check,
heartbeat, scan, second check, evidence, completion or failure) and the release of the slot.
Exceptions that `run_once` does not handle end the process, as they end `run_forever`; it is
restarted later under the same worker id. `request_cancel` is two reads and a commit,
`ScanJobService.run` six steps. `Execute` has the three outcomes the worker tells apart: findings,
`OSError` (retryable), anything else. The database may refuse any statement between the claim and
`fail` (`StatementRefused`, a retryable failure), and any of a synchronous scan's transitions
(`SyncRefused`: before the scan straight to the `finally` clause, after it to the failed
transition). `recorded` holds the jobs whose snapshot
`record_successful_scan` has committed.

**`JobLifecycle`** is the abstract specification: a job is submitted, started at most
`MaxAttempts` times and never while `Limit` jobs of its workspace are running, and never changes
after it has ended. It knows no queue, worker or lease. `ScanService` gives the refinement mapping
(`Starts`: the attempts of a durable job; one for a synchronous job that was started) and states
`RefinesJobLifecycle`.

**`Scheduler`** is `ScanScheduler.run_once` in several replicas with the schedule operations of
`ContinuousRepository`. An occurrence is the pair of a schedule and the time it was due: the job
id is a hash of exactly these two, so two replicas that enqueue the same occurrence create the
same job. A replica takes an occurrence through four transactions (job row, queue row, execution
row, compare-and-set on the schedule). Users create, pause, resume and delete schedules meanwhile.
A schedule of a disabled or unsupported asset is paused, one whose asset is gone, which takes the
schedule along, is passed over. The closed form `NextRun` stands for the
loop of `advance_schedule`.

### Evidence, migration work and retention

**`Evidence`** holds what scans leave behind: job rows, findings, snapshots, occurrences,
observation states and drift events, with `prepare_findings`, `upsert_many` and the two halves of
`record_successful_scan`: what it reads, and what its flush writes (`DriftOf`, `NewStates`,
`RecordTxn`) or the constraints refuse (`FlushAccepted`). An observation is a fingerprint with a
score and a detail, which is all that drift compares. `found` and `order` are history: what each
scan really found, in the order of recording; the properties compare the tables with them.
**`Remediation`** EXTENDS it with migration items and **`Retention`** with the retention policy,
the sweep (`ProtectedJobs` and `ProvenanceJobs`, then `PruneTxn`) and the purge of the workspace.
Of the rows that a sweep deletes, those of `repository_scan_runs`, `scheduled_executions` and the
audit are not modelled; which job holds the newest provenance of a repository, and is protected for
it, is therefore left open, one job an asset or none.

**`EvidenceService`** composes them. Every operation is a session `ses[s]` that reads in one step
and commits in a later one, so that others commit in between. `verify` has three steps: the
statements that read the item, the job and the snapshots are one, because whatever commits between
them makes the code refuse or may as well commit after them; the statement that reads the
occurrence is one of its own, as another result of it changes the outcome. A commit writes only the
columns that differ from what was read (`Flush`), an insert is refused by the constraints of the
moment of the commit. `Overlaps` names the pairs of operations that may be open at the same time.

### Collection

**`RepositoryScan`** is one repository asset: commits pushed, also by force, a fetch of limited
depth, the choice between a full and an incremental scan, the provenance row of the job, and the
worker's kills and retries around them. **`ContainerImage`** is the choice of an image in (nested)
indexes by reference and platform, and the application of its layers: `ApplyLayer` on a map of
files, with the budgets. Layers arrive one at a time, built from entries chosen freely. **`Risk`**
is the algorithm profiles, the score and the policy verdicts as operators; **`AssetScan`** EXTENDS
it with what each collector can report and with the executor inside a worker's attempts: the
policy is read, the collector runs, and what it reported is assessed and stored, while the
workspace's policy changes.

### Control plane

**`Accounts`** is users, workspaces, memberships, sessions and API keys. A request authenticates
in one transaction and acts in later ones; an API key takes two, one that authorizes and one that
inserts. **`OidcLogin`** EXTENDS it with single sign-on from one
browser: login transaction, callback, provider, identity link, completion, exchange; it ends in
the `IssueSession` of `Accounts`. **`PolicyPacks`** is the packs, versions and assignment of one
workspace, **`Credentials`** the connector credentials over a keyring that the operator rotates as
docs/SECRET_HANDLING.md says, **`RateLimit`** the fixed window of one scope and action, one step
per statement.

### Model checking and proof modules

`MCScanService`, `MCScheduler` and `MCEvidence` EXTEND their specifications for TLC.
`MCCollectors` and `MCControlPlane` each put several parts that share no state side by side:
`part` names the one that runs, the others stay in an initial state, so that one run checks them
all and none multiplies the states of another. Both EXTEND the parts about which there are
theorems, so that what a run checks and what a theorem states is one definition; their
specifications have names of their own for that (`PolicySpec`, `CredentialSpec`, ...).
`ApiRequests` declares the requests under way, which `Accounts`, `PolicyPacks`, `Credentials` and
`RateLimit` have in common. `MCCollectors` takes `RepositoryScan` and `ContainerImage` with
INSTANCE; their assumptions are plain definitions that it assumes of the values it gives.

The theorems are in `ScanServiceProofs`, `SchedulerProofs`, `EvidenceProofs`, `AssetScanProofs`,
`SignInProofs` (`Accounts` and `OidcLogin`), `PolicyPacksProofs`, `CredentialsProofs` and
`RateLimitProofs`. Each inductive invariant stands at the end of the module it is about.
Definitions introduced by "Mutant:" are wrong versions of the definition that follows them; no
specification uses them. They document the mistake that each property detects.

## Runs

| Run | Instance | Checks |
|---|---|---|
| `queue_solo` | one worker, two tenants, two durable jobs and a synchronous one, no cancel requests, kills only while a lease covers the job | `TypeOK`, `CapacityAccounted`, `EveryJobEnds`, `RefinesJobLifecycle` |
| `queue_races` | two workers, one durable job that users cancel and a synchronous one, leases lapsing under live workers, a kill at the points between two transactions | `TypeOK`, `LeaseMatchesStatus`, `SuccessHasEvidence`, `CompletionIsFenced`, `ExpiredLeaseLeavesRunning` |
| `scheduler` | two replicas, batches of one, a schedule that a user edits and one that cannot run | `TypeOK`, `NoOccurrenceLost`, `OccurrencesOnGrid`, `NeverBackwards`, `DueIsEnqueued` |
| `cancel_claim_race` | violation of `CapacityReturnsToZero` | a cancel request overtaken by a claim leaks the slot |
| `stale_recovery` | violation of `TerminalIsFinal` | recovery overwrites a job completed since it was selected |
| `cancel_then_retry` | violation of `CancelEndsJob` | a canceled job is requeued by a retryable failure and stays there |
| `evidence` | one asset, three scans, one migration item, two sessions, sweeps, a purge, a kill or a policy change | `TypeOK`, `StatesMatchLatest`, `DriftExplainsChange`, `CurrentEvidenceKept`, `VerifiedIsEvidence`, `PurgeLeavesNothing`, `UnfinishedEvidenceKept` |
| `verify_prune_race` | violation of `VerifiedIsEvidence` | a sweep between the two reads of `verify` removes the occurrence that should refuse |
| `concurrent_scans` | violation of `StatesMatchLatest` | two scans of one asset record at once: the older one's exposure stays active beside the newer snapshot |
| `collectors` | `RepositoryScan`, `ContainerImage` and `AssetScan` side by side | `TypeOK`, `IncrementalEqualsFull`, `EffectiveFilesystem`, `RightImage`, `FindingsMatchProvenance`, `LongerKeyNeverRiskier`, `StricterNeverLenient`, `LegacyProtocolFails`, `NamesAreKnown` |
| `retry_provenance` | violation of `RetryIsDuplicateSafe` | the provenance of a killed attempt refuses that of its retry, which differs in `collected_at` |
| `control_plane` | `Accounts`, `OidcLogin`, `PolicyPacks`, `Credentials` and `RateLimit` side by side | `TypeOK`, `NoOrphanWorkspace`, `AuthorityIsInherited`, `OneSessionPerLogin`, `SsoSessionsFollowLinks`, `VersionsAreDense`, `EffectivePolicyResolves`, `SecretSurvives`, `QuotaHolds`, `RevocationIsPermanent` |

Why two passing runs for the queue: exact capacity accounting, termination of every job and the
refinement of `JobLifecycle` hold for one worker without cancel requests, and its three violation
runs show that they do not survive a second worker or a cancel request. What `queue_races` checks
holds in every environment. The safety part of both is proved, that of `queue_solo` under the
hypothesis `Solo`.

The environments in which `CapacityAccounted` is not claimed, besides the violation runs: a kill
between the commit that ends a job and the release of its slot, and a kill of an API process
between acquiring a slot and creating its job, both leak a slot (`CrashPoints` of `queue_solo`
leaves them out and `queue_races` contains them); two workers recovering the same lapsed lease
release its slot twice, after which more than `Limit` scans of the workspace may run. A
synchronous job whose process is killed keeps its slot and stays running: no lease covers it.
`EveryJobEnds` says so and shows that the harm stays within that workspace. `reconcile_scan_slots`
repairs the counter but is called by scripts only.

What the other passing runs show, and where it ends:

- `evidence`. The active states of an asset are what its newest snapshot found, and
  `occurrence_count` the number of scans that found each exposure, through retries that return
  early, aborted flushes and sweeps; drift events are the difference between consecutive scans;
  sweeps keep what states and unfinished work point to; a verified item rests on a newer scan
  without the exposure; a purge leaves no row and none appears. `MayOpen` excludes the overlaps
  for which these do not hold: two `record`s of an asset and `verify` beside a sweep (the
  violation runs), two updates of an item, or an update and a verification (each writes by primary
  key what it decided on the older row, so the last commit wins column by column), creation or
  update beside a sweep (the sweep has already decided what is protected), and a claim beside a
  purge (an attempt that outlives its job can store findings after the purge).
- `collectors`. An incremental scan reports what a full one would, provided that the jobs that
  recorded evidence also succeeded: the baseline commit is that of the last job that *succeeded*,
  the observations carried over are those of the last that *recorded*, and a job that fails in
  between leaves them apart. Of an image every scanned file of the effective filesystem (the OCI
  rule: a later layer hides what it overwrites or whites out, and everything below a directory that
  it replaces by a file or a link) is reported with the layer it comes from. Reported besides are
  files below a directory so replaced: `_apply_layer` drops the file at a member's own path only
  (container_image.py:454-457), so `etc/tls.pem` of one layer stays in the report when the next
  puts a file or a link at `etc`, and the "effective-filesystem reconstruction" of the repository's
  README (line 23) is not quite one. `EffectiveFilesystem` states exactly this: all of the
  effective filesystem, and nothing more but such files. Strict equality fails in TLC with two
  layers. What an attempt finds is stored as decided by the policy that its snapshot names,
  whatever is activated meanwhile. After a retry past the snapshot this no longer holds: the
  findings are replaced under the policy of the retry, the snapshot keeps the first one.
- `control_plane`. Two bootstraps may both succeed when their e-mail addresses and workspaces
  differ, yet every workspace has an owner. `SecretSurvives` excepts the credentials whose secret
  was replaced while a rotation of them was running (`overlapped`): there the rotation may bring
  the old secret back, since neither takes a lock. `QuotaHolds` grants the calls that race the
  first call of a window: each may be allowed without being counted. One API process is assumed to
  be restarted when the keyring changes; two processes with different active keys could leave a
  ciphertext beside another key's version.

### Bounds

- `MaxAttempts = 2`: one retry and one exhausted budget. `Limit = 1`: one job is enough to fill a
  workspace. `CandidateCap = 2` (20 in the code) is at least the number of workspaces, as in a
  deployment with at most 20 busy ones; with more saturated workspaces than the cap, the ones
  behind them would wait; no run checks that case.
- Two workers and one contended job reach every pair of transactions that can interleave on one
  row; a second tenant is needed for fairness between tenants and is in `queue_solo`.
- `MaxFaults` bounds kills and refused claim transactions. `CrashPoints` names the program
  counters at which a kill makes a difference: a kill before a transaction equals one after the
  previous one.
- `Scheduler`: `Interval = 2` with `MaxClock = 3` gives two occurrences and a missed one;
  `StartTimes = {0}` lies at the creation of the schedule or before it; `BatchSize = 1` lets a
  schedule that cannot run stand in front; `MaxEdits = 1`, `MaxFaults = 1`. Deadlock is not
  checked in this run because the clock stops at its bound.
- `evidence`: three scans are a baseline, a change and a change back, or a source, a verification
  and a newer scan; two sessions are two transactions that interleave; `ThreeResults` has nothing,
  an exposure, and the same one reported twice with another score and detail. `MaxClock = 2` with
  `RetentionTime = SweepInterval = 1` lets evidence expire under a scan that protects it
  (`verify_prune_race` has 3). `MaxFaults = 1`. A unit of time is days: no session stays open for
  two units and a running job's evidence does not expire; `LongOps` names the operations that may
  be open when a unit passes: a sweep, whose cutoff is then the older time, and in the violation
  runs the operations that they are about. Jobs and sessions are symmetric: nothing compares them.
- `collectors`: three scan jobs of two attempts over three commits of two files of which one comes
  and goes, one worker (two workers on one repository are two scans of one asset, which
  `concurrent_scans` is about), a fetch depth below the length of the history; three layers of up
  to three entries over a directory, a file in it and a file beside it; descriptor lists of two;
  every observation that a collector can report, one per attempt (observations are assessed
  independently), two attempts, two policies of which either may be active, three contexts of an
  asset. The score's properties quantify over all collectors' observations.
- `control_plane`: two requests interleave in every part; two users, workspaces, session tokens
  and one API key; two logins, subjects and codes; two built-in and two custom packs with two
  versions and three rules; two credentials, three secrets and two key versions; three callers, a
  limit of two, two windows and five calls. Roles given are `admin` and `owner`, between which the
  rank check decides.
- These three runs do not check deadlock: all jobs end, the clock stops, bounded counters are used
  up.

### Fairness

Weak fairness on the steps of live workers and replicas (they loop for ever), on restarts (the
supervisor restarts containers, `restart: unless-stopped` in the compose files), on time (leases
lapse, backoffs elapse) and on requests that have begun. None on users, kills, enqueueing or the
start of a synchronous scan. Weak fairness is enough because a worker's next step stays enabled
until it takes it.

## Proofs

Every theorem holds for all values of the constants that the modules' assumptions allow: ranges of
the numbers, finitely many jobs and callers, `None` different from every real value. A run checks
each property on a small instance, and the invariants behind the proofs were checked with TLC on
the same instances before they were proved. A proof takes the steps of the specification one lemma
per action; a lemma about a helper (`NextRunAfter`, `LatestIsLast`, `UpdatedRow`,
`DriftIsDifference`, ...) says once what the helper returns.

### Queue and schedules

`ScanServiceProofs`, with cancel requests, kills and live leases lapsing:

- `TypeCorrect`: `Spec => []TypeOK`, which bounds `attempts` and `active_scans`;
- `Inductive`: `Spec => []IInv`, from which `LeaseSafety` (`LeaseMatchesStatus`) and
  `EvidenceSafety` (`SuccessHasEvidence`) follow;
- `Fencing`: `Spec => CompletionIsFenced`.

`LeaseMatchesStatus` is close to inductive; one lemma (`StepChangesRows`) classifies how any step
can change a job's status, owner and attempts, so that each invariant is proved once per kind of
change. `SuccessHasEvidence` needs `EvidenceFirst` (evidence is there in the state just before
success is reported). Fencing needs `LeaseIsCurrent`: while the row names worker *w* as owner, the
attempt in *w*'s memory is the current one, because only a claim by *w* itself makes it owner and
only a claim changes `attempts`.

Under `Solo` (at most one worker, no cancel requests, no kill where a process holds a slot that no
running job holds), for any jobs, workspaces and limits:

- `CapacityHolds`: `Spec => []CapacityAccounted`;
- `RefinesLifecycle`: `Spec => RefinesJobLifecycle`, each step of the queue a step of
  `JobLifecycle` or none.

`SoloInv` adds to the invariant above that the worker owns a running job wherever it has a lease
(`HoldsItsJob`), that what recovery selected is still running when it is written and that slots are
owed only between that commit and their release (`RecoveryIsCurrent`); `RowsRest` is the lemma that
nobody else can touch such a job. The count is a sum of four set sizes, and each transaction either
moves one member between them or adds or removes one with the slot (`HoldersMove`), except the
commit of recovery, which moves many at once. That a job never starts beyond the limit then follows
from `TypeOK`: whoever starts it holds a slot, and a held slot is counted beside the running jobs.
The hypothesis is needed as far as `cancel_claim_race` (a cancel request) and `stale_recovery` (a
second worker) go; a kill that takes a slot along is a leak by itself.

`SchedulerProofs` proves `SchedulerTypes`, `OccurrenceSafety` (`NoOccurrenceLost`), `ForwardOnly`
(`NeverBackwards`) and `NoExtraScans` (`OccurrencesOnGrid`) for any schedules, replicas, interval
and batch size. The invariant adds `WorkIsDurable` (each transaction of an occurrence finds what
the earlier ones wrote, or the schedule deleted) and `WorkWasDue` (an occurrence in hand was due
at the replica's `now`, which makes `NextRun` larger than the occurrence). The grid needs
`OneGrid`: not only jobs but also what replicas hold in memory, perhaps stale, is a whole number of
intervals away from the schedule's next time; differences of multiples are then multiples.

### Evidence and retention

`EvidenceProofs` is about any assets, jobs, fingerprints, sessions and retention periods:

- `EvidenceTypes` (`TypeOK`) needs no hypothesis. What a session has read is part of the invariant
  (`SessionsTyped`), and so is that rows it will write back are there or gone with the workspace
  (`RowsStay`).
- `PurgesAreFinal` (`PurgeLeavesNothing`) where no claim overlaps a purge. Behind it are
  `PurgedIsGone` (jobs and policy go with the workspace) and `ClaimOrPurge`: whoever else has a
  transaction open finds at its commit that the row it depends on is gone.
- `StatesShowLatestScan` (`StatesMatchLatest`), `DriftIsTheDifference` (`DriftExplainsChange`) and
  `SweepsKeepCurrentEvidence` (`CurrentEvidenceKept`) where no two scans of one asset record at
  once. They have one invariant, because a state, the newest snapshot and the history explain each
  other: `StatesAreNewest` ties the states to what the last scan really found, and counts;
  `OrderedByTime` makes the last recorded scan the one with the newest snapshot; `ReadIsCurrent`
  says that what a recording worker read is still there when it writes; `SweepSparesNewest` says
  that a sweep which has already decided what to protect has protected the newest snapshot, or its
  cutoff lies before it; `FindingsAreFresh`, `FindingsKept` and `SnapshotsHoldEvidence` keep the
  rows in reach. `DriftIsDifference` proves that the events computed from the states are the
  difference between the two scans.
- `SweepsKeepWorkEvidence` (`UnfinishedEvidenceKept`) where no sweep overlaps a transaction that
  creates, updates or verifies an item. `SweepSparesWork` says that while a sweep is under way no
  such transaction is, and that what unfinished items refer to is protected or newer than the
  cutoff; only the scans of unfinished items matter, so scans and claims may overlap as they like.
- `VerifiedWorkIsEvidence` (`VerifiedIsEvidence`) where verifications keep apart from sweeps and
  from each other, and the scans of one asset record one at a time. The invariant `WorkInv` adds to
  the one above that an item came from a recorded scan and a verified one rests on a later scan
  without the exposure (`ItemsRestOnScans`); that what `create` has read was recorded
  (`WorkInHand`); that while `verify` is under way its snapshot stays, what it has resolved is what
  the scan found, and the item keeps the columns that the commit will not write because they do
  not differ from the row read (`VerifyInHand`); and that occurrences do not outlive their snapshot
  (`OccurrencesHaveSnapshots`). Updates may overlap a verification: the lemmas `Updated` and
  `Verified` say, column by column, what either leaves of the other.

The hypotheses are what the code does not enforce and the deployment has to provide. Each of them
holds in the run `evidence`. Given the overlap that a hypothesis excludes beside the run's own (for
`{"record"}` also those of a claim, without which two attempts never meet), and `LongOps` with the
transactions concerned, TLC finds the violation in the last column:

| Hypothesis | Theorems | Without it |
|---|---|---|
| `{"claim", "purge"} \notin Overlaps` | `PurgesAreFinal` | an attempt claimed after the purge has counted running jobs writes into the purged workspace |
| `{"record"} \notin Overlaps` | `StatesShowLatestScan`, `DriftIsTheDifference`, `SweepsKeepCurrentEvidence`, `VerifiedWorkIsEvidence` | two scans of one asset read the same states (`concurrent_scans`) |
| `{"verify", "prune"} \notin Overlaps` | `VerifiedWorkIsEvidence`, `SweepsKeepWorkEvidence` | the occurrence that should refuse is gone at the second read (`verify_prune_race`) |
| `{"verify"} \notin Overlaps` | `VerifiedWorkIsEvidence` | of two verifications by different scans each writes the columns it changed: the status of one, the `verification_job_id` of the other |
| `{"create", "prune"}`, `{"update", "prune"} \notin Overlaps` | `SweepsKeepWorkEvidence` | a sweep that selected before deletes what a new or reopened item refers to |

Scans of different assets may record at the same time (`MayRecord`). All other overlaps, those of
updates and sweeps that `evidence` leaves out included, are within the theorems. The theorems
inherit the pace of `Tick`: no transaction stays open for two units of the retention clock, and a
job ends before the evidence it has recorded expires.

### Collection

`AssetScanProofs` is about any set of policies (rule sets) and asset contexts:

- `AssetScanTypes` and `ProvenanceDecides` (`FindingsMatchProvenance`). The invariant adds
  `ReadInForce` (the policy read was in force during the attempt), `DecidedUnderRead` and
  `Recorded` (a snapshot is of an earlier attempt until this one has recorded its own).
- `LongerKeysAreNoRiskier`, `BaselinesAreOrdered`, `LegacyFails` and `NamesLeadToProfiles` rest on
  lemmas about the rules alone: the score is monotone in the weakness, the worst disposition of a
  set is one of its members and no better than any, and a rule set with narrower limits decides no
  more leniently. What the invariant contributes is that only what the asset's collector can report
  is ever assessed (`Reported`).

### Control plane

- `PolicyPacksProofs`: `PolicyTypes`, `DenseVersions` (`VersionsAreDense`) and
  `PolicyAlwaysResolves` (`EffectivePolicyResolves`). The tables have no built-in pack or all of
  them (`Fresh`, `Ensured`), and a request that is past `ensure_builtins` is in the second case.
  A version about to be inserted is at most the next one of its pack and its predecessor exists
  with other rules (`NextVersion`); requests holding an uncommitted insert hold different numbers
  (`HeldApart`), so that whoever commits first takes the number and the other is refused.
- `CredentialsProofs`: `CredentialTypes` and `StoredSecretsSurvive` (`SecretSurvives`). Needed is
  `Sealing`: what a session is to write is sealed under the key that is still the active one, and
  the row meanwhile keeps the key it was read with or gets the active one; the commit writes only
  differing columns, and would otherwise leave one key's version beside another's ciphertext.
- `SignInProofs`, for `Accounts`: `AccountTypes`, `WorkspacesKeepOwners` (`NoOrphanWorkspace`),
  `KeysInherit` (`AuthorityIsInherited`) and `RevocationsArePermanent`. The rows that a request
  holds between authentication and action are never removed, a key about to be inserted inherits
  as it will afterwards (`AccountsInHand`), and a write by an older reading touches the last use
  only. For `OidcLogin`: `OidcTypes`, `LoginsAreSpentOnce` (`OneSessionPerLogin`) and
  `SessionsFollowLinks` (`SsoSessionsFollowLinks`). A consumed login is
  carried by at most one of all requests, completions and sessions (`CarriedOnce`), and each of
  them names the user that the subject is linked to (`LinksHold`).
- `RateLimitProofs`: `RateLimitTypes` and `RateLimitHolds` (`QuotaHolds`). A counting argument over
  the callers at each place of `consume`: `Counted` bounds the calls allowed plus those that may
  yet be allowed by the count of the row plus the number of callers; `Unbegun` keeps later windows
  empty and `Answered` bounds the whole by the calls made.

### What stays with TLC

- Liveness (`EveryJobEnds`, `ExpiredLeaseLeavesRunning`, `DueIsEnqueued`): the prover does not
  handle ENABLED, on which fairness rests.
- `IncrementalEqualsFull`, `EffectiveFilesystem` and `RightImage`: what a fold over a history, a
  sequence of layers or a nesting of indexes yields, which takes an induction over data. The types
  of `RepositoryScan` and `ContainerImage` are checked with them.

## Plan

Done: the queue with its workers, slots and synchronous scans; schedules; evidence, migration work
and retention; collection; the control plane; the proofs listed above. The theorems state every
safety property that a run checks, except those under "What stays with TLC". What the project
leaves out is listed below.

## Not modelled

- *Reporting, CBOM export, pilot evidence*: they read committed rows and format them. Their one
  promise about state, that they show the active observations, is `StatesMatchLatest`.
- *Request decoding, headers, routing, schemas*: no state; the role checks before the repositories
  are in `Accounts`.
- *Parsing*: regular expressions of the source scanner, ASN.1 of certificates, TLS and SSH
  handshakes, tar and JSON decoding, arguments of git. The models start from what parsing can
  yield.
- *Password hashing and ciphers*: a library's arithmetic, modelled by what is accepted.
- *`reconcile_scan_slots`, preview of a sweep, listings and summaries*: the first is called by
  scripts and tests only, the others change nothing.
- *Audit rows*: append-only, read by nobody who decides on them.
- *Configuration, metrics, logging, the accuracy benchmark, migrations, qualification scripts, the
  browser client*: they hold none of the service's state.
- *Crashes inside a transaction* are not steps: PostgreSQL rolls back, so they equal a crash
  before it.
