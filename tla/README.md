# A formal model of DQ Scoring

DQ Scoring imports datasets into an object store, scans them for sensitive
columns, evaluates rulesets, once two people have agreed on them, against immutable
snapshots of the datasets with Spark, and publishes a scorecard per run: a score, a
coverage, a quality gate. This directory holds TLA+ modules of the parts where
order, concurrency, failure or SQL's NULL decide whether it is right, the TLC
configurations that check them on small instances, and proofs, checked by TLAPS,
of the safety properties of all of them: the evaluation workers, uploads in parts, imports
and their registration, the rule engine, the scorecard, the approval of configurations, the
submission of runs, the privacy scans and what is masked.

Every definition is a translation of the code under `src/src/dq_scoring`;
`PROJECT.json` names the lines of each in `map`. Paths below are relative to
that directory.

    tlc -workers 2 -config EvaluationWorker.cfg EvaluationWorker   # a run
    tlapm EvaluationWorkerProofs.tla                               # proofs
    tlapm GovernanceProofs.tla
    tlapm ImportSessionProofs.tla
    tlapm PartUploadProofs.tla
    tlapm PrivacyScanProofs.tla
    tlapm ProtectionProofs.tla
    tlapm RuleEngineProofs.tla
    tlapm ScorecardProofs.tla

Contents: [1 the system](#1-the-system), [2 the modules](#2-the-modules),
[3 the runs](#3-the-runs), [4 fairness](#4-fairness),
[5 the proofs](#5-the-proofs), [6 disagreements](#6-where-code-and-documentation-disagree),
[7 what is left out](#7-what-is-left-out), [8 the plan](#8-the-plan).

## 1. The system

Processes: API pods (FastAPI; one event loop and a thread pool each), evaluation
daemons (poll loop, one heartbeat thread per execution), import daemons (poll
loop, heartbeat thread; the same daemon also runs privacy scans). They share a
PostgreSQL database with row level security and an S3 object store, and never
talk to each other directly: every interaction is a row that one writes and
another claims.

| Component | State | Operations | What makes it correct |
|---|---|---|---|
| Run queue (`adapters/queue/postgres_queue.py`) | `evaluation_runs`, `run_events` | enqueue, claim (`SKIP LOCKED`, reclaim), heartbeat, complete | a lease generation is given once; only the last one writes; events are the exact history |
| Evaluation worker (`workers/evaluation_worker.py`, `services/evaluation_orchestrator.py`) | the daemon's leased run and token | claim, verify snapshot, evaluate, verify again, save, complete | published once, by the last claim, from the pinned object; every run is settled |
| Assessment store (`adapters/db/postgres_assessment_store.py`) | `assessments` and their results | `save_assessment_atomic` | `SUCCEEDED` exactly with an assessment |
| Part upload (`presentation/api/routes/import_routes.py`) | session manifest, multipart upload, advisory and row locks | upload part, complete, abort | what is staged is what was recorded; a settled session stays settled; every request ends |
| Import session and daemon (`workers/import_worker.py`, `import_daemon.py`) | `dataset_upload_sessions` | stage, configure, abort, expire, claim, heartbeat, decide | the result shown is that of the last lease and the mapping in force; every import is decided |
| Snapshot registration (`services/dataset_import_service.py`) | `dataset_snapshots`, `data_assets` | register, reuse | version numbers without gaps or collisions, counters that agree |
| Compute engine (`adapters/compute/*.py`, `common/structured_values.py`) | installed dictionary, evaluators of the Python worker | compile, execute a ruleset in one pass, sample evidence | counts are what the rules mean, records are conserved, a rerun agrees |
| Scoring (`core/*.py`, `services/score_aggregator.py`, `services/validation_service.py`) | none | rule, dimension and dataset score, gate, publication | a score is a mean of what was measured; a pass means clean critical rules; repairing data never hurts |
| Governance (`presentation/api/governance.py`) | rulesets, policies, templates | create, submit, approve, supersede | one ACTIVE revision per scope, approved by somebody else, never none again after the first |
| Run submission (`presentation/api/routes/run_routes.py`) | (queue) | trigger a run | pinned to approved configurations, one run per idempotency key |
| Privacy scan (`workers/privacy_scan_worker.py`, `services/privacy_scan_service.py`) | `privacy_scan_jobs`, detector configuration | create, revise rules, claim, heartbeat, publish, fail, requeue | one active scan; findings all or none, of the pinned rules; every scan ends |
| Privacy policy and export (`services/privacy_service.py`, `privacy_policy.py`) | protection revisions, findings, declarations | review, declare, change policy, resolve, masked export | fail closed; a version covers what was read under it; an export is covered by its last check |
| Authentication (`adapters/db/refresh_token_store.py`, `login_lockout.py`) | refresh tokens, lockout | issue, rotate, revoke | not modelled (section 7) |
| Tabular import, object store, monitoring, read side, CLIs, frontend | files, snapshots of status | | data transformations and I/O |

The hard behaviours, and what the properties are for (the full list with lines
is `hazards` in `PROJECT.json`):

* **Leases.** A lease is an expiry time and a generation. It may run out under a
  daemon that works (stall, dead heartbeat thread, heartbeat that reaches no
  row); the row is then claimed again and two daemons work on it.
* **Transactions in two halves.** `save_assessment_atomic` checks its fence and
  inserts afterwards; `register_snapshot` reads a version number and writes it
  later; the API commits after it has answered.
* **`now()` stands still.** PostgreSQL's `now()` is the start of the transaction,
  so a fence may compare with a time long past.
* **Lost answers.** A commit, a PUT or a completion that happened and reported an
  error.
* **Locks on the event loop.** A coroutine that waits for a database lock stops
  every other request of its pod.
* **READ COMMITTED.** A statement sees what is committed when it starts; an UPDATE
  that waited looks at its row again, but does not look for new rows; four SELECTs
  of one function see four states.
* **Three-valued logic.** A record counts where a condition is true; a condition
  that is NULL is neither true nor, negated, false.
* **Row level security.** A daemon without a tenant's context sees and writes
  only what the dispatcher's policies allow, and a refused write is an error.

## 2. The modules

| Module | Shape | Models | Built on |
|---|---|---|---|
| `RunQueue` | one operator per statement of the queue and the store | `postgres_queue.py`, `postgres_assessment_store.py` | |
| `EvaluationWorker` | one action per step of a daemon | `evaluation_worker.py`, `evaluation_orchestrator.py` | extends `RunQueue`, instantiates `RunLifecycle` |
| `RunLifecycle` | the abstract promise of a queue | | |
| `EvaluationWorkerProofs` | theorems | | extends `EvaluationWorker` |
| `PartUpload` | one action per await, statement or store call | `import_routes.py` (`upload_part`, `complete_import`, `abort_import_session`) | instantiates `UploadLifecycle` |
| `UploadLifecycle` | the abstract promise of an upload in parts | | |
| `PartUploadProofs` | theorems | | extends `PartUpload` |
| `ImportSession` | one action per statement | `import_worker.py`, `import_daemon.py`, `import_routes.py` (`configure`, `abort`), `dataset_import_service.py` | instantiates `ImportLifecycle` |
| `ImportLifecycle` | the abstract promise of an import | | |
| `ImportSessionProofs` | theorems | | extends `ImportSession` |
| `Scorecard` | pure operators and the runs of one asset | `core/`, `score_aggregator.py`, `validation_service.py` | |
| `ScorecardProofs` | theorems | | extends `Scorecard` |
| `RuleCompiler` | pure operators: what a rule says of a record | `sql_rule_compiler.py`, `text_rule_compiler.py`, `structured_values.py` | |
| `RuleEngine` | authors, imports, dictionaries and runs | `spark_compute.py`, `text_rule_compiler.py`, `ruleset_routes.py` | extends `RuleCompiler` |
| `RuleEngineProofs` | theorems | | extends `RuleEngine` |
| `Governance` | one action per statement | `governance.py` and the create routes | instantiates `ConfigurationLifecycle` |
| `ConfigurationLifecycle` | the abstract promise of the approvals | | |
| `RunSubmission` | one action per statement | `run_routes.py` (`trigger_run`), `postgres_queue.py` (`enqueue_run`) | extends `Governance` |
| `GovernanceProofs` | theorems | | extends `RunSubmission` |
| `PrivacyScan` | one action per statement or fenced transaction | `privacy_scan_service.py`, `privacy_scan_worker.py` | instantiates `RunLifecycle` |
| `PrivacyScanProofs` | theorems | | extends `PrivacyScan` |
| `Protection` | one action per statement of a reader | `privacy_policy.py`, `privacy_service.py` | extends `PrivacyScan` |
| `ProtectionProofs` | theorems | | extends `Protection`, `PrivacyScanProofs` |
| `MCPartUpload`, `MCScorecard`, `MCRuleEngine`, `MCRunSubmission` | symmetry, rules, policies and cells for TLC | | extend the module they name |

Definitions whose comment begins with *Mutant* are plausible mistakes in the code
they stand next to. No specification uses them; each shows that a property would
notice the mistake (`mutants` in `PROJECT.json`). `TypeOK` (`ScanTypeOK`,
`GovTypeOK`) states the types of a module's variables; the runs list properties
that say more, and the proof modules prove theirs.

### RunQueue and EvaluationWorker

`status`, `generation`, `events`, `assessments` are the columns and tables of
those names. A lease's expiry is the Boolean `expired`: whether
`lease_expires_at < now()`. `locked` is the daemon whose open transaction holds
the row's lock, which `SKIP LOCKED` skips and every other statement waits for.
`EnqueueRun`, `ClaimNextRun`, `Heartbeat`, `CompleteRun` are the adapter's
methods; `SaveFence` and `SaveCommit` the two halves of the store's.

A daemon's `pc` goes through `polling`, `claimed` (first heartbeat), `verify`,
`evaluate`, `reverify`, `save`, `insert`, `complete`, and `ok` or `raised`;
`fail` is the `except Exception` branch, which calls `complete_run(FAILED)`.
Each step has its ordinary outcome, its refusal (a `PermissionError`, which leaves
the run alone) and, as a *disturbance* counted by `faults`, an answer that never
arrives. The heartbeat thread is `beating`; each of its transactions is a member
of `beats` from its start (when `now()` is fixed: `live`) to its end, and may
outlive the execution, since `stop()` waits two seconds at most. `object` says
whether the snapshot's object still has its pinned version, and may change at any
time.

Bounds: `MaxFaults` disturbances in a behaviour (crash, lost answer, a lease that
runs out although it is renewed). Generations are not bounded in the model; they
are in a run because a lease is lost only through a disturbance.

`RunLifecycle` is what clients may rely on: a run is submitted, granted to one
evaluation after another, each in an epoch of its own, and settled once by the
evaluation of the latest epoch. `ImplementsLifecycle` maps `LEASED` to *granted*,
the generation to the epoch, and the assessments and the failure to the result.

### PartUpload

One upload session of `Parts` parts, its rows (`status`, `recorded`), the
multipart upload in the store (`multipart`, `stored`, `object`), and requests.
A request is at `lock`, `stream` (the body arrives), `put`, `record`, `call`,
`reply`, `exit` (its transaction is open until here). `upload_part` is a
coroutine: its SQL runs on the event loop, and `loop[p]` is the request whose
waiting statement keeps pod `p`'s loop. `late` holds PUTs of dead pods that may
still land. A part's bytes, digest and ETag are one value.

`UploadLifecycle` promises that a part is recorded once, that the object is put together
once and from all the records, that an upload is staged only when there is an object,
and that what was aborted is not staged any more. It knows no
requests and no store but the final object. `ImplementsUpload` reads the session's
two statuses of an upload in progress as *open*. A record that comes after an abort is
allowed, as the code allows it: it changes nothing that a client can complete.

### ImportSession

Sessions `1..n` in creation order, with status, reason, content (`raw`,
`mapping`, `target`), lease (`generation`, `attempts`, `lapsed`), `overdue`
(`expires_at` has passed), `result` and `snapshot`. `Select` and `Claim` are the
two statements of `claim_next_session`, `Begin` the start of the transaction of
`process_session`, `Finish` its fenced decision. `DispatcherSees`,
`DispatcherUpdates` and `DispatcherMayWrite` are the row policies of migration 015.
PostgreSQL applies the SELECT policy to the row an UPDATE writes too, when its
WHERE reads columns; that is why a claim that would write `FAILED` is refused.
`RegisterBegin` .. `RegisterWrite` are the statements of `register_snapshot`, with the row
lock of the asset (`assetLock`); `Collides` says that the INSERT would break a
unique index. `MaxAttempts` is the code's constant 3, smaller in some runs.

`ImportLifecycle` sees of an import what its client sees, and of an asset the contents it
has, each with the mapping of its form. An import is attempted at most `MaxAttempts` times, decided by
an attempt under way, reconfigured or aborted; registering it puts exactly its content, under the
mapping in force, into the catalog, in one step, and only when no other form of the
content is there. The catalog is a set: a registration that reuses a snapshot is the same
step as one that writes a new version.

### Scorecard

`Result` is `ValidationService._process_rule_result`, `DimScore`,
`DimCoverage`, `Score`, `Coverage`, `Gate`, `Published` the functions of `core/`, `Card` is
`ScoreAggregator.aggregate`. A score is an exact fraction. The state is the
history of one asset under one ruleset and policy; each step is a run on a
snapshot that differs from the last in one respect (a record repaired, spoiled,
missing or out of scope; a rule that cannot be compiled; an empty snapshot; other
outlier columns). The steps make it possible to state how two runs compare.

`Rules` and `AnyPolicy` are what the request models of the API accept. Weights, which the
code keeps as floats, are natural numbers: they enter ratios only, so that those
of a ruleset may be brought to a common denominator. `RuleScore` is `compute_rule_score`.
`DetectOutliers` keeps of a column whether it is in the snapshot, how many of its values
are numbers and whether their quartiles differ; `SignalOf` is the status
`build_outlier_advisory_result` makes of that. `MinOutlierSample` is the
code's `MIN_OUTLIER_SAMPLE`, 2 in the run instead of 4, since the run's snapshots have two records.

### RuleCompiler and RuleEngine

A condition on a record is `"true"`, `"false"` or `"null"`. A cell is kept as what
rules tell apart (NULL, blank, the number it parses to, its words, its JSON
document), and a pattern, length or format is the set of cells it matches. The
`Compile...` operators are the branches of the two compilers; each gives four
columns (missing, miscast, failed, out of scope), which `Classes` combines in the order of
`execute_rules`. The state is what outlives a run: the dictionary the operator
has `installed`, the active `rules` with the digests they pinned, the snapshot
(`data`), the outputs of the last run, and the `cache` of the Python worker.
`Accepted` is what the routes check when a ruleset is written, `Compiles` what
`compile_rule` checks again; a rule that does not compile fails alone, and a pattern that
only Spark can reject makes the whole pass fail (`Raises`). `create_ruleset` looks for JSON
columns in `column` and `comparison_column` only (`Inspected`), the compiler also in
`compare_to` (`Referenced`), so a ruleset can be accepted that does not compile. The sample of evidence is a
second query whose exceptions `execute_rules` catches: `Execute` chooses the rules whose
sample is lost (`unsampled`), and their evidence is empty whatever the counts blame.

### Governance and RunSubmission

`row` holds what is committed, `pending` what a transaction has written, `lock` the
row locks. A request is at `submitting`, `superseding`, `waiting`
(for the lock of the revision `seen`), `activating`, `refused` or `exit` (the
response is sent, the commit is not). The partial unique index acts where
PostgreSQL acts: an insertion waits for a rival whose entry of the index an uncommitted
transaction changes (`IndexBusy`, `ChangesIndex`) and fails on a committed one
(`IndexTaken`). A row that the superseding UPDATE has waited for, and that is no longer
ACTIVE when it looks again, is passed over but stays locked until the transaction ends:
PostgreSQL locks the row's new version before it evaluates the WHERE again. `WaitsFor`
says which transaction the next statement of a request waits for. `ScopeOf` is `supersede_scope`: the asset of a
ruleset, the tenant of a policy. In `_transition`, the 409 of an UPDATE
that finds no row cannot be reached, as the row was read `FOR UPDATE`; the model
has it as the code does.

`RunSubmission` adds `trigger_run`: two reads, `LookUp` of the key, `Insert`
(`ON CONFLICT DO NOTHING`, which waits for an uncommitted row of the key),
`ReadBack`, and the commit after the response. A run is the
configuration it pins. What becomes of it is `EvaluationWorker`; the foreign-key
locks that the INSERT takes on the ruleset are shared, conflict with no UPDATE of a
status, and are left out.

`ConfigurationLifecycle` promises that a revision is drafted, proposed and
approved, by somebody who neither drafted nor proposed it, and that the approval
puts it in force in the same step in which it replaces the one before. Only
commits are visible in it.

### PrivacyScan and Protection

One snapshot with one column. `config` is the history of the detector rules,
`job` the rows of `privacy_scan_jobs` (the scan that the registration records is `Import`),
`order` their `created_at`: the start of the request's transaction, so
a scan that was queued late may be the older one. `assetLock` is the lock that
requests and publications share. A worker is at `polling`, `scan`, `publish`,
`requeue` or `fail`. A heartbeat is modelled by what it prevents: `Lapse` of a
lease somebody holds is a fault. `live` is the lease as the publishing
transaction's `now()` sees it. The unique index `uq_privacy_scan_jobs_active` is a
second line of defence behind the asset's lock and is not modelled: the lock
alone gives `OneActiveScan`.

`Protection` adds reviews, declarations, policy changes and readers.
`resolve_snapshot_protection` is `ReadVersion`, `ReadDeclarations`,
`ReadFindings`, `ReadScanState`, in separate statements; an export resolves, writes,
resolves again and is released if version and columns are the same. `open` and `calm`
record what was true during a resolve, for the properties only.

Bounds: `MaxConfig` versions of the rules, `MaxVersion` changes by people,
`MaxFaults` crashes, early lapses and rejected publications; `MaxAttempts` is the
code's constant 3, smaller in the runs.

## 3. The runs

| Run | Instance | Shows |
|---|---|---|
| `worker` | 2 daemons, 2 runs, 1 disturbance, fair (760 k states) | `SucceededIffPublished`, `PublishedByLastClaim`, `PublishedFromPinnedObject`, `ReportedSuccessIsPublished`, `SaveIsCurrent`, `EventsExplainRow`, `TerminalIsFinal`; the workers implement `RunLifecycle` (`ImplementsLifecycle`); `EveryRunSettles` |
| `part_upload_safety` | 3 requests, 2 parts, 2 contents, 1 pod, 1 fault (2.6 M states) | `StagedIsRecorded`; requests implement `UploadLifecycle` (`ImplementsUpload`) |
| `import_leases` | 3 daemons, 3 attempts, 2 mappings, 1 import, fair | `VerifiedIsOfLastAttempt`, `DecidedByOwner`, `EveryImportDecided` |
| `import_registration` | 2 imports, 2 contents, 2 mappings, 1 asset (2.5 M states) | `RegisteredIsVerified`, `VersionsAreDense`, `RegistrationNeverCollides`; imports implement `ImportLifecycle` (`ImplementsImport`) |
| `scorecard` | 45 rulesets of 9 kinds of rule, 4 policies, every partition of 2 records (72 k states) | `ScoreIsMean`, `PassMeansClean`, `PassIsPublished`, `RepairNeverHurts` |
| `rule_engine` | 30 rules for every branch of the compilers, alone and three together, 40 snapshots of up to 3 records, 2 dictionaries, any sample lost (155 k states) | `RecordsConserved`, `CountsAreMeant`, `EvidenceIsCounted`, `RerunAgrees` |
| `run_submission` | 3 rulesets of an asset, 1 policy, 2 users of whom 1 may approve, 2 requests, 2 triggers with 1 key, symmetry (206 k states) | `OneActivePerScope`, `ApprovedIndependently`, `NoCircularWait`, `RunsAreApproved`, `OneRunPerKey`; requests implement `ConfigurationLifecycle` (`ImplementsConfiguration`) |
| `privacy_scan` | 2 requests, 2 workers, 2 attempts, 1 rule with 2 versions, 2 faults, fair (700 k states) | `OneActiveScan`, `FindingsOfPinnedRules`, scans implement `RunLifecycle` (`ImplementsLifecycle`), `ScanSettles` |
| `protection` | an APPLY and a PREVIEW scan, 1 worker, 1 reader, 2 changes, 2 versions of the rules (6.2 M states) | `FailClosed`, `VersionCoversView`, `ExportCoversProtection` |
| `part_upload_stuck`, `import_overdue`, `protection_torn` | the smallest that shows it | section 6 |

Why the bounds are enough. Two daemons on two runs are needed for a daemon that
is preempted, works on, and meets both its successor and another run; one
disturbance lets the lease go or hits an answer on the way. That safety and
refinement hold for any number of daemons, runs and disturbances is proved.
Three requests let two uploads of one part race with a completion
or an abort; the contents are two because the question is only whether bytes
differ. The same holds of uploads and imports: the small instances found the invariants
that the proofs need, and the proofs have no bounds. Registration is a race of two transactions in one asset; two contents
and two mappings give all the ways in which a second import can equal the first.
In `Scorecard`, two rules in one or two dimensions meet every combination of a
rule that decides the gate and one that counts; two records make a rule partly
right. In `RuleEngine`, a record meets each rule on its own, except under
`UNIQUENESS`, where three records give a value its second and third occurrence, and
for the sample, whose limit is 2 instead of 50; a cache of 2 instead of 3 is full with
two dictionaries. Approvals race in pairs, around a third revision that is ACTIVE
already; of two users one may approve, which is enough to be refused for one's role, one's own draft
and one's own submission; any numbers of them are proved. One column and one rule suffice for scans and
protection, since every statement treats columns alike; two scans are one before and
one after, and the readers do not see each other.

`CHECK_DEADLOCK FALSE` is said in the runs of `PartUpload`, `ImportSession`,
`PrivacyScan` and `Protection` only: an upload that is aborted, or a
snapshot whose scans are over, with no request under way and all bounds
spent, has nothing left to do; and in `part_upload_stuck` the pod
really stops, which is what `EveryRequestEnds` reports.

## 4. Fairness

* `EvaluationWorker`: weak fairness of each daemon's main thread (a thread is
  scheduled, and a Deployment restarts a pod), and of the lapse of a lease that
  nobody renews (time passes). Nothing is assumed of heartbeat threads, clients or
  faults; disturbances are finite by `MaxFaults`, and without that bound no run
  need ever settle, as the code bounds no retries.
* `PartUpload` (only in `part_upload_stuck`): strong fairness of the steps of a
  request. PostgreSQL grants locks in the order of the requests for them, so a
  request that can be granted again and again is granted; the body of a request
  arrives or breaks off. With two pods that work on one request each
  (`InFlight = 1`) `EveryRequestEnds` holds under the same fairness.
* `ImportSession`: weak fairness of each daemon and of the lapse of leases, and
  strong fairness of the claim: a daemon does not crash in every one of its
  claims. Heartbeats, clients and registrations owe nothing.
* `PrivacyScan`: weak fairness of each worker, of the lapse of a lease that
  nobody holds, and of the end of a request that holds the asset's lock (it
  commits or its connection is closed). Requests, editors and faults owe nothing. Faults
  are finite by `MaxFaults`: attempts are limited, but a worker that dies each time
  before it has recorded the failure never ends the scan.

The other modules are about safety only.

## 5. The proofs

### The evaluation worker

`EvaluationWorkerProofs` proves, for any sets of runs and daemons and any number
of disturbances, every safety property that `worker` checks and the refinement. Its
only assumptions are those the modules state: `None` is no run and no worker, and
`MaxFaults` is a natural number.

The inductive invariant is

    Inv == TypeInv /\ LockOK /\ PinOK /\ DoneOK /\ TokenOK /\ \A r \in Runs : RowOK(r)

* `LockOK` ties a row's lock to the one daemon that is inserting: without it the
  commit of a save could meet a row that has been claimed since its fence.
* `TokenOK` bounds the tokens of daemons and beats by the row's generation and
  makes them distinct among daemons that execute the same run. `TokensAreUnique`
  alone is not inductive: a new claim must be known to exceed all older tokens.
* `PinOK` says that a daemon past `reverify` read only the pinned object. `object`
  never goes back, so an object found pinned at the second verification was pinned
  during the evaluation.
* `DoneOK` says what a daemon at `complete` or `ok` knows about the store.
* `RowOK(r)` relates status, generation, assessments and events of a row; the
  event log is given in closed form (`LogOf`), so that a step appends exactly one
  term to it.

Each property then follows from `Inv` (or, for `TerminalIsFinal` and the
refinement, from `Inv /\ [Next]_vars`): `TypeCorrect`, `OutcomeIsAtomic`,
`FencingHolds`, `PinningHolds`, `SaveKeepsLease`, `TokensStayUnique`, `ReportsAreTrue`,
`LogIsExact`, `FinishedRunsStay`, `Refinement`.

### Uploads in parts

`PartUploadProofs` proves, for any parts, contents, requests, pods and faults, every
property that `part_upload_safety` checks. It assumes what the module states: `None` is
no request, content or kind of request, there are parts, and the bounds are
natural numbers (`UploadAssumption`, `KindAssumption`).

    Inv == TypeOK /\ (\A r \in Requests : RequestOK(r)) /\ ObjectOK

* `RequestOK(r)`: what a request has read under a lock is still so. Of a part, that is its
  recorded digest, as long as the part's advisory lock is held; of a session, its status
  and all records, as long as its row is locked. So a request that is about to
  record a part still finds it unrecorded, and one that calls the store's completion still
  finds every part recorded. Whoever has something to commit holds the row.
* `ObjectOK`: the object is what was recorded, and then everything was. `StagedIsRecorded`
  alone is not inductive: a part committed after the completion could
  differ. It cannot come: a part that is still to be recorded has no record, and with an
  object every part has one.

`OthersStay` carries the argument: a request keeps its part of the invariant unless
somebody takes its locks or changes what they guard. Every step but a commit leaves the
session alone (`Steps`). Nothing is needed about the bytes of late PUTs: the completion
compares ETags.

In the refinement, the commit of a part is the recording of a part that had no record, since
`RequestOK` says that the digest read under the advisory lock still holds; the
store's completion assembles the object from all records, since it is called
under the row's lock; and the commits of a completion and of an abort are `Stage` and
`Abort` (`CommitIsOneStep`, `CompletionIsOneStep`). Every other step is a stutter
(`OthersStutter`), late PUTs and lost answers among them. That a record is for good, that an
upload is assembled and staged once and that a settled session never reopens is
what `UploadLifecycle` says, so those are not properties of their own. Theorems: `Invariance`,
`TypeCorrect`, `StagedHoldsRecord`, `Refinement`.

### Imports and registration

`ImportSessionProofs` proves, for any numbers of sessions, daemons, assets, contents,
mappings and attempts, every property that `import_leases` and
`import_registration` check except `EveryImportDecided`, from the module's
`ImportAssumption`.

    Inv == /\ TypeOK
           /\ \A s \in Sessions : SessionOK(s) /\ RegisterOK(s)
           /\ \A w \in Workers : JobOK(w)
           /\ \A a \in Assets : AssetOK(a)
           /\ RegisteredIsVerified

* `SessionOK(s)`: a verified session shows the result of its last lease and of its mapping.
* `JobOK(w)` orders the leases: a daemon's generation is at most the row's, and a daemon
  that still owns the row inspects under the mapping in force. A row selected for a claim is
  locked until the claim is written, so it is what the SELECT has read, and selected once.
* `RegisterOK(s)`: a registration holds the row of its asset, so that what it has read of
  the versions still holds when it writes: no equal content, and the next number.
* `AssetOK(a)`: versions are numbered `1 .. count`, and as many as their contents. From
  this, `LatestIsCount` shows that `MAX(version_number)` is the count.

`ClaimGranted` shows that a claim the policies let through is the ordinary one: the branch that
would write `FAILED` is refused, which is what `import_overdue` reports. `FinishDecides` goes through
all actions to show that a decision is made by an inspection under the current lease and of the
mapping in force, and that this lease had not run out when the deciding UPDATE's `now()` was
taken (`Decides`).

In the refinement, a granted claim is an attempt and a fenced decision a decision
(`DaemonsAreSteps`); the client's calls are those of the abstract import (`CallsAreSteps`);
and of the statements of a registration only the last is a step
(`RegistrationsAreSteps`). It puts the import's content into the catalog because
`SessionOK` says that the result it was made from is of the mapping in force, and it finds no
other form there because `RegisterOK` still holds at the write; that an asset has one
version of a content at most is `OneVersionPerContent`. A heartbeat, a lapse, a crash
and a claim that the policies refuse are stutters. Theorems: `Invariance`, `TypeCorrect`,
`LastAttemptShows`, `SnapshotHoldsImport`, `VersionsStayDense`, `NoCollision`, `LeaseDecides`,
`Refinement`.

### Approvals and submissions

`GovernanceProofs` proves, for any revisions, scopes, users, requests, triggers and
keys, every property that `run_submission` checks. It
assumes what the modules state: rulesets and policies are different rows, every
revision has a scope, approvers are users, and `None` is none of the values it
stands beside (`GovernanceAssumption`, `RowAssumption`, `SubmissionAssumption`).

    Inv == TypeOK /\ GovInv /\ TriggerInv

* `RowOK(v)`: what is written and uncommitted is the next stage of the committed row,
  written by the owner of its lock. A commit is therefore always a step of the
  lifecycle.
* `RequestOK(q)`: a request past its `FOR UPDATE` still holds the lock, and what it
  checked of status and approver still holds.
* `IndexOK(v, o)`: what the unique index has let in. A revision about to become ACTIVE
  has no rival that is ACTIVE or about to be, except one superseded by the
  same transaction. `OneActivePerScope` speaks of committed rows only and is not
  inductive: two commits could each be harmless and together break it.
* `TriggerInv` says the same of runs: an uncommitted run of a key is the only one
  (`Sole`) and what it pins is approved (`InsertedOK`, `TriggerOK`).

`Framed` carries most of the argument: a request touches no other request and no
row that another has locked, so that each action disturbs one request's part of the
invariant. `ApprovalIsForGood` (an approved revision stays approved, by the same person)
is what makes a trigger's reads, which lock nothing, good enough:
`RunsAreApproved` promises approval and not that the revision is still ACTIVE at the enqueue.
In the refinement every action but `Commit` is a stutter; a commit is a draft, a
proposal or an approval, with the supersession in the same step.

`NoCircularWait` speaks of chains: whoever waits for somebody who waits, waits for nobody
who waits in turn. `WaitingIsGuarded` ties `WaitsFor` to the guards of the two actions that
wait. Who holds the row that a superseding UPDATE waits for is not waiting for a row
itself (`RowHolder`): that row was in force when it was found, and an approver's
own row is still pending, so that the holder is past its UPDATE. Who changes an entry of the index does not wait at
all (`IndexHolder`): if it did, a third request would have a second revision ACTIVE in the
scope, which `IndexOK` excludes. Two links are possible, since a row that was passed over stays locked
by a request that then waits for the index. A request that has yet to take its first
lock holds nothing and is waited for by nobody; a trigger waits for a committing trigger
only, which waits for nothing. Theorems: `TypeCorrect`, `OneActive`, `FourEyes`,
`RunsPinApproved`, `KeysAreIdempotent`, `NoDeadlock`, `Refinement`.

### Privacy scans

`PrivacyScanProofs` proves, for any numbers of scans, workers, rules, attempts and
faults, every property that `privacy_scan` checks except `ScanSettles`. It assumes
what the module states: `None` is no scan, worker or job, and the bounds are
natural numbers (`PrivacyScanAssumption`, `JobAssumption`). The bound of a type on
`config` is the model's `MaxConfig`; nothing depends on its value.

    Inv == /\ ScanTypeOK
           /\ \A s \in Scans : RequestOK(s) /\ JobOK(s)
           /\ \A w \in Workers : WorkerOK(w)
           /\ OneActiveScan /\ FindingsOfPinnedRules

* `RequestOK(s)`: a request that has found no active scan still holds the asset's lock when
  it inserts one, so its finding still holds. `OneActiveScan` alone is not inductive: two
  requests could both be about to insert. It also says that a job carries the
  version its request has pinned, without which a publication could not be
  compared with that version.
* `JobOK(s)`: a scan that may still be settled has not been, and one that runs has been
  granted, so that a settlement is the first and is in an epoch.
* `WorkerOK(w)`: the job that a worker goes back to is there.

A step that moves one scan changes nothing that the invariant says of another (`OneMoves`);
the fence (`HoldsRunning`) makes the settling worker the holder of the last lease, and a
scan without published findings gets exactly those of its version
(`PublishedFindings`, `PublicationOfPinnedRules`). In the refinement the commit of a request
is a submission, a claim a grant, a publication or a recorded failure a
settlement; a lapse and a requeue are stutters, since a scan once granted counts as granted.
`OldestIsOne` shows that a claim takes a scan that exists, from the well-founded
order of the natural numbers. Theorems: `Invariance`, `TypeCorrect`, `OneActive`,
`FindingsAreOfPinnedRules`, `Refinement`.

### Masking

`ProtectionProofs` proves every property that `protection` checks, for any numbers of
scans, rules, readers and changes, from the assumptions of `PrivacyScan` and
`ProtectionAssumption` (`None` is no reader, the bound on versions is a natural number).
It takes the invariant `Inv` of `PrivacyScanProofs` over: the steps of scans are the same
here, and people change only findings, declarations and the version.

    Stored        == Inv /\ OrderOK /\ ImportOK /\ DismissedOK
    ProtectionInv == TypeOK /\ Stored /\ \A r \in Readers : ViewOK(r) /\ ExportOK(r)

* `OrderOK`: a scan is recorded once, when it is requested. Only then is `Latest`
  one scan, and only then does a new request move no older one (`LatestIsOne`,
  `LatestStays`).
* `ImportOK`: the registration has found what the first version of the rules
  detects, as `FindingsOfPinnedRules` says of every other scan.
* `DismissedOK`: decisions are carried over to later scans only for the same rule and
  revision, so behind every dismissed finding there is a reviewer who dismissed that
  revision (`DecisionsCarried`).
* `ViewOK(r)`: what a reader has gathered is true for as long as the version it began
  with is in force. What is read before and what is read after a change are not
  related, which is why a torn view is possible at all (section 6).
* `ExportOK(r)`: while the version of an export's first view is in force, the column
  is as that view says; a second resolve that names the same version has therefore begun at
  an unprotected moment, and `open` remembers it.

The argument: a column is open only if the latest scan that is applied is complete and
of the rules in force; its findings are those of these rules, none is active, so all
are dismissed, and `DismissedOK` names the reviewer. The lemma that carries the other two
theorems is `VersionCounts`: whenever what is detected or verified changes, the version
grows, unless a rule is revised. A revision closes columns and counts for no asset, hence
`calm` in `ExportCoversProtection`. Theorems: `ProtectionInvariance`, `ProtectionTyped`,
`FailsClosed`, `ViewsAreCovered`, `ExportsAreCovered`.

### The scorecard

`ScorecardProofs` proves every property that `scorecard` checks, for any finite set of
dimensions, any rulesets and policies the API accepts, and any number of records. It
assumes what the module states (`DimsAssumption`, `RowsAssumption`,
`RulesetsAssumption`, `PoliciesAssumption`): dimensions are finitely many, snapshots on
which rules are measured have records, and a policy's thresholds are in range and in
order, as `ruleset_schemas.py` and `policy_schemas.py` demand.

The inductive invariant `Consistent` is short: the card is the one that the outputs of
the last run give under the active ruleset and policy, and those are typed. The work is
in the operators. Sums are folds of the community modules, over sets whose size is not
known:

* Induction over data is done in set form, as no prover takes a predicate for a
  parameter. `SubsetInduction` says that a *set* of subsets which holds every finite set
  whose parts it holds, holds the whole: the least counterexample comes from `WFMin`.
  `FoldExists` shows that the recursion behind a fold has a solution, `TotalPicks` and
  `TotalAdds` that a sum may be taken apart at any element, `TotalAgrees` that it
  depends on nothing outside the set.
* `MeanIsBetween` (a weighted mean lies between the least and the greatest value),
  `MeanReplaced` and `MeanJoined` (it does not fall when a value rises, or when the best
  possible value joins) give the rest, twice: once for rules in a dimension, once for
  dimensions in a dataset.
* `Better(r, q)` and `Improves(R, r, Q, q)` say what repaired records do to a result:
  the score rises and the violations fall, or a rule that had nothing to measure now
  scores 100. The second case raises the coverage too, and is why `RepairNeverHurts`
  needs both lemmas about means.
* `RepairNeverHurts` is about any number of records, repaired under any number of rules.
  Under one rule, `ShareGrows` says that a share does not fall when its part grows and the
  rest does not. Over several, `RepairedCard` repairs the rules one after the other, by
  `SubsetInduction` on the set of rules already repaired, and `NoWorseTransitive`
  compares the first card with the last. Between two of these there need not have been a run.
* `CriticalStays`, `EvidenceStays`, `FailuresStay` go through the tiers of the gate;
  `PassPublishes` needs in addition that weights are not zero, and only there.

Theorems: `AlwaysConsistent`, `TypeCorrect` (scores are in 0 .. 100, coverages in 0 ..
1, and no denominator is 0), `ScoreIsAMean`, `PassIsClean`, `PassPublishes`,
`RepairsNeverHurt`. `PassIsClean` says of the rules that are not advisory what a PASS or a
WARN means: a required one does not apply or was measured (`RequiredMeasured`), and a critical
one that was measured without tolerance blames nothing. It says nothing of a critical rule
that is not required and could not be measured, because the gate does not either.

### The rule engine

`RuleEngineProofs` proves every property that `rule_engine` checks, for any rulesets,
snapshots, dictionaries, sample limit and cache size, from `LimitsAssumption` (the cache
has room for one evaluator), `SnapshotsAssumption` (a snapshot is a sequence of rows)
and `RulesetsAssumption` (a rule is of a type the API knows, with the fields its schema
demands). Nothing is assumed of the cells.

    Inv == /\ installed, data and rules are typed, rules are Readable
           /\ Kept(cache)
           /\ outs # None => data \in Snapshots /\ \A i \in DOMAIN rules : Earned(rules[i], outs[i])

* `Kept(cache)`: every evaluator kept is the one its key names, keys are distinct, and
  the cache is within its bound. `UseKeeps` and `UseAllKeeps` carry it through the
  spelling rules of a run, which is where a key without the accepted terms would break
  it.
* `Earned(rule, out)`: an output is a function of the rule, the dictionary it has pinned
  and the snapshot, but for a sample that was lost, or a failure to measure. It names neither `installed` nor `cache`;
  this is what makes two runs agree (`SameMeasurement`).

From `Earned`, the properties are about one pass:

* `Faithful(c, rule, row)`: the conditions of a rule put a record into the class it
  belongs in, and into no other, and blame it for one reason at most. One lemma per rule
  type (`NonNullFaithful` .. `SpellingFaithful`), from the tables of the three-valued
  connectives (`Conjunction`, `Shielded`, ...), joined in `RuleFaithful`. The only rule
  with a NULL left in its conditions is the list of allowed values with a null; even
  there the blame is single, so that `EvidenceIsCounted` needs no exception and
  `RecordsConserved` does.
* `JsonFieldFaithful`: the checks that Spark computes on the extracted text agree with
  those that Python makes. It needs that the descent along a path ends (`ReachedState`):
  the recursive function has a solution, again by induction in set form (`Counting`).
* `OnePassesPerValue`: of the records with one value, the one of rank 1 passes; a
  bijection between the passing records and the values.
* `Partition` and `CountsOfClasses` turn classes into counts that add up.

Theorems: `Invariance`, `TypeCorrect`, `NoRecordIsLost`, `CountsAreFaithful`,
`EvidenceIsBlamed`, `RerunsAgree`.

### Only model-checked

Liveness (`EveryRunSettles`, `EveryImportDecided`, `ScanSettles`, and
`EveryRequestEnds`, which a run refutes) rests on fairness, which is out of the prover's
reach. Every other property of a passing run is proved. That the model's fractions stand for the code's floats, whose rounding may move
a score across a threshold, is neither checked nor proved.

## 6. Where code and documentation disagree

Each of these is a run that expects a violation; `findings` in `PROJECT.json`
quotes both sides.

| Run | What the run shows |
|---|---|
| `part_upload_stuck` | Two uploads of one part in one pod stop the pod for good: the second waits on the event loop for a lock whose holder needs the event loop. |
| `import_overdue` | The claim cannot mark an overdue or exhausted import as failed; it stays first in the queue and blocks it. |
| `protection_torn` | The view of a snapshot's protection is read in pieces; when a scan is published between the last two, a column that was protected at every moment appears open. An export resolves again and notices what a publication, a review or a declaration has changed; a preview does not resolve again. |

Met while modelling, in the models as the code has them, and without a run of their own:

* A heartbeat of a run that waited for the row lock renews a lease that expired
  meanwhile, because its `now()` is older (`postgres_queue.py:284`). Fencing still
  holds: the generation has not changed.
* The heartbeat of the import daemon reaches no row under the row policies, so every
  inspection has the 60 s of its first lease (`import_worker.py:71`).
* `ValidationService` leaves `is_advisory` out of its results: an advisory rule
  that is marked critical fails the gate, although the repository's `README.md:39` says that
  advisory rules contribute to neither score nor gate. The model has the code's behaviour;
  `PassMeansClean` speaks of the other rules only, and would hold with the flag passed on.
* A null in the allowed values of a `DOMAIN_RANGE` rule makes SQL's `IN` NULL for every other
  value: those records are in no class, although `README.md:36` promises that
  records are conserved and `sql_rule_compiler.py:34` mutually exclusive partitions. The
  identity that `execute_rules` checks is computed from the same counts and does not
  notice. `RecordsConserved` therefore excepts such lists.
* A `DOMAIN_RANGE` pattern that Java cannot compile makes the whole pass fail,
  not only its rule (`compile_rule` promises to contain faults).
* The number NaN passes a range that has a lower bound only, since Spark orders NaN
  above all numbers.
* A scan that waited for the asset's lock has an older `created_at` than one that was queued meanwhile,
  so it never becomes the latest. Masking then fails closed.

## 7. What is left out

Authentication: token rotation and the lockout counter are single statements
under a row lock. Templates: a third table of the workflow that `Governance` models,
not instantiated; template packs are imported in one transaction (on the pod's event
loop, which it stalls meanwhile). Spark's session, profiling and the quartiles of
`detect_outliers` (only whether they differ is modelled); the tabular parser (a sequential transformation whose outcome is an
input of `ImportSession`); the read side of the API; monitoring (nothing depends on
it); command line tools that run alone; the in-memory adapters (test doubles); the
frontend.

Within the modelled components: floats and their rounding (exact fractions instead;
`dataset_scoring.py:48`), the time a lease lasts (only whether it has run out), page
sizes and message texts, `create_import_session`, the per-word cache of a spelling evaluator
(a cache of a pure function), more than one Python worker, snapshots of before
migration 020 whose manifest names no detector configuration, how a tenant's
configuration is seeded on first use (`PrivacyScan` starts with its result), run specifications that no longer validate, the priorities of runs
(all equal) and `attempt_count` of a run (counted, compared with nothing); the protected
columns of an import that is not registered yet (`privacy_policy.py:126`), which are those of
its own manifest and the asset's declarations, and all columns without a complete scan; what
`get_sensitive_findings` reads besides the protection (the job's dates and the page of
findings); in `RuleEngine`, the registration of a snapshot beyond its becoming the asset's
current one (`ImportSession` has it); the response of a repeated trigger, which joins the old
run's id to the new request's data (`run_routes.py:163`).

Covered by proof and not by a run: that previews and scans to apply do not exclude
each other, and that a preview publishes nothing (`privacy_scan` has no previews, which would
take it past what can be checked; `protection` has one, with one worker). Not covered: that
the other imports wait behind one that cannot be failed (`import_overdue` has one
import), imports whose attempts are spent (`EveryImportDecided` excuses them, as nothing in
the code resets `attempt_count`), and a revision of the rules between the two resolves of an
export (`calm` in `ExportCoversProtection` excuses it).

## 8. The plan

Done, each with its proofs: `RunQueue`, `EvaluationWorker`, `RunLifecycle`; `PartUpload`,
`UploadLifecycle`; `ImportSession`, `ImportLifecycle`; `Scorecard`; `RuleCompiler` and `RuleEngine`; `Governance`,
`ConfigurationLifecycle` and `RunSubmission`; `PrivacyScan`; `Protection`.

Left, in this order:

1. `RefreshTokens`, small: a rotated token is used once, and a reuse revokes its family.
2. Templates as a third table of `Governance`, with scopes of its own: another instance of
   what is proved for any scopes.
3. Floats: how far the scores of the code are from the fractions of `Scorecard`, and which
   thresholds are therefore decided by rounding.
