# Transport Lookout: specification and proofs

Transport Lookout splits an approved network into shards, hands the shards to
Celery workers through a transactional outbox and RabbitMQ, and turns what Nmap
finds into an inventory of exposed services. This directory holds TLA+
specifications of that machinery, the TLC configurations that check them on
small instances, and proofs checked by TLAPS. Source paths below are relative
to `src/src/scanpod_enterprise/`.

## 1. Inventory of the system

| Part | Source | State | Operations | Talks to |
|---|---|---|---|---|
| Dispatch | `services.py:54-79` | leases on `scan_shards`, `outbox_events` | `dispatch_available_shards` | called by API, scheduler and every worker |
| Outbox | `services.py:82-113`, `publisher.py` | `outbox_events.delivered_at` | `publish_pending_outbox` | reads the database, sends to the broker |
| Workers | `worker.py` | shard rows, observations, `/tmp` files | `execute_shard`, `claim_lease`, `run_command`, `finish_lease` | broker, database, scanners, artifact store |
| Finalization | `services.py:142-221` | `scan_runs.status`, `current_exposures` | `finalize_terminal_run`, `materialize_current_exposures` | called by workers and by the scheduler |
| Scheduler | `scheduler.py`, `services.py:116-131, 194-205` | none of its own | `recover_expired_leases`, `reconcile_terminal_runs`, `dispatch_ready_runs`, `dispatch_due_schedules` | database only, every 30 s |
| Cancellation | `services.py:296-305` | `scan_runs.status`, shards | `cancel_run` | called by the API |
| Recurring schedules | `scheduler.py:19-45` | `scan_schedules.next_run_at` | `dispatch_due_schedules` | creates runs |
| Inventory history | `services.py:208-221, 278-293` | `current_exposures` | materialization, backfill at start | scheduler |
| Exposure diff | `services.py:224-275` | none | `exposure_diff` | API |
| CIDR sharding | `services.py:18-51` | none | `parse_approved_cidr`, `shard_cidr`, `create_run` | API, scheduler |
| Result parsing | `results.py`, `worker.py:128-238` | scanner files in `/tmp`, artifact store | `normalize_nmap_xml`, `store_artifact` | workers |
| Control plane | `main.py`, `schemas.py`, `auth.py` | users, scopes, profiles, schedules, audit log | CRUD, CSV import, approval | operators |

**How the parts interact.** There is one shared state, the PostgreSQL database,
at READ COMMITTED; every part opens its own session. `SessionLocal` is created
with `expire_on_commit=False` (`db.py:12`): an object read once keeps its value
for the life of the session, and is written back by primary key with no version
check. Workers are told to scan only through the broker, with at-least-once
delivery (`task_acks_late`, `task_reject_on_worker_lost`, `worker.py:17-20`).

**What is hard here.**

* *Fencing.* A worker that is slow and not dead is recovered and replaced; both
  run for a while. Each lease has a `lease_token` (a UUID), and every write a
  worker makes is supposed to compare it.
* *Stale objects.* Run status and shard rows are read in one transaction and
  used in another.
* *Crashes* between lease and send, send and mark, claim and commit.
* *Finalization by nobody or by two.* Two workers that finish the last two
  shards at once each see the other's shard as pending; the scheduler reconciles.
* *Files.* A scanner writes to a path named after the shard, in a `/tmp` that
  all worker processes of a host share; only the artifact is named after the token.
* *Requests that overlap.* What a control-plane request checks may be gone when
  it commits; only the keys of the database still hold then.
* *Coverage.* The inventory may be replaced only by a run that saw everything,
  and a host that Masscan found and Nmap did not confirm is a gap, not a closed
  service.

**What makes each part correct.** Dispatch: a lease and its event are stored
together and the budget holds. Outbox: no event is lost, duplicates are
harmless. Workers: one execution per token, results only from the current one.
Scheduler: every run and shard ends. Finalization: the status is final, and the
inventory is taken from complete runs only. Cancellation: scanning stops and
the run stays cancelled. Schedules: one run per due interval. Inventory: a scan
is counted once. Diff and sharding: they equal their reference definitions.
Files: what is recorded of a shard is its own attempt's output. Control plane:
what runs and schedules refer to stays runnable, the audit trail tells the truth,
no role change is lost.
`PROJECT.json` lists each hazard with its source line and the properties that
would catch it.

## 2. The modules

| Module | What it is |
|---|---|
| `LeaseFencing` | what execution tokens promise, with no workers or queues |
| `ScanRun` | one run: dispatch, outbox, broker, workers, scheduler, cancellation, finalization |
| `Schedules` | recurring schedules: the scheduler's pass and the operator |
| `ExposureInventory` | the inventory of one scope and profile over successive runs |
| `ExposureDiff` | what the API reports as changed between the two latest completed runs |
| `ControlPlane` | users, scopes, profiles, schedules and runs under overlapping requests, sharding, the audit trail |
| `AttemptFiles` | the files of the attempts at one shard, and its artifact |
| `MCScanRun`, `MCSchedules`, `MCExposureInventory`, `MCExposureDiff`, `MCControlPlane`, `MCAttemptFiles` and the `.cfg` files | the instances TLC checks |
| `ScanRunProofs` | type correctness, the inductive invariant, fencing, what a superseded worker can do, and that `ScanRun` implements `LeaseFencing`, proved |
| `ScanRunLimits` | the bounds on the attempts of a shard and on the shards active at once, proved |
| `ScanRunCoverage` | the coverage gate, and that a finished run stays finished, proved |
| `SchedulesProofs` | the inductive invariant of `Schedules` and its safety, proved |
| `ExposureInventoryProofs` | type correctness, the coverage gate, the counts, the history and the latest run of the inventory, proved |
| `ExposureDiffProofs` | the reported changes are complete, and which of them need not be real, proved |
| `ControlPlaneProofs` | type correctness and every property of the control plane, proved |
| `AttemptFilesProofs` | type correctness and whose output a shard has, proved |

The systems meet at the run. `Schedules` creates runs and does not look
inside; `ScanRun` is one run with its shards; `ExposureInventory` takes a run as
what it found and whether it covered everything, and looks at what happens
between runs. `ScanRun` has the inventory of its one run, with only the rows'
origin; the rows' history, and other runs, are in `ExposureInventory`.
`ExposureDiff` takes runs that have ended. `ControlPlane` ends where a run is
created, with the network of each shard; `AttemptFiles` looks at one shard of
`ScanRun` with its files.

### ScanRun and the code

A step is a transaction, or the part of one up to a statement whose answer
another actor can overtake. Variables are grouped by where the value lives.

| Variables | Where they live |
|---|---|
| `runStatus` | `scan_runs.status` |
| `status`, `leaseToken`, `attempts`, `artifact` | columns of `scan_shards` |
| `expired`, `backoff` | what the comparisons of `lease_expires_at`, `heartbeat_at`, `retry_not_before` with the clock yield |
| `lastToken` | tokens `uuid4` has issued: a number that never repeats stands for a UUID |
| `results`, `candidates` | which attempts have host/service, and discovery, rows stored |
| `inventory` | `current_exposures` of the run's scope and profile: taken from this run or from before, and from which attempts |
| `outbox`, `broker` | undelivered events; tasks. A set, since a task that is there twice can be had by sending it again |
| `pc`, `job`, `stage`, `seenRun`, `pending`, `verdict`, `final`, `room`, `selected` | a process: its place in its code, and what its session holds |

| Actions | Code |
|---|---|
| `DispatchNothing`, `DispatchCount`, `DispatchLease` | `dispatch_available_shards`, cut between the count and the `SELECT ... SKIP LOCKED` |
| `Publish`, `PublishUnmarked` | `publish_pending_outbox` for one event; sent and not marked |
| `ClaimLease`, `DiscardTask` | `claim_lease`; a task that is not claimable is acknowledged |
| `LoadRun`, `LoadCancelledRun`, `StartRun` | `execute_shard` up to line 126 |
| `CheckLease`, `Heartbeat`, `Superseded` | one turn of `run_command`'s loop, cut between `current_lease` and the heartbeat's commit |
| `MasscanFound`, `MasscanEmpty`, `NmapDone`, `ScanFails`, `ScanCancelled` | how a scanner ends; all but the first run `finish_lease`, whose row lock is held until the commit |
| `FinishCommit` | the commit, with what the session has pending and with `finalize_terminal_run` |
| `DuplicateCandidate` | the flush violates `uq_discovery_observation`; the task is lost |
| `RecoverSelect`, `RecoverCommit`, `ReconcileRead`, `ReconcileCommit`, `DispatchReady` | the scheduler's loop, each job cut between its read and its write |
| `CancelRead`, `CancelCommit` | `cancel_run`, cut the same way |
| `CrashWorker`, `RestartService` | a process is lost; a worker's task returns to the broker |
| `LeaseExpires`, `HeartbeatLate`, `OrphanExpires`, `BackoffElapses` | the clock |

Modelling choices a reader should know:

* A message leaves `broker` when it is delivered and is put back if its worker
  is lost; that is late acknowledgement.
* The scheduler's jobs come in a fixed order in its loop. Each is enabled
  whenever it has something to do; the model has every order of them, which
  includes the loop's.
* A task that raises after its claim (a missing profile, an exception outside
  the handler) leaves its shard running without a worker: what a crash followed
  by discarding the redelivered task leaves. A profile in use cannot be deleted
  (foreign key), so the missing-profile branch and the shard status `failed`,
  which only that branch sets, do not occur.
* Parsing, XML and uploads are one outcome: rows are added or the step fails,
  and a failing step may leave some of its rows in the session, because the
  failure path commits without rolling back.
* An attempt number in `results`, `candidates` and `artifact` is the token under
  which the rows were written.

### Schedules and the code

`schedules`, `enabled` and `nextRunAt` are the rows of `scan_schedules`, and
`disabling` the rows an operator's uncommitted `UPDATE` has locked. The scheduler
is `pc`, with what its pass holds: `now`, the list `due`, the schedule whose run
it has created, and whether the list's row locks are still held.

| Actions | Code |
|---|---|
| `SelectDue` | `scheduler.py:19-25`, the `SELECT ... FOR UPDATE SKIP LOCKED` |
| `CreateRun` | `create_run` with its commit, which gives up the locks of the whole list |
| `CreateRunFails` | `create_run` raises since `shard_cidr` refuses the scope (`services.py:28-35, 45`); no handler, so the process ends and is started again |
| `StoreNext` | the loop that finds the next instant, and the second commit |
| `Crash` | the scheduler is lost between any two of these |
| `AddSchedule`, `DisableWrite`, `DisableCommit` | `main.py:218-254`, disabling cut between its `UPDATE` and its commit |

There is one scheduler (`scheduler.py:1`; it is deployed with strategy
`Recreate`). The time is read and the rows are selected in one step. The branch
for a scope or profile that no longer fits (`scheduler.py:27-31`) is left out:
`ControlPlane` shows that it is never taken (`ReferencesStayRunnable`). The list
is a set, so every order of its schedules is a behaviour: the query has no
`ORDER BY`. `Unshardable` is the set of schedules whose scope `create_run` refuses.
Neither approval nor `add_schedule` tests that. With the default settings
(`max_cidr_prefix` 16, `shard_prefix` 24, `max_shards_per_run` 4096) no scope that
parses is refused; with a `max_cidr_prefix` of 8 one of `/8` is, and so is any that
was stored before a setting was tightened. Of the refusals of `create_run` the other two, for approval and zone, are
made by the scheduler itself before it calls (`scheduler.py:28`).

### ExposureInventory and the code

`runStatus`, `completedAt`, `found` and `outcome` are what the database says of a
run ("running" stands for queued too), `rows` is `current_exposures`. A process
is the scheduler, or the worker that ends a run's last shard; `tx` is its open
transaction: the runs its query returned, the rows it has read, deleted and
will insert, and the runs it closes.

| Actions | Code |
|---|---|
| `StartRun` | `create_run`, with what the scan will find; it may overlap an earlier run |
| `EndUnfinalized`, `EndFinalizing` | the last shard's commit, without and with finalization |
| `ReconcileRead`, `StillPending`, `Close` | `reconcile_terminal_runs` and `finalize_terminal_run`; the list is read once |
| `Backfill`, `NothingToBackfill` | `backfill_current_exposures` at a scheduler's start |
| `ReadExisting`, `DeleteBegins`, `DeleteEnds` | `materialize_current_exposures`, statement by statement |
| `Commit`, `Reject` | the commit, with the inserts; it fails on `uq_current_exposure` |
| `Restart` | a process is lost; the scheduler starts with its backfill |

The transactions are those of READ COMMITTED: a `DELETE` takes the rows committed
when it begins, waits for those another transaction has deleted, and skips what
is inserted meanwhile. It has its locks all at once here. The inserts take place
at the commit; of two with one key the later fails. `sightings` is history: the
committed materializations that saw a service.

### ExposureDiff and the code

`runs` are the ended runs in the order of `completed_at`, each with the network
it scanned, the candidates it left unconfirmed (`missed`) and the hosts whose shard
stored nothing (`unscanned`); `mode` is the profile's `scanner_mode`
and `answer` what the API answered last. `Scanned`, `ConfirmedKeys` and `Seen`
are the inner function `observations`, `Changes` the four lists of changes, and
`GetNothing`, `GetWithheld` and `GetDiff` the returns of `exposure_diff`. In
`masscan_then_nmap` mode an address without open candidates is not confirmed
and so not seen at all: the last port that closes makes its host disappear.

A scan sees what is there, except what it missed. The code has no notion of the
true network; it is in the model so that a reported change can be compared with
a real one. A host is its own shard, which misses least. `CanMiss` says what an ended run
may lack. A failed one lacks a shard that was given up. A completed one may lack any
shard: `finalize_terminal_run` counts a cancelled shard as ended like any other
(`services.py:134-139, 171-183`, as `tests/test_reconciliation.py:6-17` asserts), and
`cancel_race` shows how a run with cancelled shards becomes completed. Such a shard
has no candidates, so `incomplete_discovery_shards` does not see it. Rows of an ended run
are final here; that a superseded worker can still touch them is
`stale_worker`.

### ControlPlane and the code

`role`, `scopes`, `profiles`, `schedules`, `runs` and `trail` are the tables
`users`, `inventory_scopes`, `scan_profiles`, `scan_schedules`, `scan_runs` (with
the networks of its shards) and `audit_events`. `body` is what each request asks
for, `pc` where it is, `loaded` what its session has read.

| Actions | Code |
|---|---|
| `Bootstrap` | `current_user` creates the administrator of the bootstrap token (`auth.py:17-25`) |
| `Begin` | the first half of any endpoint: `current_user`, `require_roles`, the queries and the refusals |
| `Provision` | `provision_user`: insert, or write a changed role |
| `AddScope`, `ImportScopes`, `ApproveScope`, `DeleteScope` | the endpoints of the inventory, with the CSV import |
| `AddProfile`, `DeleteProfile` | profiles get the next version of their name |
| `AddSchedule`, `CreateRun` | `add_schedule`; `create_run`, called by the API and by the scheduler |
| `Shards`, `Parses`, `Shardable` | `shard_cidr`, `parse_approved_cidr` on ranges of addresses |

A request is two steps, what it reads and what it commits, and others commit in
between. A request that was refused, that fails on a key or whose process is
lost has no effect, so it stays where it is. SQLAlchemy decides what a commit
does with a stale object: an attribute that did not change is not written; an
`UPDATE` of a row that is gone fails the transaction; a `DELETE` of one does not.
Unique and foreign keys are guards of the commits. The id of a row is the request
that created it. Each request is sent once, so a repetition is a second request
with the same body. Settings are constants: an operator who narrows them does so
by a restart. IPv6 networks (refused) and the syntax of payloads and CSV files
are left out.

### AttemptFiles and the code

The shard is as in `ScanRun` (`status`, `leaseToken`, `attempts`, `rows`,
`artifact`, `broker`), with a dispatch, and a recovery, as one step, because here
the files are cut finely: `path` and `content` are, on each host, the file at
`/tmp/scanpod-nmap-<shard>.xml` and whose output it holds; `scanner` the scanner
processes with the file each has open; `parsed` what a worker has read of it and
`stored` the artifacts, by token.

| Actions | Code |
|---|---|
| `StartScan` | `worker.py:124-130` and the start of the scanner, which truncates the file that is there |
| `ScannerWrites`, `ScannerStops` | the scanner process, which has its file open even if it is no longer at the path |
| `ScanDone`, `ParseOutput`, `StoreArtifact`, `FinishLease` | `run_command` returns, `normalize_nmap_xml`, `store_artifact`, `finish_lease` |
| `Superseded`, `AttemptFails` | how else an attempt ends; both remove the file at the path, whoever's it is |
| `CrashWorker` | a worker process of a host is lost; its scanner and its files stay |
| `Dispatch`, `SendAgain`, `ClaimLease`, `DiscardTask`, `RecoverOrphan`, `RecoverEarly` | as in `ScanRun` |

`HostOf` says which workers share a `/tmp`: the worker processes of one container
do. `shared` is history, the attempts that met another one at their path.
`OwnOutput` exempts them, and has to: a superseded worker that starts its scanner
between its replacement's parsing and storing empties the replacement's file,
and the shard is completed with an empty artifact, although `src/README.md:74` says
that a superseded worker "cannot overwrite the replacement attempt".
Without the exemption TLC finds this in 13 states with one worker held up.
Artifacts are copied here; the code renames where it can, which differs only
where files are shared. The backend is the filesystem; the run is not cancelled.

## 3. What TLC checks

| Run | Instance | Properties |
|---|---|---|
| `fencing` | 1 shard, 2 workers, two stages, 2 attempts, any 2 disturbances of all six kinds | `TypeOK`, `SingleExecutor`, `FencedResults`, `NoLostDispatch`, `BoundedAttempts`, `ImplementsLeaseFencing`, `SupersededOnlyDeletes` |
| `recovery` | 2 shards, 2 workers, Nmap only, 1 attempt, 1 crash, with fairness | `CompleteCoverage`, `FinishedForGood`, `RunSettles`, `ShardsSettle` |
| `cancellation` | 1 shard, 2 workers, two stages, 1 attempt, 2 of crash, restart, cancellation, with fairness | `NoGapReadAsClosed`, `CancelStopsScans`, `RunSettles` |
| `schedules` | 3 schedules with intervals of 1, 2 and 1 ticks, the third of a scope that cannot be sharded, clock up to 3, 2 losses of the scheduler, with fairness | `TypeOK`, `OneRunPerInstant`, `DisabledStops`, `SkipsOnlyMissed`, `DueIsServed` |
| `inventory` | 2 runs, 2 services, 2 of overlap and restart, with fairness | `TypeOK`, `GatedByCoverage`, `CountsSightings`, `SequentialRunsShowLatest`, `HistoryKept`, `RunsAreFinalized` |
| `diff` | 3 runs over 10 networks of 2 hosts and 2 ports, both scanner modes, any candidates unconfirmed and any shards unscanned | `TypeOK`, `ChangesAreExact`, `ChangesAreReal` |
| `control_plane` | 14 requests of 2 users around one scope, profile name and schedule; addresses of 4 bits | `TypeOK`, `ReferencesStayRunnable`, `ShardsPartitionTheScope`, `RunsNameOneProfile`, `TrailTellsScopes`, `ImportsAreWhole`, `NoLostDemotion`, `ActsAreAuthorized` |
| `attempt_files` | 3 workers on 2 hosts, 2 attempts, any 2 disturbances, with fairness | `TypeOK`, `OwnOutput`, `StoredOnce`, `Settles` |
| `cancel_race` | 2 shards, 1 cancellation | violates `CompleteCoverage` |
| `dispatch_race` | 2 shards, budget 1, no disturbance | violates `BoundedConcurrency` |
| `stale_worker` | 1 shard, 1 late heartbeat | violates `StaleWritesNothing` |
| `stale_backfill` | 2 runs, 2 services, 1 restart | violates `ShowsLatest` |

**Bounds.** The one bound of `ScanRun` is `MaxDisturbances`; without
disturbances a run is finite because attempts are limited. Two disturbances are
the smallest number with which a replacement is itself disturbed, and fencing
is per shard, so one shard and two workers already have a superseded worker, its
replacement and a duplicate message at once. Two shards are needed for
finalization, where each of two finishers sees the other as pending. The proofs
of section 4 remove the bounds for every safety property. `Symmetry` permutes
the workers; it is used only where no liveness property is checked.
`CHECK_DEADLOCK FALSE` is set because a finished run with empty queues stops.

`Schedules` bounds the clock and the losses of the scheduler. Interval 2 has
instants between two ticks of its grid and a clock exactly on it; with a clock
up to 3 and a first instant at 0 a schedule misses one, two or three instants.
Two losses are needed for a repeated run to be repeated. The schedule of an
unshardable scope meets two others, of which one can be left out while the other
is stuck; the ends of the process that it causes are not bounded. `ExposureInventory`
needs two runs to replace one another and two services to have one stay and one
go; with two disturbances an overlap and a restart fall in one behaviour. Both
stop when their bounds are reached, which is why deadlock is not checked.
`ExposureDiff` needs three runs: two that are compared and a failed one between
them. Its networks have a host with one of two ports open or none, so that a port
closes on a host that stays, also while another opens, a service that is
upgraded, and a second host that comes and goes.

`ControlPlane` has no bound but its requests. They are chosen to get into each
other's way: an import and two additions that clash in a name, a
promotion, a demotion and a repetition of the same user, two versions of one
profile name around a deletion, a deletion of the scope and of the profile while
a schedule and two runs are created. The scope they are about is, whichever request
has added it, one of exactly as many shards as are allowed, one of more, whose runs
are refused although it is approved and a schedule refers to it (it is also the
widest that parses), or one of a zone without profiles. So the runs are of one
network, at the limit; for those of a shard's size and below, and all others, there
is the theorem. `AttemptFiles`
needs two workers on a host to share a path and one elsewhere that does not;
two disturbances make a replacement meet both its predecessor and that one's
scanner.

**Fairness** (`FairSpec`). Workers, the API's dispatch and the publisher's loop
run as long as they have work (weak fairness). The scheduler returns to each of
its jobs every 30 seconds and jobs wait for one another, so a job that is
enabled again and again is done (strong fairness on each job's first step and
on what follows it). A scanner ends, if only because the profile's time limit
kills it, although checking the lease alternates with it (strong fairness on
`ScanEnds`). The clock expires an orphan and ends a back-off. No disturbance is
fair: nothing has to go wrong. The operator's commit is fair: a request is served.
In `Schedules` the pass goes on (every 30 seconds, or when the process that
`CreateRunFails` has ended is started again) and a disable that has written
commits; the clock need not advance. In `ExposureInventory` each worker and the
scheduler go on while they can (weak fairness): a step that waits for a lock is
enabled when the other transaction has ended, and stays so. In `AttemptFiles`
workers, dispatch and the recovery of an orphan go on, and a scanner ends (weak
fairness). `ControlPlane` is not fair: no request has to be sent.

**What the passing runs show.** Execution tokens do what they are for: under
any two disturbances no two workers execute under one token, a completed
shard's confirmed results are its own attempt's, a leased shard is never
stranded, and the leases implement the promise. A worker that was superseded can
still delete what its replacement has stored, and add its own candidates; it can
neither end the shard nor confirm anything for it. Retries beyond
`max_shard_attempts` happen, since recovery does not count attempts, but only
disturbances cause them. After a crash at any point the run and its shards
settle, even if the two last shards finish in overlapping transactions, and an
inventory taken from the run covers it. A cancelled run stops being scanned, and
stored candidates without confirmation never reach the inventory as closed.

A due instant of a schedule has one run, and one more for each time the scheduler
was lost between its two commits; missed instants are skipped and others are
not; a disabled schedule gets at most the run of the list it was already on;
nothing due is left out, though rows are skipped and lists are dropped, **unless
an enabled schedule whose scope cannot be sharded is due**. Such a schedule ends the
process in every pass, its `next_run_at` never moves, and the schedules after it in
the list starve until an operator disables it. Without its premise `[]<>~Blocked`
TLC finds `DueIsServed` violated with no loss of the scheduler at all: the two
schedules are selected together and the unshardable one is always tried first. The
scheduler's other jobs come before the schedules in its loop and are still done
after each start, and so is the backfill, which raises `scan_count` each time. The
inventory shows covered runs only, whichever finalizers overlap; its counts are
backed by materializations; runs that do not overlap, without restarts, leave
the inventory of the latest one with the history of each service, also when
worker and scheduler both finalize a run; and every run is finalized, although
transactions reject each other. Where runs overlap, rows of two of them can stay side
by side; nothing rules that out. The reported changes, applied to what the
previous run saw, give what the current one saw, but two kinds of them need not be
real. A port that the *previous* run did not confirm, or whose shard it did not scan,
is reported as opened: the gate is only on the current run (`services.py:232`). And **a host whose shard was cancelled
before it stored anything in a completed run is reported as disappeared though it is
still there**, in both scanner modes; its services leave the current inventory as
well (`cancel_race`). `src/README.md:14` says that discovery gaps are "treated as
incomplete coverage, never as closed services"; of the gaps only those with stored
candidates are. `ChangesAreReal` says that there is nothing else: an unconfirmed
candidate is never told as gone, and no open port as closed.

Whatever is approved, deleted and created at once, a run and a schedule refer to a
scope that is there and approved and to a profile of its zone; the shards of a
run partition its scope; name and version tell which profile a run used, although
the version of a deleted, unused profile is given out again. The audit trail
tells exactly which scopes there are and which are approved, though an approval
can be told of a scope that is gone. Nobody acts without a role that was given at
some time before; one taken away between the start and the commit of a request
still counts. The role a user has is one that no request which began later has
replaced. An attempt that shares its path with no other has its own output recorded, an artifact key is written once, and a shard ends
even if its attempts destroy each other's files.

**What the violation runs show.** Each checks what a document of the repository
says, and TLC finds the steps that break it:

* `cancel_race`: `finalize_terminal_run` tests a run object cached before the
  cancellation and overwrites it; a partial scan replaces the inventory.
  (`FinishedForGood` fails under cancellation for the same reason; `recovery`
  checks it, and `CompleteCoverage`, without one.)
* `dispatch_race`: count and lease are two statements with no lock on the run,
  so two dispatchers exceed `max_concurrent_shards`.
* `stale_worker`: a superseded worker still writes. The heartbeat's commit stores
  pending discovery rows even when its `UPDATE` found no row (`worker.py:152`), and a
  worker held up before its first commit deletes its replacement's observations.
* `stale_backfill`: the backfill of a scheduler's start materializes from a list
  of completed runs it read before a worker finalized a newer run, and
  replaces that run's inventory by the older one's.

`ShardsSettle` is checked without cancellation: a scan that fails after the
cancellation queues its shard again (`worker.py:227`), and nobody dispatches a
cancelled run. `scan_count` is bounded by materializations and not by scans: each
start of the scheduler materializes the latest run again and raises the count.

## 4. What is proved

The theorems of `ScanRun` hold for every finite set of shards, every set of
workers, all limits and any number of disturbances of any kind. They assume
`ShardAssumption`, `WorkerAssumption`, `SettingsAssumption` and
`DisturbanceAssumption`; what the table names before a colon is assumed besides. Those of `Schedules` hold for any schedules, whichever of them have a scope that is
refused, and positive intervals, up to any `MaxTime` and `MaxCrashes` (`IntervalAssumption`,
`ScopeAssumption`, `BoundAssumption`); those of `ExposureInventory` for any finite set of runs, any
services and any number of disturbances (`RunAssumption`,
`DisturbanceAssumption`); those of `ExposureDiff` for any hosts, ports,
fingerprints, networks and number of runs (`NetworkAssumption`,
`BoundAssumption`); those of `ControlPlane` for any requests, users, names and
settings and addresses of any width (`BodyAssumption`, `SettingsAssumption`); those
of `AttemptFiles` for any workers and hosts and any number of disturbances
(`HostAssumption`, `SettingsAssumption`, `DisturbanceAssumption`). The provers
know nothing of powers, so `PowerAssumption` states what is needed of the powers of
two up to the width: they are positive, and exponents add. TLC evaluates the
assumptions in every run.

| Module | Theorem | States |
|---|---|---|
| `ScanRunProofs` | `TypeCorrect`, `Invariance` | `Spec => []TypeOK`, `Spec => []IInv` |
| | `ExclusiveExecution` | `Spec => []SingleExecutor` |
| | `ResultsAreFenced` | `Spec => []FencedResults` |
| | `DispatchIsNotLost` | `Spec => []NoLostDispatch` |
| | `LeaseFencingImplemented` | `Spec => ImplementsLeaseFencing` |
| | `StaleWritesAreBounded` | `Spec => SupersededOnlyDeletes` |
| `ScanRunLimits` | `AttemptsAreBounded` | `Spec => []BoundedAttempts` |
| | `DispatchesShareABudget` | finitely many workers: `Spec => []DispatchBudget` |
| `ScanRunCoverage` | `StoreInvariance` | `Punctual`: `Spec => []StoreInv` |
| | `GapsKeepTheInventory` | `Punctual`: `Spec => NoGapReadAsClosed` |
| | `InventoryCoversTheRun` | `Punctual` and `Uncancelled`: `Spec => []CompleteCoverage` |
| | `FinishedRunsStayFinished` | `Punctual` and `Uncancelled`: `Spec => FinishedForGood` |
| `SchedulesProofs` | `Invariance`, `TypeCorrect` | `Spec => []IInv`, `Spec => []TypeOK` |
| | `OncePerInstant` | `Spec => []OneRunPerInstant` |
| | `DisablingWorks` | `Spec => []DisabledStops` |
| | `MissedAreSkipped` | `Spec => SkipsOnlyMissed` |
| `ExposureInventoryProofs` | `Invariance`, `TypeCorrect` | `Spec => []IInv`, `Spec => []TypeOK` |
| | `OnlyCoveredRunsShown` | `Spec => []GatedByCoverage` |
| | `CountsAreSightings` | `Spec => []CountsSightings` |
| | `RunsTakeTurns` | `Spec => []SerialInv` |
| | `SequentialRunsShown` | `Spec => []SequentialRunsShowLatest` |
| | `HistoryIsKept` | `Spec => HistoryKept` |
| `ExposureDiffProofs` | `Invariance`, `TypeCorrect` | `Spec => []IInv`, `Spec => []TypeOK` |
| | `ReportsAreExact` | `Spec => []ChangesAreExact` |
| | `ReportsAreReal` | `Spec => []ChangesAreReal` |
| `ControlPlaneProofs` | `TypeCorrect` | `Spec => []TypeOK` |
| | `ReferencesAreRunnable` | `Spec => []ReferencesStayRunnable` |
| | `RunsPartitionTheirScope` | `Spec => []ShardsPartitionTheScope` |
| | `RunsTellTheirProfile` | `Spec => []RunsNameOneProfile` |
| | `TrailIsTrue` | `Spec => []TrailTellsScopes` |
| | `ImportsAreAtomic` | `Spec => []ImportsAreWhole` |
| | `DemotionsAreKept` | `Spec => []NoLostDemotion` |
| | `ActsHaveRoles` | `Spec => ActsAreAuthorized` |
| `AttemptFilesProofs` | `TypeCorrect` | `Spec => []TypeOK` |
| | `ArtifactKeysAreNew` | `Spec => []StoredOnce` |
| | `OutputIsOwn` | `Spec => []OwnOutput` |

**The argument for ScanRun.** None of the three safety properties is inductive.
`SingleExecutor` could be broken by a claim unless nobody executes under a lease
that waits (`FreshLease`), and a new lease is fresh only because no message and
no task has a token that was not issued (`TokensIssued`). `FencedResults` could
be broken by a commit unless the committing worker still owns the shard
(`CommitOwns`: the row lock of `finish_lease` keeps recovery, cancellation and
other finishers out) and finds no older results there (`CleanStart`: it cleared
them at its start, and owners are unique by `SingleExecutor`). `IInv` is the
conjunction, with `TypeOK` and `NoLostDispatch`; TLC was run on `IInv` itself
in the `fencing` instance before it was proved. `StaleWritesNothing` is violated;
what is left of it, `SupersededOnlyDeletes`, follows from `CommitOwns`: a worker
without the lease never gets to a commit that ends its shard.

**The argument for the attempts.** The code compares `attempts` with its limit only
where a scanner fails; a recovered shard is queued whatever the count. So
`BoundedAttempts` is proved by keeping books (`Accounts`). A shard's `Debt` is what
can still cost it an attempt that no failure has counted, in the order in which it
moves on: it is about to be recovered (`Recoverable`), and with Masscan its worker
may be left behind by that (`MayStray`); such a worker holds candidates it is about
to store (`StrayTokens`); candidates of another token lie in the way of the worker
that owns the shard (`Tainted`), whose flush then fails, so that the shard is to be
recovered again. `Balanced` says that the debts are within what the disturbances
have paid, at the `Price` of 1, or 2 with Masscan, and that the attempts made, the
one a queued or leased shard is about to make and the debts are within
`max_shard_attempts` and what has been paid. A late lease or a crash pays for what
it causes, a recovery turns a debt into an attempt to be made, a claim makes it, a
stale heartbeat and a duplicate candidate move a debt on; only the commit that
queues a failed shard adds an attempt unpaid, and it is within the limit
(`RetryHasBudget`: nobody claims the shard between the comparison and the commit).
TLC was run on `Accounts` itself, with one shard, two workers, one or two attempts
and up to three disturbances of all kinds, before it was proved.

**The argument for the budget.** `BoundedConcurrency` is violated. A dispatch that has
counted `max_concurrent_shards` less the active shards as free still takes no more
than that (`FirstAtMost`: ordering and `LIMIT` return at most so many rows), so a
slot is either taken or counted by a dispatch on its way to its `SELECT` (`Slots`).
`BudgetInv` states that both together are at most `max_concurrent_shards` for each
process that dispatches, which is every worker, the API and the scheduler: a count
makes those taken and its own equal to the limit and leaves each other process at
most the limit; a lease turns counted slots into taken ones. So
`DispatchBudget` bounds the overshoot. TLC finds runs that reach it (1 slot, 2
workers, 6 shards: 4 active at once), so it cannot be improved.

**The argument for coverage.** A worker that is late but alive, after its lease ran
out, goes on as described above. `Punctual` excludes just that: the environment does
not hold up a heartbeat (`"pause"`) or a claim (`"late"`) beyond `shard_lease_seconds`.
Workers and services may be lost at any moment and tasks sent twice, any number of
times. Then whoever executes a shard holds its token (`NotSuperseded`), so that what is
recovered has no worker and had stored nothing (`OverdueIsLost`), and an artifact
stands for the results that were stored with it (`ArtifactStored`): `StoreInv`. The
gate counts shards with candidates and no artifact; so a shard it lets pass has
results (`NoGapReadAsClosed`). The hypothesis is needed: with three workers and two
late claims, or two late heartbeats, TLC finds a shard that completes with its artifact;
then one superseded worker starts and deletes its results, another stores its own
candidates, and the reconciliation that follows finds nothing incomplete.

`CompleteCoverage` and `FinishedForGood` also need that nobody cancels
(`Uncancelled`; the run `cancel_race` shows why). `RunInv` then says that the last
worker to finish, between its count and its commit, leaves every other shard terminal
(`LastToFinish`), that a run which has ended has no shard left (`FinishedIsOver`), so
that neither a cached run written back by its key nor a reconciliation that read it
before can change it, and that an unfinished run shows nothing (`NothingShown`). TLC
was run on `StoreInv` and `RunInv`, with one and two shards and two or three
disturbances, before they were proved.

**The argument for Schedules.** A second run of an instant is excluded because a
schedule is on the list or is the one being stored, never both (`PassShape`),
and what is on the list is still due (`ListIsDue`): nobody but the pass moves
`next_run_at`. After a disabling commits the schedule can only be on a list that
was selected before; `NoneAfterwards` says that a schedule which is still to be
started from the list, or is enabled, has no run after its disabling yet. The
arithmetic is one lemma, `NextRunAfter`: with an interval `n` and
`planned <= t`, the instant `planned + n * (1 + (t - planned) \div n)` is after `t`,
at most `n` after it, and on the grid.

**The argument for ExposureInventory.** A row is inserted at a commit and was
computed before it, so `GatedByCoverage` needs what each open transaction
holds: the run it materializes has been covered and is completed, or will be by
this very commit (`OpenIsShowable`), the same for the rows it will insert
(`AddedIsShowable`), and the runs on its list have been started
(`ListHasStarted`), so that what they found no longer changes. For the counts
(`Counting`) what an open transaction has read and added may exceed the sightings
so far by its own runs only (`CountsOwn`), and it shows each run once
(`ShownOnce`); its commit adds just these to the sightings, and a transaction
that is lost takes its counts along.

`SequentialRunsShowLatest` and `HistoryKept` speak of runs that nothing disturbs:
none starts before the one before it has ended, and the scheduler is not restarted.
`Serial` says what follows: at most one run is being scanned (`OneRunning`); a worker in
its transaction ends that run, and the scheduler has none in hand that ended before it
began (`EndsItsRun`, `SchedulerIsCurrent`); a transaction finalizes at most one run and
replaces all the rows that are there (`ReplacesAll`), although worker and scheduler may
both be at it; so the table has one row for each service the latest covered run found
(`TableIsLatest`). The theorems have no
hypothesis: the condition is in the properties. TLC was run on `SerialInv` with three
runs and two services before it was proved.

**The argument for ExposureDiff.** `AppliedChanges` is about the comparison alone: for
two observations whose services are on hosts that are up, every key is opened,
closed, gone with its host, changed or the same. `WhatIsMissed` is about the gate:
an open port that was not confirmed is on an address the gate counts or in a shard
that stored nothing, and the gate lets no answer with changes pass but the latter.
The invariant adds that an answer compares runs of the right type and has changes
only where the gate found no gap (`AnswerShape`). `ReportsAreReal` needs nothing of
what a run may miss (`CanMiss`): it holds whatever was cancelled or left
unconfirmed.

**The argument for ControlPlane.** A request decides on what it has read, and
that may have changed; it commits what is right all the same. A scope never
changes its network or zone and is never disapproved (`ScopesKeep`), a profile is
never changed (`ProfilesKeep`), ids are not given out again because they are those
of committed requests (`Committed`), events and provisionings are never removed,
and what may be gone is refused by a key. For roles, `LastWriter` names the
provisioning that wrote last: every session that began after it has read its
role, and every one that commits after it either repeats that role or becomes
the last writer itself. The partition of a scope is arithmetic on ranges: the
shard an address lies in is its offset divided by the size of a shard.

**The argument for AttemptFiles.** Tokens are new and executed by one worker
(`Fresh`, `Alone`). As long as an attempt shares its path with no other, the file
there is its own and nobody else's scanner has it open (`PathIsOwn`, `FileIsOwn`),
so what it parses and stores is its own (`StoreIsOwn`); a retry finds no rows of
the attempt before, since they are deleted at its start (`NoRowsYet`).

**The layout.** `ScanRunProofs` begins with one lemma for each part of `TypeOK`, with
one step per action. Then `StepKinds` proves action by action that a
step is `Quiet` (it touches no lease, token or result, starts no task and drops
no message that is needed) or one of the seven actions of `Loud`. From it follow
`TasksKept`, `MessagesKept` and `LeasesKept`, what a step can do to tasks, to
messages and to one lease; each conjunct of `IInv` then has a short lemma.
The refinement, at the end of the module, maps every loud action to a step of
`LeaseFencing`: dispatch grants, a claim acquires, a commit with results accepts,
the start of a scan clears, and every other end of a lease withdraws. Quiet steps
stutter. The modules that extend it sort the steps in the same way for what they are
about: in `ScanRunLimits`, `StepCosts` proves action by action that a step is `Calm` (it
incurs no debt) or one of those in `Costly`, and `SlotKinds` that it only leaves slots
(`Leaving`) or is a count or a lease (`Taking`); in `ScanRunCoverage`, `StoreKinds` proves
that a step is `Plain` or one of those in `Storing`. The steps that are named have
lemmas of their own.

**Only model-checked.** The liveness properties (`RunSettles`, `ShardsSettle`,
`CancelStopsScans`, `DueIsServed`, `RunsAreFinalized`, `Settles`): the prover handles
neither fairness nor `ENABLED`. Every invariant and every action property of the
passing runs is stated by a theorem. That `DispatchBudget` is reached was found with TLC
and is not a run of the project, since it needs more shards than processes.

## 5. Plan

In this order, if the project goes on.

1. Proofs: how far a worker that is late can take the coverage gate, in place of
   `Punctual`.
2. A refinement between `ControlPlane`'s `CreateRun` and the first state of
   `ScanRun` with as many shards as `Shards` has.
3. `ScanRun` with two runs that share workers and a broker, once runs can affect
   each other.

## 6. Not modelled

* The binding of a token to an event of before the fencing upgrade
  (`services.py:91-104`): this version stores every event with its token, so no
  state of a database that it has written takes the branch.
* The XML elements and the S3 upload in `results.py`: which rows a scan leaves is
  an outcome in `ScanRun` and `ExposureDiff`; an upload that fails is
  `AttemptFails`.
* The signature of access tokens (a library checks it), metrics and the endpoints
  that only read, with the grouping of equal services over profiles
  (`main.py:303-315`).
* The operator console, deployment files and migrations.
* Clock readings in `ScanRun` and `AttemptFiles`: they are abstracted to whether a
  deadline has passed, so skew between hosts appears only as a deadline that
  passes early (`LeaseExpires`, `HeartbeatLate`, `RecoverEarly`).

## 7. Running

    tlc -config Fencing.cfg MCScanRun
    tlc -config Schedules.cfg MCSchedules
    tlc -config Inventory.cfg MCExposureInventory
    tlc -config Diff.cfg MCExposureDiff
    tlc -config ControlPlane.cfg MCControlPlane
    tlc -config AttemptFiles.cfg MCAttemptFiles
    tlapm ScanRunProofs.tla
    tlapm ScanRunLimits.tla
    tlapm ScanRunCoverage.tla
    tlapm SchedulesProofs.tla
    tlapm ExposureInventoryProofs.tla
    tlapm ExposureDiffProofs.tla
    tlapm ControlPlaneProofs.tla
    tlapm AttemptFilesProofs.tla
