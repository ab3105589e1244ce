------------------------------ MODULE ScanRun ------------------------------
(***************************************************************************)
(* One scan run of Transport Lookout: its shards, leased, dispatched       *)
(* through the outbox and the broker, executed by workers under an         *)
(* execution token, recovered by the scheduler, cancelled by an operator,  *)
(* and finalized into the current-exposure inventory.                      *)
(*                                                                         *)
(* Every actor is a process of its own with its own database session, so   *)
(* what it reads in one transaction may be stale when it writes in the     *)
(* next.  A step below is one transaction, or the part of one up to a      *)
(* statement whose answer another actor can overtake.  The database runs   *)
(* at READ COMMITTED; an ORM object is written back by primary key, with   *)
(* no version check, and is not reloaded by a commit (db.py).              *)
(***************************************************************************)
EXTENDS Integers, FiniteSets

CONSTANTS
  Shard,            \* the shards of the run, numbered in the order of their cidr
  Worker,           \* the celery worker processes
  MaxConcurrent,    \* ScanProfile.max_concurrent_shards
  MaxAttempts,      \* settings.max_shard_attempts
  TwoStage,         \* TRUE: a masscan_then_nmap profile; FALSE: nmap only
  Disturbances,     \* which disturbances the environment may cause
  MaxDisturbances   \* how many of them: the one bound of the model

Service == {"api", "operator", "scheduler"}
Actor == Worker \cup Service

ASSUME ShardAssumption == Shard \subseteq Nat \ {0} /\ IsFiniteSet(Shard)
ASSUME WorkerAssumption == Worker \cap Service = {}
ASSUME SettingsAssumption ==
  /\ MaxConcurrent \in Nat \ {0}
  /\ MaxAttempts \in Nat \ {0}
  /\ TwoStage \in BOOLEAN
ASSUME DisturbanceAssumption ==
  /\ Disturbances \subseteq
       {"crash", "restart", "pause", "late", "resend", "cancel"}
  /\ MaxDisturbances \in Nat

VARIABLES
  runStatus,     \* ScanRun.status
  status,        \* ScanShard.status of each shard
  leaseToken,    \* ScanShard.lease_token; 0 is NULL
  lastToken,     \* how many tokens uuid4 has issued for the shard
  attempts,      \* ScanShard.attempts
  expired,       \* lease_expires_at, or heartbeat_at + shard_lease_seconds, has passed
  backoff,       \* retry_not_before is still in the future
  artifact,      \* the attempt whose nmap.xml artifact_key names; 0 is NULL
  results,       \* the attempts whose host/service observations are stored
  candidates,    \* the attempts whose discovery observations are stored
  inventory,     \* the current_exposures rows of the run's scope and profile
  outbox,        \* outbox events not marked delivered
  broker,        \* tasks in the broker, at least once each
  pc,            \* where each actor is; "idle" between two calls
  job,           \* the task a worker executes
  stage,         \* the scanner a worker runs, "end" when it has none to run
  seenRun,       \* run.status in the session's identity map
  pending,       \* what a worker's session has added and not committed
  verdict,       \* the status that an uncommitted finish_lease has set
  final,         \* the uncommitted finalize_terminal_run found no pending shard
  room,          \* capacity, between the count and the SELECT of a dispatch
  selected,      \* the shards an ORM query returned, to be written by primary key
  disturbances   \* disturbances so far

leaseVars == <<status, leaseToken, lastToken, attempts, expired, backoff>>
rowVars == <<artifact, results, candidates>>
runVars == <<runStatus, inventory>>
queueVars == <<outbox, broker>>
taskVars == <<job, stage, seenRun, pending, verdict, final>>
callVars == <<room, selected>>
vars == <<leaseVars, rowVars, runVars, queueVars, pc, taskVars, callVars, disturbances>>

-----------------------------------------------------------------------------
RunStatus == {"queued", "running", "completed", "failed", "cancelled"}
FinishedRun == {"completed", "failed", "cancelled"}
ShardStatus == {"queued", "leased", "running", "completed", "failed",
                "cancelled", "dead_letter"}

\* Mutant: a shard that waits for its worker counts as terminal.
TerminalWithLeased == {"leased", "completed", "failed", "cancelled", "dead_letter"}
TERMINAL_SHARD_STATUSES == {"completed", "failed", "cancelled", "dead_letter"}

Message == [shard : Shard, token : Nat]
NoMessage == [shard |-> 0, token |-> 0]

Active == {s \in Shard : status[s] \in {"leased", "running"}}

\* The shards a dispatch may lease.  Mutant: those that wait for a worker too.
ReadyOrLeased == {s \in Shard : status[s] \in {"queued", "leased"} /\ ~backoff[s]}
Ready == {s \in Shard : status[s] = "queued" /\ ~backoff[s]}

\* The shards to recover.  Mutant: unclaimed leases only.
StaleLeased == {s \in Active : expired[s] /\ status[s] = "leased"}
Stale == {s \in Active : expired[s]}

\* The first n shards of S in the order of their cidr: ORDER BY ... LIMIT n.
FirstOf(S, n) == {s \in S : Cardinality({r \in S : r < s}) < n}

\* The worker still owns the running lease of its task: current_lease, and the
\* WHERE clause of the heartbeat and of finish_lease.  Mutant: no token compared.
OwnsByStatus(w) == \E s \in Shard : s = job[w].shard /\ status[s] = "running"
Owns(w) == \E s \in Shard : /\ s = job[w].shard
                            /\ status[s] = "running"
                            /\ leaseToken[s] = job[w].token

\* A worker between its claim and the commit that ends its execution.
Executing(w) == stage[w] # "end"
Orphan(s) ==
  ~ \E w \in Worker : Executing(w) /\ job[w] = [shard |-> s, token |-> leaseToken[s]]

\* The row is locked by an UPDATE whose transaction is still open.
Locked(s) == \E w \in Worker : pc[w] = "commit" /\ job[w].shard = s

Disturb(kind) ==
  /\ kind \in Disturbances
  /\ disturbances < MaxDisturbances
  /\ disturbances' = disturbances + 1

-----------------------------------------------------------------------------
\* create_run has committed the run and its shards and is about to dispatch.
Init ==
  /\ runStatus = "queued"
  /\ status = [s \in Shard |-> "queued"]
  /\ leaseToken = [s \in Shard |-> 0]
  /\ lastToken = [s \in Shard |-> 0]
  /\ attempts = [s \in Shard |-> 0]
  /\ expired = [s \in Shard |-> FALSE]
  /\ backoff = [s \in Shard |-> FALSE]
  /\ artifact = [s \in Shard |-> 0]
  /\ results = [s \in Shard |-> {}]
  /\ candidates = [s \in Shard |-> {}]
  /\ inventory = [fromRun |-> FALSE, rows |-> [s \in Shard |-> {}]]
  /\ outbox = {} /\ broker = {}
  /\ pc = [a \in Actor |-> IF a = "api" THEN "dispatch" ELSE "idle"]
  /\ job = [w \in Worker |-> NoMessage]
  /\ stage = [w \in Worker |-> "end"]
  /\ seenRun = [a \in Actor |-> "queued"]
  /\ pending = [w \in Worker |-> {}]
  /\ verdict = [w \in Worker |-> "queued"]
  /\ final = [w \in Worker |-> FALSE]
  /\ room = [a \in Actor |-> 0]
  /\ selected = [a \in Service |-> {}]
  /\ disturbances = 0

\* The session is closed: the actor forgets what it read and rolls back the rest.
CloseTask(w) ==
  /\ job' = [job EXCEPT ![w] = NoMessage]
  /\ stage' = [stage EXCEPT ![w] = "end"]
  /\ seenRun' = [seenRun EXCEPT ![w] = "queued"]
  /\ pending' = [pending EXCEPT ![w] = {}]
  /\ verdict' = [verdict EXCEPT ![w] = "queued"]
  /\ final' = [final EXCEPT ![w] = FALSE]
  /\ pc' = [pc EXCEPT ![w] = "idle"]

\* The call of dispatch_available_shards is over: the worker goes on with its
\* scan, anyone else with nothing.
LeaveDispatch(a) ==
  /\ room' = [room EXCEPT ![a] = 0]
  /\ IF a \in Worker /\ stage[a] # "end"
     THEN pc' = [pc EXCEPT ![a] = "scan"] /\ UNCHANGED taskVars
     ELSE IF a \in Worker THEN CloseTask(a)
     ELSE pc' = [pc EXCEPT ![a] = "idle"] /\ UNCHANGED taskVars

\* The run's status by the shards' statuses after the step.  Mutant: it takes
\* the status of its shard.
OutcomeOfShard ==
  IF \E s \in Shard : status'[s] = "dead_letter" THEN "dead_letter" ELSE "completed"
Outcome ==
  IF \E s \in Shard : status'[s] \in {"failed", "dead_letter"} THEN "failed" ELSE "completed"

\* incomplete_discovery_shards is zero: the Masscan coverage gate.  Mutant: no gate.
CoveredAnyway == TRUE
Covered == \A s \in Shard : candidates'[s] # {} => artifact'[s] # 0

\* finalize_terminal_run once no shard is pending.
Finalize ==
  /\ runStatus' = Outcome
  /\ inventory' = IF Outcome = "completed" /\ Covered
                  THEN [fromRun |-> TRUE, rows |-> results'] ELSE inventory

-----------------------------------------------------------------------------
\* dispatch_available_shards.  The run is a cached object, except in the
\* scheduler's session, which loads it here.

KnownRun(a) == IF a = "scheduler" THEN runStatus ELSE seenRun[a]
Capacity == MaxConcurrent - Cardinality(Active)

\* The run is terminal, or every slot is taken.
DispatchNothing(a) ==
  /\ pc[a] = "dispatch"
  /\ KnownRun(a) \in FinishedRun \/ Capacity <= 0
  /\ LeaveDispatch(a)
  /\ UNCHANGED <<leaseVars, rowVars, runVars, queueVars, selected, disturbances>>

DispatchCount(a) ==
  /\ pc[a] = "dispatch"
  /\ KnownRun(a) \notin FinishedRun
  /\ Capacity > 0
  /\ room' = [room EXCEPT ![a] = Capacity]
  /\ pc' = [pc EXCEPT ![a] = "lease"]
  /\ UNCHANGED <<leaseVars, rowVars, runVars, queueVars, taskVars, selected, disturbances>>

\* The outbox events of the shards taken.  Mutant: they are not stored.
NoEvents(taken) == {}
Events(taken) == {[shard |-> s, token |-> lastToken[s] + 1] : s \in taken}

\* SELECT ... FOR UPDATE SKIP LOCKED up to the commit: leases and outbox events
\* are stored together.
DispatchLease(a) ==
  /\ pc[a] = "lease"
  /\ LET taken == FirstOf(Ready, room[a])
     IN /\ status' = [s \in Shard |-> IF s \in taken THEN "leased" ELSE status[s]]
        /\ lastToken' = [s \in Shard |-> IF s \in taken THEN lastToken[s] + 1 ELSE lastToken[s]]
        /\ leaseToken' = [s \in Shard |-> IF s \in taken THEN lastToken[s] + 1 ELSE leaseToken[s]]
        /\ expired' = [s \in Shard |-> IF s \in taken THEN FALSE ELSE expired[s]]
        /\ outbox' = outbox \cup Events(taken)
  /\ LeaveDispatch(a)
  /\ UNCHANGED <<attempts, backoff, rowVars, runVars, broker, selected, disturbances>>

\* Mutant: the event is marked delivered although the send failed.
PublishUnsent(m) ==
  /\ m \in outbox
  /\ outbox' = outbox \ {m}
  /\ UNCHANGED <<leaseVars, rowVars, runVars, broker, pc, taskVars, callVars, disturbances>>

\* publish_pending_outbox for one event, by any process that runs it.
Publish(m) ==
  /\ m \in outbox
  /\ broker' = broker \cup {m}
  /\ outbox' = outbox \ {m}
  /\ UNCHANGED <<leaseVars, rowVars, runVars, pc, taskVars, callVars, disturbances>>

\* The event is sent and not marked: its publisher stops before the commit, or
\* another publisher has read it as well.  It will be sent once more.
PublishUnmarked(m) ==
  /\ m \in outbox
  /\ Disturb("resend")
  /\ broker' = broker \cup {m}
  /\ UNCHANGED <<leaseVars, rowVars, runVars, outbox, pc, taskVars, callVars>>

-----------------------------------------------------------------------------
\* execute_shard.

\* The WHERE clause of claim_lease.  Mutant: the status is not compared.
ClaimableByToken(m) == leaseToken[m.shard] = m.token
Claimable(m) == status[m.shard] = "leased" /\ leaseToken[m.shard] = m.token

\* A task is delivered and its token is the shard's current lease: claim_lease.
ClaimLease(w, m) ==
  LET s == m.shard
  IN /\ pc[w] = "idle"
     /\ m \in broker
     /\ Claimable(m)
     /\ broker' = broker \ {m}
     /\ status' = [status EXCEPT ![s] = "running"]
     /\ attempts' = [attempts EXCEPT ![s] = @ + 1]
     /\ expired' = [expired EXCEPT ![s] = FALSE]
     /\ job' = [job EXCEPT ![w] = m]
     /\ stage' = [stage EXCEPT ![w] = IF TwoStage THEN "discover" ELSE "confirm"]
     /\ pc' = [pc EXCEPT ![w] = "claimed"]
     /\ UNCHANGED <<leaseToken, lastToken, backoff, rowVars, runVars, outbox,
                    seenRun, pending, verdict, final, callVars, disturbances>>

\* Any other task is acknowledged and dropped.
DiscardTask(w, m) ==
  /\ pc[w] = "idle"
  /\ m \in broker
  /\ ~Claimable(m)
  /\ broker' = broker \ {m}
  /\ UNCHANGED <<leaseVars, rowVars, runVars, outbox, pc, taskVars, callVars, disturbances>>

\* The run is read once, in a transaction after the claim.
LoadRun(w) ==
  /\ pc[w] = "claimed"
  /\ runStatus # "cancelled"
  /\ seenRun' = [seenRun EXCEPT ![w] = runStatus]
  /\ pc' = [pc EXCEPT ![w] = "loaded"]
  /\ UNCHANGED <<leaseVars, rowVars, runVars, queueVars, job, stage, pending, verdict,
                 final, callVars, disturbances>>

\* A cancelled run: the shard is finished as cancelled and nobody finalizes.
LoadCancelledRun(w) ==
  /\ pc[w] = "claimed"
  /\ runStatus = "cancelled"
  /\ status' = IF Owns(w) THEN [status EXCEPT ![job[w].shard] = "cancelled"] ELSE status
  /\ expired' = IF Owns(w) THEN [expired EXCEPT ![job[w].shard] = FALSE] ELSE expired
  /\ CloseTask(w)
  /\ UNCHANGED <<leaseToken, lastToken, attempts, backoff, rowVars, runVars, queueVars,
                 callVars, disturbances>>

\* The run is written as running, by primary key and only if it was read as
\* something else; what the shard's former attempts stored is deleted.
StartRun(w) ==
  LET s == job[w].shard
  IN /\ pc[w] = "loaded"
     /\ runStatus' = IF seenRun[w] = "running" THEN runStatus ELSE "running"
     /\ seenRun' = [seenRun EXCEPT ![w] = "running"]
     /\ results' = [results EXCEPT ![s] = {}]
     /\ candidates' = [candidates EXCEPT ![s] = {}]
     /\ pc' = [pc EXCEPT ![w] = "dispatch"]
     /\ UNCHANGED <<leaseVars, artifact, inventory, queueVars, job, stage, pending,
                    verdict, final, callVars, disturbances>>

\* One turn of the loop of run_command, up to current_lease.
CheckLease(w) ==
  /\ pc[w] = "scan"
  /\ seenRun[w] # "cancelled"
  /\ Owns(w)
  /\ seenRun' = [seenRun EXCEPT ![w] = runStatus]
  /\ pc' = [pc EXCEPT ![w] = "beat"]
  /\ UNCHANGED <<leaseVars, rowVars, runVars, queueVars, job, stage, pending, verdict,
                 final, callVars, disturbances>>

\* The heartbeat UPDATE and the commit after it, which takes along whatever the
\* session holds whether or not the UPDATE has found the row.
Heartbeat(w) ==
  LET s == job[w].shard
  IN /\ pc[w] = "beat"
     /\ expired' = IF Owns(w) THEN [expired EXCEPT ![s] = FALSE] ELSE expired
     /\ candidates' = IF "candidates" \in pending[w]
                      THEN [candidates EXCEPT ![s] = @ \cup {job[w].token}] ELSE candidates
     /\ pending' = [pending EXCEPT ![w] = {}]
     /\ pc' = [pc EXCEPT ![w] = "scan"]
     /\ UNCHANGED <<status, leaseToken, lastToken, attempts, backoff, artifact, results,
                    runVars, queueVars, job, stage, seenRun, verdict, final, callVars,
                    disturbances>>

\* A check of the lease, or finish_lease itself, finds another owner: LeaseSuperseded.
Superseded(w) ==
  /\ pc[w] = "scan"
  /\ ~Owns(w)
  /\ CloseTask(w)
  /\ UNCHANGED <<leaseVars, rowVars, runVars, queueVars, callVars, disturbances>>

\* Masscan has found candidates; Nmap is started on them.
MasscanFound(w) ==
  /\ pc[w] = "scan" /\ stage[w] = "discover" /\ seenRun[w] # "cancelled"
  /\ Owns(w)
  /\ pending' = [pending EXCEPT ![w] = {"candidates"}]
  /\ stage' = [stage EXCEPT ![w] = "confirm"]
  /\ UNCHANGED <<leaseVars, rowVars, runVars, queueVars, pc, job, seenRun, verdict, final,
                 callVars, disturbances>>

\* No other shard of the run is pending.  Mutant: they are not counted.
OthersUncounted(s) == TRUE
OthersTerminal(s) == \A r \in Shard \ {s} : status[r] \in TERMINAL_SHARD_STATUSES

\* finish_lease with its row lock, and the count of pending shards in the
\* finalize_terminal_run that follows in the same transaction.
FinishLease(w, outcome, added) ==
  /\ Owns(w)
  /\ verdict' = [verdict EXCEPT ![w] = outcome]
  /\ pending' = [pending EXCEPT ![w] = @ \cup added]
  /\ final' = [final EXCEPT ![w] =
        /\ seenRun[w] \notin FinishedRun
        /\ outcome \in TERMINAL_SHARD_STATUSES
        /\ OthersTerminal(job[w].shard)]
  /\ pc' = [pc EXCEPT ![w] = "commit"]
  /\ UNCHANGED <<leaseVars, rowVars, runVars, queueVars, job, stage, seenRun, callVars,
                 disturbances>>

MasscanEmpty(w) ==
  /\ pc[w] = "scan" /\ stage[w] = "discover" /\ seenRun[w] # "cancelled"
  /\ FinishLease(w, "completed", {})

NmapDone(w) ==
  /\ pc[w] = "scan" /\ stage[w] = "confirm" /\ seenRun[w] # "cancelled"
  /\ FinishLease(w, "completed", {"results"})

\* The status of a shard whose attempt failed.  Mutant: one attempt too many.
FailureStatusOffByOne(s) == IF attempts[s] > MaxAttempts THEN "dead_letter" ELSE "queued"
FailureStatus(s) == IF attempts[s] >= MaxAttempts THEN "dead_letter" ELSE "queued"

\* A scanner, a parser, the artifact store or the time limit fails; the session
\* may already hold some of the scanner's rows, which are not rolled back.
ScanFails(w) ==
  /\ pc[w] = "scan" /\ seenRun[w] # "cancelled"
  /\ \E added \in {{}, {IF stage[w] = "discover" THEN "candidates" ELSE "results"}} :
       FinishLease(w, FailureStatus(job[w].shard), added)

\* The loop has seen the cancelled run and killed the scanner.
ScanCancelled(w) ==
  /\ pc[w] = "scan" /\ seenRun[w] = "cancelled"
  /\ FinishLease(w, "cancelled", {})

\* The commit: the shard's row, what the session holds, and the run if this
\* transaction saw no pending shard.
FinishCommit(w) ==
  LET s == job[w].shard
      t == job[w].token
      Stored(rows, kind) == IF kind \in pending[w]
                            THEN [rows EXCEPT ![s] = @ \cup {t}] ELSE rows
  IN /\ pc[w] = "commit"
     /\ status' = [status EXCEPT ![s] = verdict[w]]
     /\ expired' = [expired EXCEPT ![s] = FALSE]
     /\ backoff' = [backoff EXCEPT ![s] = (verdict[w] = "queued")]
     /\ results' = Stored(results, "results")
     /\ candidates' = Stored(candidates, "candidates")
     /\ artifact' = IF verdict[w] = "completed"
                    THEN [artifact EXCEPT ![s] = IF "results" \in pending[w] THEN t ELSE 0]
                    ELSE artifact
     /\ IF final[w] THEN Finalize ELSE UNCHANGED runVars
     /\ seenRun' = IF final[w] THEN [seenRun EXCEPT ![w] = runStatus'] ELSE seenRun
     /\ stage' = [stage EXCEPT ![w] = "end"]
     /\ pending' = [pending EXCEPT ![w] = {}]
     /\ verdict' = [verdict EXCEPT ![w] = "queued"]
     /\ final' = [final EXCEPT ![w] = FALSE]
     /\ pc' = [pc EXCEPT ![w] = "dispatch"]
     /\ UNCHANGED <<leaseToken, lastToken, attempts, queueVars, job, callVars, disturbances>>

\* A candidate is already stored by another attempt: the flush violates
\* uq_discovery_observation, the session is unusable, and the task fails with
\* the shard left running until its heartbeat is too old.
DuplicateCandidate(w) ==
  /\ pc[w] \in {"beat", "commit"}
  /\ "candidates" \in pending[w]
  /\ candidates[job[w].shard] # {}
  /\ CloseTask(w)
  /\ UNCHANGED <<leaseVars, rowVars, runVars, queueVars, callVars, disturbances>>

-----------------------------------------------------------------------------
\* The scheduler's loop: recover_expired_leases, reconcile_terminal_runs,
\* dispatch_ready_runs.

RecoverSelect ==
  /\ pc["scheduler"] = "idle"
  /\ Stale # {}
  /\ selected' = [selected EXCEPT !["scheduler"] = Stale]
  /\ pc' = [pc EXCEPT !["scheduler"] = "requeue"]
  /\ UNCHANGED <<leaseVars, rowVars, runVars, queueVars, taskVars, room, disturbances>>

\* Written by primary key: the rows may have changed since the SELECT.
RecoverCommit ==
  LET S == selected["scheduler"]
  IN /\ pc["scheduler"] = "requeue"
     /\ \A s \in S : ~Locked(s)
     /\ status' = [s \in Shard |-> IF s \in S THEN "queued" ELSE status[s]]
     /\ leaseToken' = [s \in Shard |-> IF s \in S THEN 0 ELSE leaseToken[s]]
     /\ expired' = [s \in Shard |-> IF s \in S THEN FALSE ELSE expired[s]]
     /\ selected' = [selected EXCEPT !["scheduler"] = {}]
     /\ pc' = [pc EXCEPT !["scheduler"] = "dispatch"]
     /\ UNCHANGED <<lastToken, attempts, backoff, rowVars, runVars, queueVars, taskVars,
                    room, disturbances>>

ReconcileRead ==
  /\ pc["scheduler"] = "idle"
  /\ runStatus \notin FinishedRun
  /\ pc' = [pc EXCEPT !["scheduler"] = "reconcile"]
  /\ UNCHANGED <<leaseVars, rowVars, runVars, queueVars, taskVars, callVars, disturbances>>

\* Mutant: reconciliation does not finalize.
ReconcileNothing ==
  /\ pc["scheduler"] = "reconcile"
  /\ pc' = [pc EXCEPT !["scheduler"] = "idle"]
  /\ UNCHANGED <<leaseVars, rowVars, runVars, queueVars, taskVars, callVars, disturbances>>

\* The run was read before: it may be terminal by now.
ReconcileCommit ==
  /\ pc["scheduler"] = "reconcile"
  /\ pc' = [pc EXCEPT !["scheduler"] = "idle"]
  /\ UNCHANGED <<leaseVars, rowVars, queueVars, taskVars, callVars, disturbances>>
  /\ IF \A s \in Shard : status[s] \in TERMINAL_SHARD_STATUSES
     THEN Finalize ELSE UNCHANGED runVars

DispatchReady ==
  /\ pc["scheduler"] = "idle"
  /\ runStatus \notin FinishedRun
  /\ Ready # {}
  /\ pc' = [pc EXCEPT !["scheduler"] = "dispatch"]
  /\ UNCHANGED <<leaseVars, rowVars, runVars, queueVars, taskVars, callVars, disturbances>>

-----------------------------------------------------------------------------
\* cancel_run: the run and the shards to cancel are read, then written by
\* primary key.

CancelRead ==
  /\ pc["operator"] = "idle"
  /\ runStatus \notin FinishedRun
  /\ Disturb("cancel")
  /\ selected' = [selected EXCEPT !["operator"] =
                     {s \in Shard : status[s] \in {"queued", "leased"}}]
  /\ pc' = [pc EXCEPT !["operator"] = "cancel"]
  /\ UNCHANGED <<leaseVars, rowVars, runVars, queueVars, taskVars, room>>

CancelCommit ==
  LET S == selected["operator"]
  IN /\ pc["operator"] = "cancel"
     /\ \A s \in S : ~Locked(s)
     /\ runStatus' = "cancelled"
     /\ status' = [s \in Shard |-> IF s \in S THEN "cancelled" ELSE status[s]]
     /\ selected' = [selected EXCEPT !["operator"] = {}]
     /\ pc' = [pc EXCEPT !["operator"] = "idle"]
     /\ UNCHANGED <<leaseToken, lastToken, attempts, expired, backoff, rowVars, inventory,
                    queueVars, taskVars, room, disturbances>>

-----------------------------------------------------------------------------
\* The environment.

\* A worker process is lost: late acknowledgement puts its task back.
CrashWorker(w) ==
  /\ pc[w] # "idle"
  /\ Disturb("crash")
  /\ broker' = broker \cup {job[w]}
  /\ room' = [room EXCEPT ![w] = 0]
  /\ CloseTask(w)
  /\ UNCHANGED <<leaseVars, rowVars, runVars, outbox, selected>>

\* The API or the scheduler is restarted between two of its transactions.
RestartService(a) ==
  /\ pc[a] # "idle"
  /\ Disturb("restart")
  /\ pc' = [pc EXCEPT ![a] = "idle"]
  /\ room' = [room EXCEPT ![a] = 0]
  /\ selected' = [selected EXCEPT ![a] = {}]
  /\ UNCHANGED <<leaseVars, rowVars, runVars, queueVars, taskVars>>

\* A lease is not claimed in time.
LeaseExpires(s) ==
  /\ status[s] = "leased" /\ ~expired[s]
  /\ Disturb("late")
  /\ expired' = [expired EXCEPT ![s] = TRUE]
  /\ UNCHANGED <<status, leaseToken, lastToken, attempts, backoff, rowVars, runVars,
                 queueVars, pc, taskVars, callVars>>

\* The heartbeat of a live worker is held up beyond shard_lease_seconds.
HeartbeatLate(s) ==
  /\ status[s] = "running" /\ ~expired[s] /\ ~Orphan(s)
  /\ Disturb("pause")
  /\ expired' = [expired EXCEPT ![s] = TRUE]
  /\ UNCHANGED <<status, leaseToken, lastToken, attempts, backoff, rowVars, runVars,
                 queueVars, pc, taskVars, callVars>>

\* Nobody refreshes the heartbeat of a shard whose worker is gone.
OrphanExpires(s) ==
  /\ status[s] = "running" /\ ~expired[s] /\ Orphan(s)
  /\ expired' = [expired EXCEPT ![s] = TRUE]
  /\ UNCHANGED <<status, leaseToken, lastToken, attempts, backoff, rowVars, runVars,
                 queueVars, pc, taskVars, callVars, disturbances>>

BackoffElapses(s) ==
  /\ backoff[s]
  /\ backoff' = [backoff EXCEPT ![s] = FALSE]
  /\ UNCHANGED <<status, leaseToken, lastToken, attempts, expired, rowVars, runVars,
                 queueVars, pc, taskVars, callVars, disturbances>>

-----------------------------------------------------------------------------
Dispatch(a) == DispatchNothing(a) \/ DispatchCount(a) \/ DispatchLease(a)

ScanEnds(w) ==
  \/ MasscanFound(w) \/ MasscanEmpty(w) \/ NmapDone(w) \/ ScanFails(w) \/ ScanCancelled(w)

Execute(w) ==
  \/ LoadRun(w) \/ LoadCancelledRun(w) \/ StartRun(w)
  \/ CheckLease(w) \/ Heartbeat(w) \/ Superseded(w)
  \/ ScanEnds(w) \/ FinishCommit(w) \/ DuplicateCandidate(w)

Take(w) == \E m \in broker : ClaimLease(w, m) \/ DiscardTask(w, m)

WorkerStep(w) == Take(w) \/ Execute(w) \/ Dispatch(w)

Next ==
  \/ \E w \in Worker : WorkerStep(w) \/ CrashWorker(w)
  \/ \E a \in {"api", "scheduler"} : Dispatch(a) \/ RestartService(a)
  \/ \E m \in outbox : Publish(m) \/ PublishUnmarked(m)
  \/ RecoverSelect \/ RecoverCommit \/ ReconcileRead \/ ReconcileCommit \/ DispatchReady
  \/ CancelRead \/ CancelCommit
  \/ \E s \in Shard : \/ LeaseExpires(s) \/ HeartbeatLate(s)
                       \/ OrphanExpires(s) \/ BackoffElapses(s)

Spec == Init /\ [][Next]_vars

\* The scheduler's loop comes back to each of its jobs every 30 seconds and a
\* job waits for it, so a job enabled again and again is done; a scanner ends,
\* at the latest when the profile's time limit kills it.
Fairness ==
  /\ \A w \in Worker : WF_vars(WorkerStep(w)) /\ SF_vars(ScanEnds(w))
  /\ WF_vars(Dispatch("api"))
  /\ WF_vars(\E m \in outbox : Publish(m))
  /\ SF_vars(RecoverSelect) /\ SF_vars(ReconcileRead) /\ SF_vars(DispatchReady)
  /\ SF_vars(RecoverCommit \/ ReconcileCommit \/ Dispatch("scheduler"))
  /\ SF_vars(CancelCommit)
  /\ WF_vars(\E s \in Shard : OrphanExpires(s) \/ BackoffElapses(s))

FairSpec == Spec /\ Fairness

-----------------------------------------------------------------------------
DatabaseOK ==
  /\ runStatus \in RunStatus
  /\ status \in [Shard -> ShardStatus]
  /\ leaseToken \in [Shard -> Nat]
  /\ lastToken \in [Shard -> Nat]
  /\ attempts \in [Shard -> Nat]
  /\ expired \in [Shard -> BOOLEAN]
  /\ backoff \in [Shard -> BOOLEAN]
  /\ artifact \in [Shard -> Nat]
  /\ results \in [Shard -> SUBSET Nat]
  /\ candidates \in [Shard -> SUBSET Nat]
  /\ inventory \in [fromRun : BOOLEAN, rows : [Shard -> SUBSET Nat]]
  /\ outbox \subseteq Message

TasksOK ==
  /\ broker \subseteq Message
  /\ job \in [Worker -> Message \cup {NoMessage}]
  /\ stage \in [Worker -> {"discover", "confirm", "end"}]
  /\ pending \in [Worker -> SUBSET {"candidates", "results"}]
  /\ verdict \in [Worker -> {"completed", "cancelled", "queued", "dead_letter"}]
  /\ final \in [Worker -> BOOLEAN]
  /\ seenRun \in [Actor -> RunStatus]

Place == {"idle", "dispatch", "lease", "claimed", "loaded", "scan", "beat", "commit",
          "requeue", "reconcile", "cancel"}

ActorsOK ==
  /\ pc \in [Actor -> Place]
  /\ room \in [Actor -> Nat]
  /\ selected \in [Service -> SUBSET Shard]
  /\ disturbances \in 0..MaxDisturbances

PlacesOK ==
  \A w \in Worker :
    /\ pc[w] \in {"claimed", "loaded", "scan", "beat", "commit"} => stage[w] # "end"
    /\ pc[w] = "idle" => stage[w] = "end"
    /\ pc[w] # "idle" => job[w] \in Message

\* Every variable holds a value of its type, a worker that executes a shard has
\* a task, and each actor is at a point of its own code.
TypeOK == DatabaseOK /\ TasksOK /\ ActorsOK /\ PlacesOK

\* Two workers never execute under the same token of the same shard, whatever is
\* delivered twice, recovered early or put back by a crash (claim_lease).
SingleExecutor ==
  \A v, w \in Worker : Executing(v) /\ Executing(w) /\ job[v] = job[w] => v = w

\* What a completed shard has stored as confirmed results comes from the attempt
\* that holds its token, never from a superseded one (finish_lease).
FencedResults ==
  \A s \in Shard : status[s] = "completed" => results[s] \subseteq {leaseToken[s]}

\* A shard that waits for a worker has its task, with its current token, in the
\* outbox or in the broker: no crash between lease, send and claim strands it
\* (dispatch_available_shards, publish_pending_outbox).
NoLostDispatch ==
  \A s \in Shard : status[s] = "leased" =>
    [shard |-> s, token |-> leaseToken[s]] \in outbox \cup broker

\* The leases of the run, seen without queues and workers, are those of the
\* fencing promise: results are accepted from the current token only.
Fencing == INSTANCE LeaseFencing WITH
  issued <- lastToken,
  open <- [s \in Shard |-> IF status[s] = "leased" THEN leaseToken[s] ELSE 0],
  holder <- [s \in Shard |-> IF status[s] = "running" THEN leaseToken[s] ELSE 0],
  accepted <- results
ImplementsLeaseFencing == Fencing!Spec

\* Only a disturbance buys a shard an attempt beyond max_shard_attempts: the
\* attempt it interrupts and, with Masscan, the next one, which can fail on the
\* candidates a superseded worker has left it (recover_expired_leases counts no
\* attempts, so nothing else bounds them).
BoundedAttempts ==
  \A s \in Shard :
    attempts[s] <= MaxAttempts + (IF TwoStage THEN 2 ELSE 1) * disturbances

\* An inventory replaced by this run covers all of it: every shard is completed
\* and the rows shown for it are those of the attempt its artifact names
\* (finalize_terminal_run, materialize_current_exposures).
CompleteCoverage ==
  inventory.fromRun => \A s \in Shard :
    /\ status[s] = "completed"
    /\ inventory.rows[s] = IF artifact[s] = 0 THEN {} ELSE {artifact[s]}

\* A discovery gap is never read as closed services: when the inventory is
\* replaced, each shard with stored candidates has stored confirmed results.
NoGapReadAsClosed ==
  [][inventory' # inventory =>
       \A s \in Shard : candidates'[s] # {} => results'[s] # {}]_vars

\* A run that is completed, failed or cancelled keeps that status (cancel_run
\* and finalize_terminal_run refuse a terminal run).
FinishedForGood ==
  [][(runStatus \in FinishedRun => runStatus' = runStatus)]_vars

\* The run ends, whatever worker is lost at whatever moment.
RunSettles == <>[](runStatus \in FinishedRun)

\* Every shard ends in a terminal status.
ShardsSettle == <>[](\A s \in Shard : status[s] \in TERMINAL_SHARD_STATUSES)

\* A cancelled run stops being scanned, unless its status was overwritten.
CancelStopsScans ==
  runStatus = "cancelled" ~> (Active = {} \/ runStatus # "cancelled")

\* No dispatch takes the run over its concurrency budget.
BoundedConcurrency == Cardinality(Active) <= MaxConcurrent

\* A worker whose shard has another token changes nothing of what is recorded
\* for it: neither its status nor observations nor its artifact (execute_shard).
StaleWritesNothing ==
  [][\A w \in Worker : \A s \in Shard :
       Execute(w) /\ job[w].shard = s /\ job[w].token # leaseToken[s] =>
         /\ status'[s] = status[s] /\ artifact'[s] = artifact[s]
         /\ results'[s] = results[s] /\ candidates'[s] = candidates[s]]_vars

\* What a superseded worker still does to the shard it executed: it deletes what
\* the shard has stored when it starts late, and stores its own candidates with
\* its next heartbeat.  It changes neither status nor artifact, adds no confirmed
\* result and does not touch the inventory.
SupersededOnlyDeletes ==
  [][\A w \in Worker : \A s \in Shard :
       Execute(w) /\ job[w].shard = s /\ job[w].token # leaseToken[s] =>
         /\ status'[s] = status[s] /\ artifact'[s] = artifact[s]
         /\ inventory' = inventory
         /\ results'[s] = results[s] \/ (pc[w] = "loaded" /\ results'[s] = {})
         /\ candidates'[s] \subseteq candidates[s] \cup {job[w].token}]_vars
=============================================================================
