------------------------- MODULE ExposureInventory -------------------------
(***************************************************************************)
(* The current-exposure inventory of one scope and profile over successive *)
(* runs: finalization by the worker of the last shard or by the scheduler, *)
(* and the backfill of each start of the scheduler.  All statements filter *)
(* on the pair, so other pairs do not interfere.                           *)
(*                                                                         *)
(* A transaction at READ COMMITTED reads the old rows, deletes what its    *)
(* DELETE statement sees, waiting for a row somebody else has deleted, and *)
(* inserts at its commit: two of them do not see each other's inserts, and *)
(* uq_current_exposure makes the second of two equal rows fail.            *)
(***************************************************************************)
EXTENDS Integers, FiniteSets

CONSTANTS
  Run,              \* the runs of the scope and profile
  Service,          \* what a scan can find: an address, protocol and port
  Disturbances,     \* which disturbances the environment may cause
  MaxDisturbances   \* how many of them: the one bound of the model

ASSUME RunAssumption == Run \subseteq Nat \ {0} /\ IsFiniteSet(Run)
ASSUME DisturbanceAssumption ==
  Disturbances \subseteq {"restart", "overlap"} /\ MaxDisturbances \in Nat

NoRun == 0
Scheduler == 0
Process == Run \cup {Scheduler}   \* the worker that ends a run, and the scheduler

VARIABLES
  runStatus,     \* ScanRun.status; "none" before the run, "running" also for queued
  shardsEnded,   \* every shard of the run has committed a terminal status
  found,         \* what the run's stored observations show open
  outcome,       \* "covered", "gap" (incomplete coverage) or "failed" (a dead letter)
  completedAt,   \* ScanRun.completed_at; 0 is NULL
  rows,          \* current_exposures
  clock,         \* the last reading of the clock
  pc,            \* where each process is
  tx,            \* what its transaction and session hold
  sightings,     \* history: how often a committed materialization has shown a service
  disturbances   \* disturbances so far

runVars == <<runStatus, shardsEnded, found, outcome, completedAt>>
vars == <<runVars, rows, clock, pc, tx, sightings, disturbances>>

-----------------------------------------------------------------------------
Row == [service : Service, run : Run, first : Nat, last : Nat, count : Nat]

\* todo: runs an ORM query returned, with the status they had then; run and at: the
\* one being materialized and its observed_at; existing: the rows read; wanted:
\* those the DELETE saw; gone: those it has locked and deleted; added: those to
\* insert; closed: the runs finalized, with their completed_at.
Transaction ==
  [todo : SUBSET Run, run : Run \cup {NoRun}, at : Nat, existing : SUBSET Row,
   wanted : SUBSET Row, gone : SUBSET Row, added : SUBSET Row,
   closed : SUBSET (Run \X Nat), shown : SUBSET Run]
NoTransaction ==
  [todo |-> {}, run |-> NoRun, at |-> 0, existing |-> {}, wanted |-> {},
   gone |-> {}, added |-> {}, closed |-> {}, shown |-> {}]

Latest(R) == {r \in R : \A q \in R : completedAt[q] <= completedAt[r]}

\* The coverage gate.  Mutant: every run that did not fail passes.
CoveredAnyway(r) == outcome[r] # "failed"
Covered(r) == outcome[r] = "covered"

\* The rows of run r, observed at t, with the history of the old rows, which
\* starts with (t, 0).  Mutants: it is not read; it starts with (t, 1); the row
\* does not name its run.
Remembered(old, s) == {o \in old : o.service = s}
ReplacementForgets(r, t, old) ==
  {[service |-> s, run |-> r, last |-> t, first |-> t, count |-> 1] : s \in found[r]}
ReplacementUnnamed(r, t, old) ==
  {[service |-> s, run |-> NoRun, last |-> t, first |-> t, count |-> 1] : s \in found[r]}
ReplacementFromOne(r, t, old) ==
  {[service |-> s, run |-> r, last |-> t, first |-> t, count |-> 2] : s \in found[r]}
Replacement(r, t, old) ==
  {LET history == IF Remembered(old, s) = {} THEN [first |-> t, count |-> 0]
                  ELSE CHOOSE o \in Remembered(old, s) : TRUE
   IN  [service |-> s, run |-> r, last |-> t,
        first |-> history.first, count |-> history.count + 1] : s \in found[r]}

\* What the transaction sees of the table.  Mutant: without its deletions.
ViewUndeleted(p) == rows \cup tx[p].added
View(p) == (rows \ tx[p].gone) \cup tx[p].added

\* Nothing of an earlier run is still being scanned or written.
Still == (\A r \in Run : runStatus[r] # "running") /\ (\A p \in Process : pc[p] = "idle")

Disturb(kind) ==
  /\ kind \in Disturbances
  /\ disturbances < MaxDisturbances
  /\ disturbances' = disturbances + 1

Init ==
  /\ runStatus = [r \in Run |-> "none"]
  /\ shardsEnded = [r \in Run |-> FALSE]
  /\ found = [r \in Run |-> {}]
  /\ outcome = [r \in Run |-> "failed"]
  /\ completedAt = [r \in Run |-> 0]
  /\ rows = {}
  /\ clock = 0
  /\ pc = [p \in Process |-> IF p = Scheduler THEN "start" ELSE "idle"]
  /\ tx = [p \in Process |-> NoTransaction]
  /\ sightings = [s \in Service |-> 0]
  /\ disturbances = 0

-----------------------------------------------------------------------------
\* Runs.  Scans of one pair are usually hours apart; a manual run, or a short
\* interval, makes them overlap.

StartRun(r, services, result) ==
  /\ runStatus[r] = "none"
  /\ (Still /\ UNCHANGED disturbances) \/ (~Still /\ Disturb("overlap"))
  /\ runStatus' = [runStatus EXCEPT ![r] = "running"]
  /\ found' = [found EXCEPT ![r] = services]
  /\ outcome' = [outcome EXCEPT ![r] = result]
  /\ UNCHANGED <<shardsEnded, completedAt, rows, clock, pc, tx, sightings>>

\* Two workers end the last two shards in overlapping transactions: neither sees
\* the other's, and finalization is left to the scheduler.
EndUnfinalized(r) ==
  /\ runStatus[r] = "running" /\ ~shardsEnded[r] /\ pc[r] = "idle"
  /\ shardsEnded' = [shardsEnded EXCEPT ![r] = TRUE]
  /\ UNCHANGED <<runStatus, found, outcome, completedAt, rows, clock, pc, tx, sightings, disturbances>>

\* The worker of the last shard finalizes the run in the transaction of its shard.
EndFinalizing(r) ==
  /\ runStatus[r] = "running" /\ ~shardsEnded[r] /\ pc[r] = "idle"
  /\ pc' = [pc EXCEPT ![r] = "list"]
  /\ tx' = [tx EXCEPT ![r].todo = {r}]
  /\ UNCHANGED <<runVars, rows, clock, sightings, disturbances>>

\* reconcile_terminal_runs reads the runs that are not final, once for the list.
\* Mutant: those nobody has started.
NobodyStarted == {r \in Run : runStatus[r] = "queued"}
NotFinal == {r \in Run : runStatus[r] = "running"}

ReconcileRead ==
  /\ pc[Scheduler] = "idle"
  /\ NotFinal # {}
  /\ pc' = [pc EXCEPT ![Scheduler] = "list"]
  /\ tx' = [tx EXCEPT ![Scheduler].todo = NotFinal]
  /\ UNCHANGED <<runVars, rows, clock, sightings, disturbances>>

-----------------------------------------------------------------------------
\* finalize_terminal_run, for a run of process p's list.

\* The shards are read now, the run's status is the one of the list.
StillPending(p, r) ==
  /\ pc[p] = "list" /\ r \in tx[p].todo
  /\ p = Scheduler /\ ~shardsEnded[r]
  /\ tx' = [tx EXCEPT ![p].todo = @ \ {r}]
  /\ UNCHANGED <<runVars, rows, clock, pc, sightings, disturbances>>

Close(p, r) ==
  /\ pc[p] = "list" /\ r \in tx[p].todo
  /\ p = r \/ shardsEnded[r]
  /\ clock' = clock + 1
  /\ LET closing == [tx[p] EXCEPT !.todo = @ \ {r}, !.closed = @ \cup {<<r, clock + 1>>}]
     IN  IF Covered(r)
           THEN /\ tx' = [tx EXCEPT ![p] = [closing EXCEPT !.run = r, !.at = clock + 1]]
                /\ pc' = [pc EXCEPT ![p] = "read"]
           ELSE /\ tx' = [tx EXCEPT ![p] = closing]
                /\ UNCHANGED pc
  /\ UNCHANGED <<runVars, rows, sightings, disturbances>>

\* At its start the scheduler materializes the latest run that was covered.
Completed == {r \in Run : runStatus[r] = "completed" /\ Covered(r)}
Backfill(r) ==
  /\ pc[Scheduler] = "start"
  /\ r \in Latest(Completed)
  /\ pc' = [pc EXCEPT ![Scheduler] = "read"]
  /\ tx' = [tx EXCEPT ![Scheduler].run = r, ![Scheduler].at = completedAt[r]]
  /\ UNCHANGED <<runVars, rows, clock, sightings, disturbances>>

NothingToBackfill ==
  /\ pc[Scheduler] = "start"
  /\ Completed = {}
  /\ pc' = [pc EXCEPT ![Scheduler] = "idle"]
  /\ UNCHANGED <<runVars, rows, clock, tx, sightings, disturbances>>

-----------------------------------------------------------------------------
\* materialize_current_exposures.

ReadExisting(p) ==
  /\ pc[p] = "read"
  /\ pc' = [pc EXCEPT ![p] = "delete"]
  /\ tx' = [tx EXCEPT ![p].existing = View(p)]
  /\ UNCHANGED <<runVars, rows, clock, sightings, disturbances>>

DeleteBegins(p) ==
  /\ pc[p] = "delete"
  /\ pc' = [pc EXCEPT ![p] = "deleting"]
  /\ tx' = [tx EXCEPT ![p].wanted = rows \ tx[p].gone]
  /\ UNCHANGED <<runVars, rows, clock, sightings, disturbances>>

\* A row somebody else has deleted is waited for; what is inserted meanwhile is not
\* seen.  The new rows are added to the session.
DeleteEnds(p) ==
  /\ pc[p] = "deleting"
  /\ \A q \in Process \ {p} : tx[p].wanted \cap tx[q].gone = {}
  /\ pc' = [pc EXCEPT ![p] = "list"]
  /\ tx' = [tx EXCEPT ![p].gone = @ \cup (tx[p].wanted \cap rows),
                      ![p].added = Replacement(tx[p].run, tx[p].at, tx[p].existing),
                      ![p].shown = @ \cup {tx[p].run}]
  /\ UNCHANGED <<runVars, rows, clock, sightings, disturbances>>

-----------------------------------------------------------------------------
\* uq_current_exposure: an inserted row has the key of a committed one.
Clash(p) == \E a \in tx[p].added, b \in rows \ tx[p].gone : a.service = b.service

ClosedBy(p) == {c[1] : c \in tx[p].closed}

Commit(p) ==
  /\ pc[p] = "list" /\ tx[p].todo = {}
  /\ ~Clash(p)
  /\ rows' = View(p)
  /\ runStatus' = [r \in Run |-> IF r \notin ClosedBy(p) THEN runStatus[r]
                                 ELSE IF outcome[r] = "failed" THEN "failed" ELSE "completed"]
  /\ completedAt' = [r \in Run |-> IF r \notin ClosedBy(p) THEN completedAt[r]
                                   ELSE CHOOSE t \in 1..clock : <<r, t>> \in tx[p].closed]
  /\ shardsEnded' = [r \in Run |-> shardsEnded[r] \/ r \in ClosedBy(p)]
  /\ sightings' = [s \in Service |-> sightings[s] +
                     Cardinality({r \in tx[p].shown : s \in found[r]})]
  /\ pc' = [pc EXCEPT ![p] = "idle"]
  /\ tx' = [tx EXCEPT ![p] = NoTransaction]
  /\ UNCHANGED <<found, outcome, clock, disturbances>>

\* The transaction is rolled back: a worker's shard runs again, and the scheduler,
\* whose loop handles no exception, starts again.
Abort(p) ==
  /\ tx' = [tx EXCEPT ![p] = NoTransaction]
  /\ pc' = [pc EXCEPT ![p] = IF p = Scheduler THEN "start" ELSE "idle"]
  /\ UNCHANGED <<runVars, rows, clock, sightings>>

Reject(p) ==
  /\ pc[p] = "list" /\ tx[p].todo = {}
  /\ Clash(p)
  /\ Abort(p)
  /\ UNCHANGED disturbances

\* The process is lost at any point.
Restart(p) ==
  /\ p = Scheduler \/ pc[p] # "idle"
  /\ Disturb("restart")
  /\ Abort(p)

Finalize(p) ==
  \/ \E r \in Run : StillPending(p, r) \/ Close(p, r)
  \/ ReadExisting(p) \/ DeleteBegins(p) \/ DeleteEnds(p) \/ Commit(p) \/ Reject(p)

WorkerStep(r) == EndUnfinalized(r) \/ EndFinalizing(r) \/ Finalize(r)

SchedulerStep ==
  (\E r \in Run : Backfill(r)) \/ NothingToBackfill \/ ReconcileRead \/ Finalize(Scheduler)

Next ==
  \/ \E r \in Run : WorkerStep(r)
  \/ \E r \in Run, services \in SUBSET Service, result \in {"covered", "gap", "failed"} :
       StartRun(r, services, result)
  \/ SchedulerStep
  \/ \E p \in Process : Restart(p)

Spec == Init /\ [][Next]_vars

\* Workers end their shards (that is ScanRun) and the scheduler goes on.
FairSpec == Spec /\ WF_vars(SchedulerStep) /\ \A r \in Run : WF_vars(WorkerStep(r))

-----------------------------------------------------------------------------
\* Every variable holds a value of its type.
TypeOK ==
  /\ runStatus \in [Run -> {"none", "running", "completed", "failed"}]
  /\ shardsEnded \in [Run -> BOOLEAN]
  /\ found \in [Run -> SUBSET Service]
  /\ outcome \in [Run -> {"covered", "gap", "failed"}]
  /\ clock \in Nat /\ completedAt \in [Run -> 0..clock]
  /\ rows \subseteq Row
  /\ pc \in [Process -> {"start", "idle", "list", "read", "delete", "deleting"}]
  /\ tx \in [Process -> Transaction]
  /\ \A p \in Process : \A c \in tx[p].closed : c[2] \in 1..clock
  /\ sightings \in [Service -> Nat]
  /\ disturbances \in 0..MaxDisturbances

\* Whatever overlaps, a row shows what a completed and fully covered run has
\* observed, never a run with a gap, a failed one or one not committed
\* (finalize_terminal_run, backfill_current_exposures).
GatedByCoverage ==
  \A row \in rows :
    runStatus[row.run] = "completed" /\ outcome[row.run] = "covered" /\ row.service \in found[row.run]

\* scan_count is never above the number of committed materializations that saw the
\* service: lost transactions and failed inserts leave no count behind.
CountsSightings == \A row \in rows : row.count <= sightings[row.service]

\* Once nothing is running, the inventory is what the latest covered run found.
ShowsLatest ==
  Still =>
    IF Completed = {} THEN rows = {}
    ELSE \A r \in Latest(Completed) :
           {<<row.service, row.run>> : row \in rows} = found[r] \X {r}

\* Runs that do not overlap, with no process lost and no scheduler restarted, leave the
\* inventory of the latest one, also when the scheduler finalizes a run again that it
\* has read before its worker did.
SequentialRunsShowLatest == disturbances = 0 => ShowsLatest

\* Without overlaps and restarts a service that stays in the inventory keeps its
\* first_seen, and its last_seen and scan_count grow (materialize_current_exposures).
HistoryKept ==
  [][disturbances' = 0 => \A a \in rows, b \in rows' :
       a.service = b.service /\ a # b =>
         b.first = a.first /\ b.last > a.last /\ b.count > a.count]_vars

\* Every run is finalized in the end, whatever transactions reject each other.
RunsAreFinalized == \A r \in Run : runStatus[r] = "running" ~> runStatus[r] # "running"
=============================================================================
