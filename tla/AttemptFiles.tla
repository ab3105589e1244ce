---------------------------- MODULE AttemptFiles ----------------------------
(***************************************************************************)
(* The files of the attempts at one shard.  A scanner's output file is     *)
(* named after the shard and lies in the /tmp that all worker processes of *)
(* a host share; the artifact it becomes is named after the token.         *)
(*                                                                         *)
(* ScanRun has the leases of a whole run; here a dispatch is one step that *)
(* puts the task into the broker, and a recovery is one step.  The run is  *)
(* neither cancelled nor over, the profile runs Nmap alone, a retry is due *)
(* at once, and artifacts go to the filesystem.                            *)
(***************************************************************************)
EXTENDS Integers, FiniteSets

CONSTANTS
  Worker,           \* the celery worker processes
  Host,             \* the hosts, or containers, they run on
  HostOf,           \* where each of them runs
  MaxAttempts,      \* settings.max_shard_attempts
  Disturbances,     \* which disturbances the environment may cause
  MaxDisturbances   \* how many of them: the one bound of the model

ASSUME HostAssumption == HostOf \in [Worker -> Host]
ASSUME SettingsAssumption == MaxAttempts \in Nat \ {0}
ASSUME DisturbanceAssumption ==
  /\ Disturbances \subseteq {"crash", "resend", "pause", "late"}
  /\ MaxDisturbances \in Nat

VARIABLES
  status,       \* ScanShard.status
  leaseToken,   \* ScanShard.lease_token; 0 is NULL
  lastToken,    \* how many tokens uuid4 has issued for the shard
  attempts,     \* ScanShard.attempts
  artifact,     \* the token in ScanShard.artifact_key; 0 is NULL
  rows,         \* the stored observations: their token, and whose output they are
  broker,       \* the tokens of the tasks in the broker
  pc,           \* where each worker is
  task,         \* the token it executes
  parsed,       \* whose output it has parsed
  path,         \* per host: the file at the scanner's output path; 0 is no file
  content,      \* whose output that file holds
  scanner,      \* the scanner processes
  stored,       \* the artifact store
  shared,       \* history: tokens that had to share the path with another
  disturbances  \* disturbances so far

shardVars == <<status, leaseToken, lastToken, attempts, artifact, rows>>
workerVars == <<pc, task, parsed>>
fileVars == <<path, content, scanner, stored, shared>>
vars == <<shardVars, broker, workerVars, fileVars, disturbances>>

-----------------------------------------------------------------------------
\* A file is known by the attempt that created it; one that is no longer at a
\* path is out of reach, except for a scanner that has it open.
Output == [token : Nat, content : SUBSET Nat]
Process == [token : Nat, file : Nat, host : Host]

\* The WHERE clause of claim_lease.  Mutant: the status is not compared.
ClaimableByToken(t) == leaseToken = t
Claimable(t) == leaseToken = t /\ status = "leased"

\* current_lease, and the WHERE clause of finish_lease.
Owns(w) == status = "running" /\ leaseToken = task[w]

\* A worker that has opened the output file and not yet removed it.
UsesPath(w) == pc[w] \in {"scanning", "scanned", "parsed", "stored"}

Executing(w) == pc[w] # "idle"
Orphaned == ~ \E w \in Worker : Executing(w) /\ task[w] = leaseToken

Disturb(kind) ==
  /\ kind \in Disturbances
  /\ disturbances < MaxDisturbances
  /\ disturbances' = disturbances + 1

-----------------------------------------------------------------------------
\* The run is created and its shard waits.
Init ==
  /\ status = "queued" /\ attempts = 0 /\ artifact = 0 /\ rows = {}
  /\ leaseToken = 0 /\ lastToken = 0
  /\ broker = {}
  /\ pc = [w \in Worker |-> "idle"]
  /\ task = [w \in Worker |-> 0]
  /\ parsed = [w \in Worker |-> {}]
  /\ path = [h \in Host |-> 0]
  /\ content = [h \in Host |-> {}]
  /\ scanner = {} /\ stored = {}
  /\ shared = {}
  /\ disturbances = 0

-----------------------------------------------------------------------------
\* dispatch_available_shards and publish_pending_outbox.
Dispatch ==
  LET t == lastToken + 1
  IN /\ status = "queued"
     /\ status' = "leased"
     /\ leaseToken' = t
     /\ lastToken' = t
     /\ broker' = broker \cup {t}
     /\ UNCHANGED <<attempts, artifact, rows, workerVars, fileVars, disturbances>>

\* The event was sent and not marked, and is sent once more.
SendAgain ==
  /\ status \notin {"queued", "leased"} /\ leaseToken # 0
  /\ Disturb("resend")
  /\ broker' = broker \cup {leaseToken}
  /\ UNCHANGED <<shardVars, workerVars, fileVars>>

-----------------------------------------------------------------------------
\* execute_shard.

ClaimLease(w, t) ==
  /\ pc[w] = "idle" /\ t \in broker /\ Claimable(t)
  /\ broker' = broker \ {t}
  /\ status' = "running"
  /\ attempts' = attempts + 1
  /\ pc' = [pc EXCEPT ![w] = "claimed"]
  /\ task' = [task EXCEPT ![w] = t]
  /\ UNCHANGED <<leaseToken, lastToken, artifact, rows, parsed, fileVars,
                 disturbances>>

\* Any other task is acknowledged and dropped.
DiscardTask(w, t) ==
  /\ pc[w] = "idle" /\ t \in broker /\ ~Claimable(t)
  /\ broker' = broker \ {t}
  /\ UNCHANGED <<shardVars, workerVars, fileVars, disturbances>>

\* What clear_shard_observations leaves.  Mutant: all of it.
NotCleared == rows
Cleared == {}

\* The file the scanner opens: the one at its path, emptied, or a new one.
OpenedFile(w) == IF path[HostOf[w]] = 0 THEN task[w] ELSE path[HostOf[w]]

\* The attempts that use this path too: their worker, or only their scanner.
Neighbours(w) ==
  {task[v] : v \in {v \in Worker \ {w} : UsesPath(v) /\ HostOf[v] = HostOf[w]}}
    \cup {n.token : n \in {n \in scanner : n.file = OpenedFile(w)}}

\* Earlier observations are deleted, and the scanner is started.
StartScan(w) ==
  LET h == HostOf[w]
      f == OpenedFile(w)
      n == Neighbours(w)
  IN /\ pc[w] = "claimed"
     /\ rows' = Cleared
     /\ path' = [path EXCEPT ![h] = f]
     /\ content' = [content EXCEPT ![h] = {}]
     /\ scanner' = scanner \cup {[token |-> task[w], file |-> f, host |-> h]}
     /\ shared' = IF n = {} THEN shared ELSE shared \cup n \cup {task[w]}
     /\ pc' = [pc EXCEPT ![w] = "scanning"]
     /\ UNCHANGED <<status, leaseToken, lastToken, attempts, artifact, broker, task,
                    parsed, stored, disturbances>>

\* A scanner writes to the file it has opened, wherever that is by now; it goes
\* on or, its output complete, ends.
ScannerWrites(n) ==
  /\ n \in scanner
  /\ content' = IF path[n.host] = n.file
                THEN [content EXCEPT ![n.host] = @ \cup {n.token}] ELSE content
  /\ scanner' \in {scanner, scanner \ {n}}
  /\ UNCHANGED <<shardVars, broker, workerVars, path, stored, shared, disturbances>>

\* The worker of this scanner is gone or has left it, or the scanner is killed.
ScannerStops(n) ==
  /\ n \in scanner
  /\ ~ \E w \in Worker : pc[w] = "scanning" /\ task[w] = n.token
  /\ scanner' = scanner \ {n}
  /\ UNCHANGED <<shardVars, broker, workerVars, path, content, stored, shared,
                 disturbances>>

\* The session is closed and the file at the path removed, whoever's it is.
CloseTask(w) ==
  /\ pc' = [pc EXCEPT ![w] = "idle"]
  /\ task' = [task EXCEPT ![w] = 0]
  /\ parsed' = [parsed EXCEPT ![w] = {}]
  /\ path' = [path EXCEPT ![HostOf[w]] = 0]
  /\ content' = [content EXCEPT ![HostOf[w]] = {}]

\* run_command returns: the scanner has ended well.
ScanDone(w) ==
  /\ pc[w] = "scanning"
  /\ ~ \E n \in scanner : n.token = task[w]
  /\ pc' = [pc EXCEPT ![w] = "scanned"]
  /\ UNCHANGED <<shardVars, broker, task, parsed, fileVars, disturbances>>

\* normalize_nmap_xml, with a file to parse.
ParseOutput(w) ==
  /\ pc[w] = "scanned" /\ Owns(w)
  /\ content[HostOf[w]] # {}
  /\ parsed' = [parsed EXCEPT ![w] = content[HostOf[w]]]
  /\ pc' = [pc EXCEPT ![w] = "parsed"]
  /\ UNCHANGED <<shardVars, broker, task, fileVars, disturbances>>

\* store_artifact moves whatever is at the path to the key of the token.
StoreArtifact(w) ==
  LET f == path[HostOf[w]]
  IN /\ pc[w] = "parsed"
     /\ f # 0
     /\ stored' = stored \cup {[token |-> task[w], content |-> content[HostOf[w]]]}
     /\ path' = [path EXCEPT ![HostOf[w]] = 0]
     /\ content' = [content EXCEPT ![HostOf[w]] = {}]
     /\ pc' = [pc EXCEPT ![w] = "stored"]
     /\ UNCHANGED <<shardVars, broker, task, parsed, scanner, shared, disturbances>>

\* finish_lease as completed, with the parsed rows and the artifact's key.
FinishLease(w) ==
  /\ pc[w] = "stored" /\ Owns(w)
  /\ status' = "completed"
  /\ artifact' = task[w]
  /\ rows' = rows \cup {[token |-> task[w], content |-> parsed[w]]}
  /\ CloseTask(w)
  /\ UNCHANGED <<leaseToken, lastToken, attempts, broker, scanner, stored, shared,
                 disturbances>>

\* A check of the lease, or finish_lease, finds another owner: rolled back.
Superseded(w) ==
  /\ pc[w] \in {"scanning", "scanned", "stored"} /\ ~Owns(w)
  /\ CloseTask(w)
  /\ UNCHANGED <<shardVars, broker, scanner, stored, shared, disturbances>>

\* The status of a shard whose attempt failed.  Mutant: a status of runs' only.
FailureStatusFailed == IF attempts >= MaxAttempts THEN "failed" ELSE "queued"
FailureStatus == IF attempts >= MaxAttempts THEN "dead_letter" ELSE "queued"

\* The rows its session holds by now, of a file parsed in full or in part.
Observed(w) ==
  {[token |-> task[w], content |-> c] :
     c \in {IF pc[w] = "scanned" THEN content[HostOf[w]] ELSE parsed[w]} \ {{}}}

\* The scanner, the parser or the artifact store fails: no file where one was
\* expected, one that does not parse, or a scanner that ends badly or too late.
\* What the session holds may go along.  A scanner still running is left so.
AttemptFails(w) ==
  /\ UsesPath(w)
  /\ IF Owns(w)
     THEN /\ status' = FailureStatus
          /\ rows' \in {rows, rows \cup Observed(w)}
     ELSE UNCHANGED <<status, rows>>
  /\ CloseTask(w)
  /\ UNCHANGED <<leaseToken, lastToken, attempts, artifact, broker, scanner, stored,
                 shared, disturbances>>

\* A worker process is lost, and nothing else of its host: its task is put back,
\* its scanner and its files stay.
CrashWorker(w) ==
  /\ Executing(w)
  /\ Disturb("crash")
  /\ broker' = broker \cup {task[w]}
  /\ pc' = [pc EXCEPT ![w] = "idle"]
  /\ task' = [task EXCEPT ![w] = 0]
  /\ parsed' = [parsed EXCEPT ![w] = {}]
  /\ UNCHANGED <<shardVars, fileVars>>

-----------------------------------------------------------------------------
\* recover_expired_leases, once the time of the lease or the heartbeat is up.
Requeue ==
  /\ status' = "queued"
  /\ leaseToken' = 0
  /\ UNCHANGED <<lastToken, attempts, artifact, rows, broker, workerVars, fileVars>>

\* Mutant: leases only, and no shard whose worker is gone.
RecoverUnclaimed ==
  /\ status = "leased" /\ Orphaned
  /\ Requeue
  /\ UNCHANGED disturbances

\* Nobody refreshes the heartbeat any more.
RecoverOrphan ==
  /\ status = "running" /\ Orphaned
  /\ Requeue
  /\ UNCHANGED disturbances

\* The task is only late, or the worker held up.
RecoverEarly ==
  /\ \/ status = "leased" /\ Disturb("late")
     \/ status = "running" /\ ~Orphaned /\ Disturb("pause")
  /\ Requeue

-----------------------------------------------------------------------------
WorkerStep(w) ==
  \/ \E t \in broker : ClaimLease(w, t) \/ DiscardTask(w, t)
  \/ StartScan(w) \/ ScanDone(w) \/ ParseOutput(w) \/ StoreArtifact(w) \/ FinishLease(w)
  \/ Superseded(w) \/ AttemptFails(w)

Next ==
  \/ Dispatch \/ SendAgain
  \/ \E w \in Worker : WorkerStep(w) \/ CrashWorker(w)
  \/ \E n \in scanner : ScannerWrites(n) \/ ScannerStops(n)
  \/ RecoverOrphan \/ RecoverEarly

Spec == Init /\ [][Next]_vars

ScannerEnds(n) == scanner' = scanner \ {n} /\ (ScannerWrites(n) \/ ScannerStops(n))

\* Workers and the scheduler's loop go on, and a scanner ends, at the latest when
\* the profile's time limit kills it.
Fairness ==
  /\ \A w \in Worker : WF_vars(WorkerStep(w))
  /\ WF_vars(\E n \in scanner : ScannerEnds(n))
  /\ WF_vars(Dispatch) /\ WF_vars(RecoverOrphan)

FairSpec == Spec /\ Fairness

-----------------------------------------------------------------------------
ShardOK ==
  /\ status \in {"queued", "leased", "running", "completed", "dead_letter"}
  /\ leaseToken \in Nat /\ lastToken \in Nat /\ attempts \in Nat /\ artifact \in Nat
  /\ rows \subseteq Output
  /\ broker \subseteq Nat

WorkersOK ==
  /\ pc \in [Worker -> {"idle", "claimed", "scanning", "scanned", "parsed", "stored"}]
  /\ task \in [Worker -> Nat]
  /\ parsed \in [Worker -> SUBSET Nat]

FilesOK ==
  /\ path \in [Host -> Nat]
  /\ content \in [Host -> SUBSET Nat]
  /\ scanner \subseteq Process
  /\ stored \subseteq Output
  /\ shared \subseteq Nat
  /\ disturbances \in 0..MaxDisturbances

\* Every variable holds a value of its type.
TypeOK == ShardOK /\ WorkersOK /\ FilesOK

\* An attempt that no other attempt met on its host finds its own output, and
\* only that, where it looks for it; a completed shard's artifact exists, and is,
\* like its observations, the output of the attempt its key names (the scan files
\* are named after the shard, store_artifact after the token).
OwnOutput ==
  /\ \A w \in Worker : pc[w] \in {"scanned", "parsed"} /\ task[w] \notin shared =>
       content[HostOf[w]] = {task[w]}
  /\ status = "completed" =>
       /\ \E a \in stored : a.token = artifact
       /\ artifact \notin shared =>
            rows \cup {a \in stored : a.token = artifact}
              \subseteq {[token |-> artifact, content |-> {artifact}]}

\* No execution is about to store an artifact under a key that has one: tasks put
\* back by a crash, or sent twice, never run a token again (claim_lease).
StoredOnce ==
  \A w \in Worker : pc[w] \in {"claimed", "scanning", "scanned", "parsed"} =>
    ~ \E a \in stored : a.token = task[w]

\* The shard ends, whatever its attempts do to each other's files: a file that
\* is gone or does not parse costs an attempt and strands nobody (execute_shard).
Settles == <>(status \in {"completed", "dead_letter"})
=============================================================================
