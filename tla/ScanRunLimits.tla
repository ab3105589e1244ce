--------------------------- MODULE ScanRunLimits ---------------------------
(***************************************************************************)
(* The two limits of a run, proved of ScanRun for any number of shards and *)
(* workers, any limits and any disturbances: the attempts of a shard and   *)
(* the shards active at once.                                              *)
(*                                                                         *)
(* The code compares max_shard_attempts with the attempts of a shard only  *)
(* when a scanner fails; a shard that is recovered is attempted again      *)
(* whatever the count.  So the proof keeps books.  A disturbance puts a    *)
(* shard in debt: it will be recovered, and with Masscan the worker it is  *)
(* recovered from may go on, store its candidates under the next attempt   *)
(* and make that one fail on them, which ends in a recovery again.         *)
(* Accounts states that no shard owes more than has been paid, and that    *)
(* the attempts made, the one a waiting shard is about to make and those   *)
(* it owes are within the limit and what has been paid.  Every step pays   *)
(* for the debt it incurs or moves it on.                                  *)
(*                                                                         *)
(* max_concurrent_shards is exceeded when dispatches overlap.  BudgetInv   *)
(* counts the slots that they have seen free and not taken yet with those  *)
(* that are taken: together they are at most that limit for each process   *)
(* that dispatches.                                                        *)
(***************************************************************************)
EXTENDS ScanRunProofs

-----------------------------------------------------------------------------
\* Counting attempts.

\* A token of 0 is no token.
RealTokens ==
  /\ \A m \in outbox \cup broker : m.token # 0
  /\ \A w \in Worker : job[w] \in Message => job[w].token # 0

\* Nobody executes a shard that waits to be dispatched.
QueuedIsIdle == \A s \in Shard : status[s] = "queued" => Orphan(s)

\* Candidates are held from the end of Masscan to the next commit.
PendingShape ==
  \A w \in Worker :
    /\ stage[w] = "discover" => TwoStage
    /\ "candidates" \in pending[w] =>
         TwoStage /\ Started(w) /\ (stage[w] = "confirm" \/ pc[w] = "commit")

\* A worker stores its candidates once.
Unstored(w) == Started(w) /\ (stage[w] = "discover" \/ "candidates" \in pending[w])
NotYetStored ==
  \A w \in Worker : Unstored(w) => job[w].token \notin candidates[job[w].shard]

\* A failed attempt that is to be repeated was not the last.
RetryHasBudget ==
  \A w \in Worker : pc[w] = "commit" /\ verdict[w] = "queued" =>
    attempts[job[w].shard] < MaxAttempts

\* The debts of a shard: what can still cost it an attempt that no failure has
\* counted.  It is about to be recovered; it is about to leave a worker behind that
\* goes on; such workers hold candidates; such candidates are in its way.
Listed(s) == s \in selected["scheduler"] \/ (s \in Active /\ expired[s])
Recoverable(s) == Listed(s) \/ (status[s] = "running" /\ Orphan(s))
MayStray(s) ==
  TwoStage /\ Listed(s) /\ (status[s] \in {"queued", "leased"} \/ ~Orphan(s))
Holding(w) == pc[w] = "beat" /\ "candidates" \in pending[w]
StrayTokens(s) ==
  {t \in 1 .. lastToken[s] :
     /\ t # leaseToken[s]
     /\ \E w \in Worker : Holding(w) /\ job[w] = [shard |-> s, token |-> t]}
Tainted(s) ==
  /\ TwoStage
  /\ ~ (candidates[s] \subseteq {leaseToken[s]})
  /\ \E w \in Worker : Started(w) /\ job[w] = [shard |-> s, token |-> leaseToken[s]]

One(b) == IF b THEN 1 ELSE 0
Debt(s) ==
  One(Recoverable(s)) + One(MayStray(s)) + Cardinality(StrayTokens(s)) + One(Tainted(s))
Waiting(s) == One(status[s] \in {"queued", "leased"})

Price == IF TwoStage THEN 2 ELSE 1
Paid == Price * disturbances

\* Disturbances have paid for the debts, and for all attempts beyond the limit.
Balanced(s) ==
  /\ Debt(s) <= Paid
  /\ attempts[s] + Waiting(s) + Debt(s) <= MaxAttempts + Paid

Accounts == /\ RealTokens /\ QueuedIsIdle /\ PendingShape /\ NotYetStored
            /\ RetryHasBudget /\ \A s \in Shard : Balanced(s)

-----------------------------------------------------------------------------
\* Only a scanner that ends adds candidates, and a commit takes them along.
LEMMA PendingShapeStep ==
  ASSUME TypeOK, PendingShape, [Next]_vars
  PROVE  PendingShape'
<1>1. ASSUME NEW a \in Actor, DispatchNothing(a) PROVE PendingShape'
  BY <1>1
     DEF DispatchNothing, PendingShape, Started, Executing, TypeOK, TasksOK, ActorsOK,
         Actor, taskVars, CloseTask, LeaveDispatch
<1>2. ASSUME NEW a \in Actor, DispatchCount(a) PROVE PendingShape'
  BY <1>2 DEF DispatchCount, PendingShape, Started, Executing, taskVars
<1>3. ASSUME NEW a \in Actor, DispatchLease(a) PROVE PendingShape'
  BY <1>3
     DEF DispatchLease, PendingShape, Started, Executing, TypeOK, TasksOK, ActorsOK,
         Actor, taskVars, CloseTask, LeaveDispatch
<1>4. ASSUME NEW m \in outbox, Publish(m) PROVE PendingShape'
  BY <1>4 DEF Publish, PendingShape, Started, Executing, taskVars
<1>5. ASSUME NEW m \in outbox, PublishUnmarked(m) PROVE PendingShape'
  BY <1>5 DEF PublishUnmarked, PendingShape, Started, Executing, taskVars
<1>6. ASSUME NEW w \in Worker, NEW m \in broker, ClaimLease(w, m) PROVE PendingShape'
  BY <1>6 DEF ClaimLease, PendingShape, Started, Executing, TypeOK, PlacesOK
<1>7. ASSUME NEW w \in Worker, NEW m \in broker, DiscardTask(w, m) PROVE PendingShape'
  BY <1>7 DEF DiscardTask, PendingShape, Started, Executing, taskVars
<1>8. ASSUME NEW w \in Worker, LoadRun(w) PROVE PendingShape'
  BY <1>8 DEF LoadRun, PendingShape, Started, Executing
<1>9. ASSUME NEW w \in Worker, LoadCancelledRun(w) PROVE PendingShape'
  BY <1>9 DEF LoadCancelledRun, PendingShape, Started, Executing, CloseTask
<1>10. ASSUME NEW w \in Worker, StartRun(w) PROVE PendingShape'
  BY <1>10 DEF StartRun, PendingShape, Started, Executing
<1>11. ASSUME NEW w \in Worker, CheckLease(w) PROVE PendingShape'
  BY <1>11 DEF CheckLease, PendingShape, Started, Executing
<1>12. ASSUME NEW w \in Worker, Heartbeat(w) PROVE PendingShape'
  BY <1>12 DEF Heartbeat, PendingShape, Started, Executing
<1>13. ASSUME NEW w \in Worker, Superseded(w) PROVE PendingShape'
  BY <1>13
     DEF Superseded, PendingShape, Started, Executing, TypeOK, TasksOK, CloseTask
<1>14. ASSUME NEW w \in Worker, MasscanFound(w) PROVE PendingShape'
  BY <1>14 DEF MasscanFound, PendingShape, Started, Executing, TypeOK, TasksOK
<1>15. ASSUME NEW w \in Worker, MasscanEmpty(w) PROVE PendingShape'
  BY <1>15 DEF MasscanEmpty, PendingShape, Started, Executing, FinishLease
<1>16. ASSUME NEW w \in Worker, NmapDone(w) PROVE PendingShape'
  BY <1>16 DEF NmapDone, PendingShape, Started, Executing, FinishLease
<1>17. ASSUME NEW w \in Worker, ScanFails(w) PROVE PendingShape'
  BY <1>17
     DEF ScanFails, PendingShape, Started, Executing, TypeOK, ActorsOK, Actor,
         FinishLease
<1>18. ASSUME NEW w \in Worker, ScanCancelled(w) PROVE PendingShape'
  BY <1>18 DEF ScanCancelled, PendingShape, Started, Executing, FinishLease
<1>19. ASSUME NEW w \in Worker, FinishCommit(w) PROVE PendingShape'
  BY <1>19 DEF FinishCommit, PendingShape, Started, Executing, TypeOK, TasksOK
<1>20. ASSUME NEW w \in Worker, DuplicateCandidate(w) PROVE PendingShape'
  BY <1>20
     DEF DuplicateCandidate, PendingShape, Started, Executing, TypeOK, TasksOK,
         CloseTask
<1>21. ASSUME RecoverSelect PROVE PendingShape'
  BY <1>21 DEF RecoverSelect, PendingShape, Started, Executing, taskVars
<1>22. ASSUME RecoverCommit PROVE PendingShape'
  BY <1>22 DEF RecoverCommit, PendingShape, Started, Executing, taskVars
<1>23. ASSUME ReconcileRead PROVE PendingShape'
  BY <1>23 DEF ReconcileRead, PendingShape, Started, Executing, taskVars
<1>24. ASSUME ReconcileCommit PROVE PendingShape'
  BY <1>24 DEF ReconcileCommit, PendingShape, Started, Executing, taskVars
<1>25. ASSUME DispatchReady PROVE PendingShape'
  BY <1>25 DEF DispatchReady, PendingShape, Started, Executing, taskVars
<1>26. ASSUME CancelRead PROVE PendingShape'
  BY <1>26 DEF CancelRead, PendingShape, Started, Executing, taskVars
<1>27. ASSUME CancelCommit PROVE PendingShape'
  BY <1>27 DEF CancelCommit, PendingShape, Started, Executing, taskVars
<1>28. ASSUME NEW w \in Worker, CrashWorker(w) PROVE PendingShape'
  BY <1>28
     DEF CrashWorker, PendingShape, Started, Executing, TypeOK, TasksOK, CloseTask
<1>29. ASSUME NEW a \in {"api", "scheduler"}, RestartService(a) PROVE PendingShape'
  <2>1. UNCHANGED <<job, stage, pending>> /\ \A w \in Worker : pc'[w] = pc[w]
    BY <1>29, WorkerAssumption DEF RestartService, taskVars, Service
  <2> QED
    BY <2>1 DEF PendingShape, Started, Executing
<1>30. ASSUME NEW s \in Shard, LeaseExpires(s) PROVE PendingShape'
  BY <1>30 DEF LeaseExpires, PendingShape, Started, Executing, taskVars
<1>31. ASSUME NEW s \in Shard, HeartbeatLate(s) PROVE PendingShape'
  BY <1>31 DEF HeartbeatLate, PendingShape, Started, Executing, taskVars
<1>32. ASSUME NEW s \in Shard, OrphanExpires(s) PROVE PendingShape'
  BY <1>32 DEF OrphanExpires, PendingShape, Started, Executing, taskVars
<1>33. ASSUME NEW s \in Shard, BackoffElapses(s) PROVE PendingShape'
  BY <1>33 DEF BackoffElapses, PendingShape, Started, Executing, taskVars
<1>34. ASSUME UNCHANGED vars PROVE PendingShape'
  BY <1>34 DEF vars, taskVars, PendingShape, Started, Executing
<1> QED
  BY <1>1, <1>2, <1>3, <1>4, <1>5, <1>6, <1>7, <1>8, <1>9, <1>10, <1>11, <1>12, <1>13,
     <1>14, <1>15, <1>16, <1>17, <1>18, <1>19, <1>20, <1>21, <1>22, <1>23, <1>24,
     <1>25, <1>26, <1>27, <1>28, <1>29, <1>30, <1>31, <1>32, <1>33, <1>34
     DEF Next, WorkerStep, Take, Execute, ScanEnds, Dispatch, Actor, Service

\* A retry is decided by the worker that commits it.
LEMMA RetryKept ==
  ASSUME RetryHasBudget, attempts' = attempts,
         \A v \in Worker : pc'[v] = "commit" =>
           pc[v] = "commit" /\ verdict'[v] = verdict[v] /\ job'[v] = job[v]
  PROVE  RetryHasBudget'
  BY DEF RetryHasBudget

\* A worker that commits after another has closed its session did so before.
LEMMA CloseTaskRetry ==
  ASSUME TypeOK, NEW w \in Worker, CloseTask(w), NEW v \in Worker, pc'[v] = "commit"
  PROVE  pc[v] = "commit" /\ verdict'[v] = verdict[v] /\ job'[v] = job[v]
  BY DEF CloseTask, TypeOK, ActorsOK, Actor

\* Nor does the end of a dispatch make a worker commit.
LEMMA LeaveDispatchRetry ==
  ASSUME TypeOK, NEW a \in Actor, LeaveDispatch(a), NEW v \in Worker, pc'[v] = "commit"
  PROVE  pc[v] = "commit" /\ verdict'[v] = verdict[v] /\ job'[v] = job[v]
<1>1. CASE a \in Worker /\ stage[a] # "end"
  BY <1>1 DEF LeaveDispatch, TypeOK, ActorsOK, Actor, taskVars
<1>2. CASE a \in Worker /\ stage[a] = "end"
  BY <1>2, CloseTaskRetry DEF LeaveDispatch
<1>3. CASE a \notin Worker
  BY <1>3 DEF LeaveDispatch, TypeOK, ActorsOK, Actor, taskVars
<1> QED
  BY <1>1, <1>2, <1>3

\* The shard of a worker that commits is not claimed meanwhile.
LEMMA RetryHasBudgetStep ==
  ASSUME IInv, RetryHasBudget, [Next]_vars
  PROVE  RetryHasBudget'
<1>1. ASSUME NEW a \in Actor, DispatchNothing(a) PROVE RetryHasBudget'
  <2>1. LeaveDispatch(a) /\ attempts' = attempts
    BY <1>1 DEF DispatchNothing, leaseVars
  <2> QED
    BY <2>1, LeaveDispatchRetry, RetryKept DEF IInv
<1>2. ASSUME NEW a \in Actor, DispatchCount(a) PROVE RetryHasBudget'
  BY <1>2 DEF DispatchCount, RetryHasBudget, taskVars, leaseVars
<1>3. ASSUME NEW a \in Actor, DispatchLease(a) PROVE RetryHasBudget'
  <2>1. LeaveDispatch(a) /\ attempts' = attempts
    BY <1>3 DEF DispatchLease
  <2> QED
    BY <2>1, LeaveDispatchRetry, RetryKept DEF IInv
<1>4. ASSUME NEW m \in outbox, Publish(m) PROVE RetryHasBudget'
  BY <1>4 DEF Publish, RetryHasBudget, taskVars, leaseVars
<1>5. ASSUME NEW m \in outbox, PublishUnmarked(m) PROVE RetryHasBudget'
  BY <1>5 DEF PublishUnmarked, RetryHasBudget, taskVars, leaseVars
<1>6. ASSUME NEW w \in Worker, NEW m \in broker, ClaimLease(w, m) PROVE RetryHasBudget'
  <2>1. m \in Message /\ status[m.shard] = "leased"
    BY <1>6 DEF ClaimLease, Claimable, IInv, TypeOK, TasksOK
  <2>2. \A v \in Worker : pc'[v] = "commit" =>
          pc[v] = "commit" /\ verdict'[v] = verdict[v] /\ job'[v] = job[v]
    BY <1>6 DEF ClaimLease
  <2>3. \A v \in Worker : pc[v] = "commit" => job[v].shard # m.shard
    BY <2>1 DEF IInv, CommitOwns, Owns
  <2>4. \A s \in Shard : s # m.shard => attempts'[s] = attempts[s]
    BY <1>6 DEF ClaimLease
  <2>5. \A v \in Worker : pc[v] = "commit" => job[v].shard \in Shard
    BY DEF IInv, CommitOwns, Owns
  <2> QED
    BY <2>2, <2>3, <2>4, <2>5 DEF RetryHasBudget
<1>7. ASSUME NEW w \in Worker, NEW m \in broker, DiscardTask(w, m) PROVE RetryHasBudget'
  BY <1>7 DEF DiscardTask, RetryHasBudget, taskVars, leaseVars
<1>8. ASSUME NEW w \in Worker, LoadRun(w) PROVE RetryHasBudget'
  BY <1>8 DEF LoadRun, RetryHasBudget, leaseVars
<1>9. ASSUME NEW w \in Worker, LoadCancelledRun(w) PROVE RetryHasBudget'
  <2>1. CloseTask(w) /\ attempts' = attempts
    BY <1>9 DEF LoadCancelledRun
  <2> QED
    BY <2>1, CloseTaskRetry, RetryKept DEF IInv
<1>10. ASSUME NEW w \in Worker, StartRun(w) PROVE RetryHasBudget'
  BY <1>10 DEF StartRun, RetryHasBudget, leaseVars
<1>11. ASSUME NEW w \in Worker, CheckLease(w) PROVE RetryHasBudget'
  BY <1>11 DEF CheckLease, RetryHasBudget, leaseVars
<1>12. ASSUME NEW w \in Worker, Heartbeat(w) PROVE RetryHasBudget'
  BY <1>12 DEF Heartbeat, RetryHasBudget
<1>13. ASSUME NEW w \in Worker, Superseded(w) PROVE RetryHasBudget'
  <2>1. CloseTask(w) /\ attempts' = attempts
    BY <1>13 DEF Superseded, leaseVars
  <2> QED
    BY <2>1, CloseTaskRetry, RetryKept DEF IInv
<1>14. ASSUME NEW w \in Worker, MasscanFound(w) PROVE RetryHasBudget'
  BY <1>14 DEF MasscanFound, RetryHasBudget, leaseVars
<1>15. ASSUME NEW w \in Worker, MasscanEmpty(w) PROVE RetryHasBudget'
  <2>1. verdict'[w] # "queued"
    BY <1>15 DEF MasscanEmpty, FinishLease, IInv, TypeOK, TasksOK
  <2>2. \A v \in Worker \ {w} :
          pc'[v] = pc[v] /\ verdict'[v] = verdict[v] /\ job'[v] = job[v]
    BY <1>15 DEF MasscanEmpty, FinishLease
  <2>3. attempts' = attempts
    BY <1>15 DEF MasscanEmpty, FinishLease, leaseVars
  <2> QED
    BY <2>1, <2>2, <2>3 DEF RetryHasBudget
<1>16. ASSUME NEW w \in Worker, NmapDone(w) PROVE RetryHasBudget'
  <2>1. verdict'[w] # "queued"
    BY <1>16 DEF NmapDone, FinishLease, IInv, TypeOK, TasksOK
  <2>2. \A v \in Worker \ {w} :
          pc'[v] = pc[v] /\ verdict'[v] = verdict[v] /\ job'[v] = job[v]
    BY <1>16 DEF NmapDone, FinishLease
  <2>3. attempts' = attempts
    BY <1>16 DEF NmapDone, FinishLease, leaseVars
  <2> QED
    BY <2>1, <2>2, <2>3 DEF RetryHasBudget
<1>17. ASSUME NEW w \in Worker, ScanFails(w) PROVE RetryHasBudget'
  <2>1. /\ \A v \in Worker \ {w} :
             pc'[v] = pc[v] /\ verdict'[v] = verdict[v] /\ job'[v] = job[v]
        /\ verdict'[w] = FailureStatus(job[w].shard) /\ job'[w] = job[w]
    BY <1>17 DEF ScanFails, FinishLease, IInv, TypeOK, TasksOK
  <2>2. attempts' = attempts /\ job[w].shard \in Shard
    BY <1>17 DEF ScanFails, FinishLease, leaseVars, Owns
  <2>3. verdict'[w] = "queued" => attempts[job[w].shard] < MaxAttempts
    BY <2>1, <2>2, SettingsAssumption DEF FailureStatus, IInv, TypeOK, DatabaseOK
  <2> QED
    BY <2>1, <2>2, <2>3 DEF RetryHasBudget
<1>18. ASSUME NEW w \in Worker, ScanCancelled(w) PROVE RetryHasBudget'
  <2>1. verdict'[w] # "queued"
    BY <1>18 DEF ScanCancelled, FinishLease, IInv, TypeOK, TasksOK
  <2>2. \A v \in Worker \ {w} :
          pc'[v] = pc[v] /\ verdict'[v] = verdict[v] /\ job'[v] = job[v]
    BY <1>18 DEF ScanCancelled, FinishLease
  <2>3. attempts' = attempts
    BY <1>18 DEF ScanCancelled, FinishLease, leaseVars
  <2> QED
    BY <2>1, <2>2, <2>3 DEF RetryHasBudget
<1>19. ASSUME NEW w \in Worker, FinishCommit(w) PROVE RetryHasBudget'
  <2>1. attempts' = attempts
    BY <1>19 DEF FinishCommit
  <2>2. \A v \in Worker : pc'[v] = "commit" =>
          pc[v] = "commit" /\ verdict'[v] = verdict[v] /\ job'[v] = job[v]
    BY <1>19 DEF FinishCommit, IInv, TypeOK, ActorsOK, Actor
  <2> QED
    BY <2>1, <2>2, RetryKept
<1>20. ASSUME NEW w \in Worker, DuplicateCandidate(w) PROVE RetryHasBudget'
  <2>1. CloseTask(w) /\ attempts' = attempts
    BY <1>20 DEF DuplicateCandidate, leaseVars
  <2> QED
    BY <2>1, CloseTaskRetry, RetryKept DEF IInv
<1>21. ASSUME RecoverSelect PROVE RetryHasBudget'
  BY <1>21 DEF RecoverSelect, RetryHasBudget, taskVars, leaseVars
<1>22. ASSUME RecoverCommit PROVE RetryHasBudget'
  BY <1>22 DEF RecoverCommit, RetryHasBudget, taskVars
<1>23. ASSUME ReconcileRead PROVE RetryHasBudget'
  BY <1>23 DEF ReconcileRead, RetryHasBudget, taskVars, leaseVars
<1>24. ASSUME ReconcileCommit PROVE RetryHasBudget'
  BY <1>24 DEF ReconcileCommit, RetryHasBudget, taskVars, leaseVars
<1>25. ASSUME DispatchReady PROVE RetryHasBudget'
  BY <1>25 DEF DispatchReady, RetryHasBudget, taskVars, leaseVars
<1>26. ASSUME CancelRead PROVE RetryHasBudget'
  BY <1>26 DEF CancelRead, RetryHasBudget, taskVars, leaseVars
<1>27. ASSUME CancelCommit PROVE RetryHasBudget'
  BY <1>27 DEF CancelCommit, RetryHasBudget, taskVars
<1>28. ASSUME NEW w \in Worker, CrashWorker(w) PROVE RetryHasBudget'
  <2>1. CloseTask(w) /\ attempts' = attempts
    BY <1>28 DEF CrashWorker, leaseVars
  <2> QED
    BY <2>1, CloseTaskRetry, RetryKept DEF IInv
<1>29. ASSUME NEW a \in {"api", "scheduler"}, RestartService(a) PROVE RetryHasBudget'
  BY <1>29 DEF RestartService, RetryHasBudget, taskVars, leaseVars
<1>30. ASSUME NEW s \in Shard, LeaseExpires(s) PROVE RetryHasBudget'
  BY <1>30 DEF LeaseExpires, RetryHasBudget, taskVars
<1>31. ASSUME NEW s \in Shard, HeartbeatLate(s) PROVE RetryHasBudget'
  BY <1>31 DEF HeartbeatLate, RetryHasBudget, taskVars
<1>32. ASSUME NEW s \in Shard, OrphanExpires(s) PROVE RetryHasBudget'
  BY <1>32 DEF OrphanExpires, RetryHasBudget, taskVars
<1>33. ASSUME NEW s \in Shard, BackoffElapses(s) PROVE RetryHasBudget'
  BY <1>33 DEF BackoffElapses, RetryHasBudget, taskVars
<1>34. ASSUME UNCHANGED vars PROVE RetryHasBudget'
  BY <1>34 DEF vars, leaseVars, taskVars, RetryHasBudget
<1> QED
  BY <1>1, <1>2, <1>3, <1>4, <1>5, <1>6, <1>7, <1>8, <1>9, <1>10, <1>11, <1>12, <1>13,
     <1>14, <1>15, <1>16, <1>17, <1>18, <1>19, <1>20, <1>21, <1>22, <1>23, <1>24,
     <1>25, <1>26, <1>27, <1>28, <1>29, <1>30, <1>31, <1>32, <1>33, <1>34
     DEF Next, WorkerStep, Take, Execute, ScanEnds, Dispatch, Actor, Service

\* A token is issued greater than 0, and messages and tasks are passed on.
LEMMA RealTokensStep ==
  ASSUME IInv, RealTokens, [Next]_vars
  PROVE  RealTokens'
<1>1. TypeOK
  BY DEF IInv
<1>2. \A m \in outbox' \cup broker' : m.token # 0
  <2>1. CASE NoNewMessage
    BY <2>1 DEF RealTokens, NoNewMessage
  <2>2. ASSUME NEW a \in Actor, DispatchLease(a), NEW m \in outbox' \cup broker'
        PROVE  m.token # 0
    <3>1. \/ m \in outbox \cup broker
          \/ \E s \in Shard : m = [shard |-> s, token |-> lastToken[s] + 1]
      BY <2>2 DEF DispatchLease, Events, FirstOf, Ready
    <3> QED
      BY <1>1, <3>1 DEF RealTokens, TypeOK, DatabaseOK
  <2> QED
    BY <1>1, <2>1, <2>2, MessagesKept
<1>3. \A w \in Worker : job'[w] \in Message => job'[w].token # 0
  <2>1. CASE AllKept
    BY <2>1, ShardAssumption DEF AllKept, Kept, RealTokens, NoMessage, Message
  <2>2. ASSUME NEW w \in Worker, NEW m \in broker, ClaimLease(w, m), NEW v \in Worker,
               job'[v] \in Message
        PROVE  job'[v].token # 0
    BY <1>1, <2>2 DEF ClaimLease, RealTokens, TypeOK, TasksOK
  <2>3. ASSUME NEW w \in Worker, StartRun(w)
        PROVE  job' = job
    BY <2>3 DEF StartRun
  <2> QED
    BY <1>1, <2>1, <2>2, <2>3, TasksKept DEF RealTokens
<1> QED
  BY <1>2, <1>3 DEF RealTokens

\* A commit that queues its shard ends the one execution of its token, and the
\* recovery takes the token away.
LEMMA QueuedIsIdleStep ==
  ASSUME IInv, RealTokens, QueuedIsIdle, [Next]_vars
  PROVE  QueuedIsIdle'
<1> SUFFICES ASSUME NEW s \in Shard, status'[s] = "queued",
                    NEW w \in Worker, Executing(w)',
                    job'[w] = [shard |-> s, token |-> leaseToken'[s]]
             PROVE  FALSE
  BY DEF QueuedIsIdle, Orphan, Executing
<1>1. TypeOK
  BY DEF IInv
<1>2. leaseToken'[s] # 0
  <2>1. TypeOK'
    BY <1>1, TypeStep
  <2>2. RealTokens'
    BY RealTokensStep
  <2>3. job'[w] \in Message
    BY <2>1 DEF TypeOK, DatabaseOK, Message
  <2> QED
    BY <2>2, <2>3 DEF RealTokens
<1>3. status[s] = "queued" /\ leaseToken'[s] = leaseToken[s] => ~AllKept
  BY DEF AllKept, Kept, QueuedIsIdle, Orphan
<1>4. CASE Quiet
  BY <1>3, <1>4 DEF Quiet
<1>5. ASSUME NEW a \in Actor, DispatchLease(a) PROVE FALSE
  <2>1. status[s] = "queued" /\ leaseToken'[s] = leaseToken[s]
    BY <1>5 DEF DispatchLease
  <2> QED
    BY <1>1, <1>3, <1>5, <2>1, LeaveDispatchKeeps DEF DispatchLease
<1>6. ASSUME NEW v \in Worker, NEW m \in broker, ClaimLease(v, m) PROVE FALSE
  <2>1. m \in Message
    BY <1>1 DEF TypeOK, TasksOK
  <2>2. s # m.shard /\ status[s] = "queued" /\ leaseToken' = leaseToken
    BY <1>1, <1>6, <2>1 DEF ClaimLease, Message, TypeOK, DatabaseOK
  <2>3. w # v
    BY <1>1, <1>6, <2>2 DEF ClaimLease, TypeOK, TasksOK
  <2>4. Executing(w) /\ job'[w] = job[w]
    BY <1>1, <1>6, <2>3 DEF ClaimLease, Executing, TypeOK, TasksOK
  <2> QED
    BY <2>2, <2>4 DEF QueuedIsIdle, Orphan
<1>7. ASSUME NEW v \in Worker, LoadCancelledRun(v) PROVE FALSE
  <2>1. status[s] = "queued" /\ leaseToken'[s] = leaseToken[s]
    BY <1>1, <1>7 DEF LoadCancelledRun, TypeOK, DatabaseOK
  <2> QED
    BY <1>1, <1>3, <1>7, <2>1, CloseTaskKeeps DEF LoadCancelledRun
<1>8. ASSUME NEW v \in Worker, StartRun(v) PROVE FALSE
  BY <1>8 DEF StartRun, leaseVars, QueuedIsIdle, Orphan, Executing
<1>9. ASSUME NEW v \in Worker, FinishCommit(v) PROVE FALSE
  <2>1. w # v /\ Executing(w) /\ job'[w] = job[w]
    BY <1>1, <1>9 DEF FinishCommit, Executing, TypeOK, TasksOK
  <2>2. leaseToken' = leaseToken
    BY <1>9 DEF FinishCommit
  <2>3. CASE job[v].shard = s
    <3>1. Executing(v) /\ Owns(v)
      BY <1>9 DEF FinishCommit, IInv, CommitOwns, TypeOK, PlacesOK, Executing
    <3>2. Owns(w)
      BY <2>1, <2>2, <2>3, <3>1 DEF Owns
    <3> QED
      BY <2>1, <2>3, <3>1, <3>2, OwnerUnique
  <2>4. CASE job[v].shard # s
    <3>1. status[s] = "queued"
      BY <1>1, <1>9, <2>4 DEF FinishCommit, TypeOK, DatabaseOK
    <3> QED
      BY <2>1, <2>2, <3>1 DEF QueuedIsIdle, Orphan
  <2> QED
    BY <2>3, <2>4
<1>10. ASSUME RecoverCommit PROVE FALSE
  <2>1. status[s] = "queued" /\ leaseToken'[s] = leaseToken[s]
    BY <1>2, <1>10 DEF RecoverCommit
  <2>2. AllKept
    BY <1>1, <1>10, WorkerAssumption
       DEF RecoverCommit, TypeOK, ActorsOK, AllKept, Kept, Executing, Started, Actor,
           Service, taskVars
  <2> QED
    BY <1>3, <2>1, <2>2
<1>11. ASSUME CancelCommit PROVE FALSE
  <2>1. status[s] = "queued" /\ leaseToken'[s] = leaseToken[s]
    BY <1>11 DEF CancelCommit
  <2>2. AllKept
    BY <1>1, <1>11, WorkerAssumption
       DEF CancelCommit, TypeOK, ActorsOK, AllKept, Kept, Executing, Started, Actor,
           Service, taskVars
  <2> QED
    BY <1>3, <2>1, <2>2
<1> QED
  BY <1>1, <1>4, <1>5, <1>6, <1>7, <1>8, <1>9, <1>10, <1>11, StepKinds DEF Loud

-----------------------------------------------------------------------------
\* A step that incurs no debt: it moves no lease and ends no execution that owns
\* one, and it lists no shard for recovery.
Calm ==
  /\ UNCHANGED <<status, leaseToken, lastToken, attempts, candidates>>
  /\ \A s \in Shard : Listed(s)' => Listed(s)
  /\ \A w \in Worker :
       /\ Owns(w) /\ Executing(w) => Executing(w)'
       /\ Holding(w)' => Holding(w) \/ Owns(w)
       /\ Unstored(w)' => Unstored(w)
  /\ disturbances <= disturbances'

\* The other steps.
Costly ==
  \/ \E a \in Actor : DispatchLease(a)
  \/ \E w \in Worker : \E m \in broker : ClaimLease(w, m)
  \/ \E w \in Worker : \/ LoadCancelledRun(w) \/ StartRun(w) \/ Heartbeat(w)
                       \/ FinishCommit(w) \/ DuplicateCandidate(w) \/ CrashWorker(w)
  \/ RecoverCommit \/ CancelCommit
  \/ \E s \in Shard : LeaseExpires(s) \/ HeartbeatLate(s) \/ OrphanExpires(s)

\* Every step is calm or one of those.
LEMMA StepCosts ==
  ASSUME TypeOK, [Next]_vars
  PROVE  Calm \/ Costly
<1>1. ASSUME NEW a \in Actor, DispatchNothing(a) PROVE Calm \/ Costly
  BY <1>1
     DEF DispatchNothing, Calm, Listed, Holding, Unstored, Started, Executing, Active,
         TypeOK, TasksOK, ActorsOK, Actor, taskVars, CloseTask, LeaveDispatch,
         rowVars, leaseVars
<1>2. ASSUME NEW a \in Actor, DispatchCount(a) PROVE Calm \/ Costly
  BY <1>2
     DEF DispatchCount, Calm, Listed, Holding, Unstored, Started, Executing, Active,
         TypeOK, ActorsOK, taskVars, rowVars, leaseVars
<1>3. ASSUME NEW a \in Actor, DispatchLease(a) PROVE Calm \/ Costly
  BY <1>3 DEF Costly
<1>4. ASSUME NEW m \in outbox, Publish(m) PROVE Calm \/ Costly
  BY <1>4
     DEF Publish, Calm, Listed, Holding, Unstored, Started, Executing, Active, TypeOK,
         ActorsOK, taskVars, rowVars, leaseVars, callVars
<1>5. ASSUME NEW m \in outbox, PublishUnmarked(m) PROVE Calm \/ Costly
  BY <1>5
     DEF PublishUnmarked, Calm, Listed, Holding, Unstored, Started, Executing, Active,
         TypeOK, ActorsOK, taskVars, rowVars, leaseVars, callVars, Disturb
<1>6. ASSUME NEW w \in Worker, NEW m \in broker, ClaimLease(w, m) PROVE Calm \/ Costly
  BY <1>6 DEF Costly
<1>7. ASSUME NEW w \in Worker, NEW m \in broker, DiscardTask(w, m) PROVE Calm \/ Costly
  BY <1>7
     DEF DiscardTask, Calm, Listed, Holding, Unstored, Started, Executing, Active,
         TypeOK, ActorsOK, taskVars, rowVars, leaseVars, callVars
<1>8. ASSUME NEW w \in Worker, LoadRun(w) PROVE Calm \/ Costly
  BY <1>8
     DEF LoadRun, Calm, Listed, Holding, Unstored, Started, Executing, Active, TypeOK,
         ActorsOK, rowVars, leaseVars, callVars
<1>9. ASSUME NEW w \in Worker, LoadCancelledRun(w) PROVE Calm \/ Costly
  BY <1>9 DEF Costly
<1>10. ASSUME NEW w \in Worker, StartRun(w) PROVE Calm \/ Costly
  BY <1>10 DEF Costly
<1>11. ASSUME NEW w \in Worker, CheckLease(w) PROVE Calm \/ Costly
  BY <1>11
     DEF CheckLease, Calm, Listed, Holding, Unstored, Started, Executing, Active,
         TypeOK, ActorsOK, rowVars, leaseVars, callVars
<1>12. ASSUME NEW w \in Worker, Heartbeat(w) PROVE Calm \/ Costly
  BY <1>12 DEF Costly
<1>13. ASSUME NEW w \in Worker, Superseded(w) PROVE Calm \/ Costly
  BY <1>13
     DEF Superseded, Calm, Listed, Holding, Unstored, Started, Executing, Active,
         TypeOK, ActorsOK, CloseTask, rowVars, leaseVars, callVars
<1>14. ASSUME NEW w \in Worker, MasscanFound(w) PROVE Calm \/ Costly
  BY <1>14
     DEF MasscanFound, Calm, Listed, Holding, Unstored, Started, Executing, Active,
         TypeOK, ActorsOK, rowVars, leaseVars, callVars
<1>15. ASSUME NEW w \in Worker, MasscanEmpty(w) PROVE Calm \/ Costly
  BY <1>15
     DEF MasscanEmpty, Calm, Listed, Holding, Unstored, Started, Executing, Active,
         TypeOK, ActorsOK, FinishLease, rowVars, leaseVars, callVars
<1>16. ASSUME NEW w \in Worker, NmapDone(w) PROVE Calm \/ Costly
  BY <1>16
     DEF NmapDone, Calm, Listed, Holding, Unstored, Started, Executing, Active,
         TypeOK, ActorsOK, FinishLease, rowVars, leaseVars, callVars
<1>17. ASSUME NEW w \in Worker, ScanFails(w) PROVE Calm \/ Costly
  BY <1>17
     DEF ScanFails, Calm, Listed, Holding, Unstored, Started, Executing, Active,
         TypeOK, ActorsOK, FinishLease, rowVars, leaseVars, callVars
<1>18. ASSUME NEW w \in Worker, ScanCancelled(w) PROVE Calm \/ Costly
  BY <1>18
     DEF ScanCancelled, Calm, Listed, Holding, Unstored, Started, Executing, Active,
         TypeOK, ActorsOK, FinishLease, rowVars, leaseVars, callVars
<1>19. ASSUME NEW w \in Worker, FinishCommit(w) PROVE Calm \/ Costly
  BY <1>19 DEF Costly
<1>20. ASSUME NEW w \in Worker, DuplicateCandidate(w) PROVE Calm \/ Costly
  BY <1>20 DEF Costly
<1>21. ASSUME RecoverSelect PROVE Calm \/ Costly
  <2>1. UNCHANGED <<leaseVars, rowVars, taskVars, disturbances>>
    BY <1>21 DEF RecoverSelect
  <2>2. \A w \in Worker : pc'[w] = pc[w]
    BY <1>21, WorkerAssumption DEF RecoverSelect, Service
  <2>3. \A s \in Shard : Listed(s)' => Listed(s)
    BY <1>21, <2>1 DEF RecoverSelect, Listed, Stale, Active, leaseVars
  <2>4. disturbances <= disturbances'
    BY <2>1 DEF TypeOK, ActorsOK
  <2> QED
    BY <2>1, <2>2, <2>3, <2>4
       DEF Calm, Holding, Unstored, Started, Executing, leaseVars, rowVars, taskVars
<1>22. ASSUME RecoverCommit PROVE Calm \/ Costly
  BY <1>22 DEF Costly
<1>23. ASSUME ReconcileRead PROVE Calm \/ Costly
  BY <1>23
     DEF ReconcileRead, Calm, Listed, Holding, Unstored, Started, Executing, Active,
         TypeOK, ActorsOK, taskVars, rowVars, leaseVars, callVars
<1>24. ASSUME ReconcileCommit PROVE Calm \/ Costly
  BY <1>24
     DEF ReconcileCommit, Calm, Listed, Holding, Unstored, Started, Executing, Active,
         TypeOK, ActorsOK, taskVars, rowVars, leaseVars, callVars
<1>25. ASSUME DispatchReady PROVE Calm \/ Costly
  BY <1>25
     DEF DispatchReady, Calm, Listed, Holding, Unstored, Started, Executing, Active,
         TypeOK, ActorsOK, taskVars, rowVars, leaseVars, callVars
<1>26. ASSUME CancelRead PROVE Calm \/ Costly
  BY <1>26
     DEF CancelRead, Calm, Listed, Holding, Unstored, Started, Executing, Active,
         TypeOK, ActorsOK, taskVars, rowVars, leaseVars, Disturb
<1>27. ASSUME CancelCommit PROVE Calm \/ Costly
  BY <1>27 DEF Costly
<1>28. ASSUME NEW w \in Worker, CrashWorker(w) PROVE Calm \/ Costly
  BY <1>28 DEF Costly
<1>29. ASSUME NEW a \in {"api", "scheduler"}, RestartService(a) PROVE Calm \/ Costly
  <2>1. UNCHANGED <<leaseVars, rowVars, taskVars>>
    BY <1>29 DEF RestartService
  <2>2. \A w \in Worker : pc'[w] = pc[w]
    BY <1>29, WorkerAssumption DEF RestartService, Service
  <2>3. \A s \in Shard : Listed(s)' => Listed(s)
    BY <1>29, <2>1 DEF RestartService, Listed, Active, leaseVars
  <2>4. disturbances <= disturbances'
    BY <1>29 DEF RestartService, Disturb, TypeOK, ActorsOK
  <2> QED
    BY <2>1, <2>2, <2>3, <2>4
       DEF Calm, Holding, Unstored, Started, Executing, leaseVars, rowVars, taskVars
<1>30. ASSUME NEW s \in Shard, LeaseExpires(s) PROVE Calm \/ Costly
  BY <1>30 DEF Costly
<1>31. ASSUME NEW s \in Shard, HeartbeatLate(s) PROVE Calm \/ Costly
  BY <1>31 DEF Costly
<1>32. ASSUME NEW s \in Shard, OrphanExpires(s) PROVE Calm \/ Costly
  BY <1>32 DEF Costly
<1>33. ASSUME NEW s \in Shard, BackoffElapses(s) PROVE Calm \/ Costly
  BY <1>33
     DEF BackoffElapses, Calm, Listed, Holding, Unstored, Started, Executing, Active,
         TypeOK, ActorsOK, taskVars, rowVars, callVars
<1>34. ASSUME UNCHANGED vars PROVE Calm \/ Costly
  BY <1>34
     DEF vars, leaseVars, rowVars, taskVars, callVars, Calm, Listed, Holding,
         Unstored, Started, Executing, Active, TypeOK, ActorsOK
<1> QED
  BY <1>1, <1>2, <1>3, <1>4, <1>5, <1>6, <1>7, <1>8, <1>9, <1>10, <1>11, <1>12, <1>13,
     <1>14, <1>15, <1>16, <1>17, <1>18, <1>19, <1>20, <1>21, <1>22, <1>23, <1>24,
     <1>25, <1>26, <1>27, <1>28, <1>29, <1>30, <1>31, <1>32, <1>33, <1>34
     DEF Next, WorkerStep, Take, Execute, ScanEnds, Dispatch, Actor, Service

\* Candidates are stored by the commit that takes them, and by no other step.
LEMMA NotYetStoredStep ==
  ASSUME IInv, PendingShape, NotYetStored, [Next]_vars
  PROVE  NotYetStored'
<1>1. TypeOK /\ SingleExecutor
  BY DEF IInv
<1>2. ASSUME AllKept, candidates' = candidates,
             \A w \in Worker : Unstored(w)' => Unstored(w)
      PROVE  NotYetStored'
  BY <1>2 DEF NotYetStored, AllKept, Kept, Unstored, Started, Executing
<1>3. ASSUME NEW v \in Worker, CloseTask(v), candidates' = candidates
      PROVE  NotYetStored'
  BY <1>1, <1>3, <1>2, CloseTaskKeeps
     DEF CloseTask, Unstored, Started, Executing, TypeOK, TasksOK, ActorsOK, Actor
<1>4. ASSUME NEW a \in Actor, DispatchLease(a) PROVE NotYetStored'
  <2>1. AllKept /\ candidates' = candidates
    BY <1>1, <1>4, LeaveDispatchKeeps DEF DispatchLease, rowVars
  <2>2. \A w \in Worker : Unstored(w)' => Unstored(w)
    BY <1>1, <1>4, <2>1
       DEF DispatchLease, LeaveDispatch, CloseTask, taskVars, Unstored, AllKept, Kept,
           Started, Executing, TypeOK, TasksOK, ActorsOK, Actor
  <2> QED
    BY <1>2, <2>1, <2>2
<1>5. ASSUME NEW w \in Worker, NEW m \in broker, ClaimLease(w, m) PROVE NotYetStored'
  BY <1>1, <1>5
     DEF ClaimLease, rowVars, NotYetStored, Unstored, Started, Executing, TypeOK,
         TasksOK, ActorsOK, Actor
<1>6. ASSUME NEW w \in Worker,
             LoadCancelledRun(w) \/ DuplicateCandidate(w) \/ CrashWorker(w)
      PROVE  NotYetStored'
  BY <1>3, <1>6 DEF LoadCancelledRun, DuplicateCandidate, CrashWorker, rowVars
<1>7. ASSUME NEW w \in Worker, StartRun(w) PROVE NotYetStored'
  <2>1. \A v \in Worker : v # w => (Unstored(v)' => Unstored(v))
    BY <1>1, <1>7 DEF StartRun, Unstored, Started, Executing, TypeOK, ActorsOK, Actor
  <2>2. \A s \in Shard : candidates'[s] \subseteq candidates[s]
    BY <1>1, <1>7 DEF StartRun, TypeOK, DatabaseOK
  <2>3. job' = job /\ job[w].shard \in Shard /\ candidates'[job[w].shard] = {}
    BY <1>1, <1>7 DEF StartRun, TypeOK, DatabaseOK, TasksOK, PlacesOK, Message
  <2>4. \A v \in Worker : Unstored(v) => job[v].shard \in Shard
    BY <1>1
       DEF Unstored, Started, Executing, TypeOK, TasksOK, PlacesOK, ActorsOK, Message
  <2> QED
    BY <2>1, <2>2, <2>3, <2>4 DEF NotYetStored
<1>8. ASSUME NEW w \in Worker, Heartbeat(w) PROVE NotYetStored'
  <2>1. \A v \in Worker : Unstored(v)' => Unstored(v)
    BY <1>1, <1>8
       DEF Heartbeat, Unstored, Started, Executing, TypeOK, TasksOK, ActorsOK, Actor
  <2>2. job' = job /\ job[w] \in Message /\ Executing(w)
    BY <1>1, <1>8 DEF Heartbeat, Executing, TypeOK, PlacesOK
  <2>3. \A v \in Worker : Unstored(v) => job[v] \in Message /\ Executing(v)
    BY <1>1
       DEF Unstored, Started, Executing, TypeOK, TasksOK, PlacesOK, ActorsOK, Actor
  <2>4. CASE candidates' = candidates
    BY <2>1, <2>2, <2>4 DEF NotYetStored
  <2>5. CASE "candidates" \in pending[w]
    <3>1. ~Unstored(w)'
      BY <1>1, <1>8, <2>5
         DEF Heartbeat, PendingShape, Unstored, TypeOK, TasksOK, ActorsOK, Actor
    <3>2. \A s \in Shard : candidates'[s] \subseteq
            IF s = job[w].shard THEN candidates[s] \cup {job[w].token}
                                ELSE candidates[s]
      BY <1>1, <1>8 DEF Heartbeat, TypeOK, DatabaseOK
    <3>3. \A v \in Worker : Unstored(v) /\ v # w => job[v] # job[w]
      BY <1>1, <2>2, <2>3 DEF SingleExecutor
    <3> QED
      BY <2>1, <2>2, <2>3, <3>1, <3>2, <3>3 DEF NotYetStored, Message
  <2> QED
    BY <1>8, <2>4, <2>5 DEF Heartbeat
<1>9. ASSUME NEW w \in Worker, FinishCommit(w) PROVE NotYetStored'
  <2>1. ~Unstored(w)' /\ \A v \in Worker : Unstored(v)' => Unstored(v)
    BY <1>1, <1>9
       DEF FinishCommit, Unstored, Started, Executing, TypeOK, TasksOK, ActorsOK,
           Actor
  <2>2. job' = job /\ job[w] \in Message /\ Executing(w)
    BY <1>1, <1>9 DEF FinishCommit, Executing, TypeOK, PlacesOK
  <2>3. \A v \in Worker : Unstored(v) => job[v] \in Message /\ Executing(v)
    BY <1>1
       DEF Unstored, Started, Executing, TypeOK, TasksOK, PlacesOK, ActorsOK, Actor
  <2>4. \A s \in Shard : candidates'[s] \subseteq
          IF s = job[w].shard THEN candidates[s] \cup {job[w].token} ELSE candidates[s]
    BY <1>1, <1>9 DEF FinishCommit, TypeOK, DatabaseOK
  <2>5. \A v \in Worker : Unstored(v) /\ v # w => job[v] # job[w]
    BY <1>1, <2>2, <2>3 DEF SingleExecutor
  <2> QED
    BY <2>1, <2>2, <2>3, <2>4, <2>5 DEF NotYetStored, Message
<1>10. ASSUME RecoverCommit \/ CancelCommit PROVE NotYetStored'
  <2>1. UNCHANGED <<rowVars, taskVars>> /\ \A w \in Worker : pc'[w] = pc[w]
    BY <1>1, <1>10, WorkerAssumption
       DEF RecoverCommit, CancelCommit, TypeOK, ActorsOK, Actor, Service
  <2> QED
    BY <2>1 DEF NotYetStored, Unstored, Started, Executing, rowVars, taskVars
<1>11. ASSUME NEW s \in Shard, LeaseExpires(s) \/ HeartbeatLate(s) \/ OrphanExpires(s)
       PROVE  NotYetStored'
  BY <1>11
     DEF LeaseExpires, HeartbeatLate, OrphanExpires, NotYetStored, Unstored, Started,
         Executing, rowVars, taskVars
<1>12. CASE Calm /\ ~Costly
  <2>1. AllKept
    BY <1>1, <1>12, TasksKept DEF Costly
  <2> QED
    BY <1>2, <1>12, <2>1 DEF Calm
<1> QED
  BY <1>1, <1>4, <1>5, <1>6, <1>7, <1>8, <1>9, <1>10, <1>11, <1>12, StepCosts
     DEF Costly

-----------------------------------------------------------------------------
\* Debts are numbers.
LEMMA DebtTypes ==
  ASSUME TypeOK, TypeOK', NEW s \in Shard
  PROVE  /\ IsFiniteSet(StrayTokens(s)) /\ IsFiniteSet(StrayTokens(s)')
         /\ Cardinality(StrayTokens(s)) \in Nat /\ Cardinality(StrayTokens(s)') \in Nat
         /\ Debt(s) \in Nat /\ Debt(s)' \in Nat
         /\ Waiting(s) \in Nat /\ Waiting(s)' \in Nat
         /\ attempts[s] \in Nat /\ attempts'[s] \in Nat
         /\ Paid \in Nat /\ Paid' \in Nat
<1>1. ASSUME NEW n \in Nat, NEW T \in SUBSET (1 .. n)
      PROVE  IsFiniteSet(T) /\ Cardinality(T) \in Nat
  <2>1. IsFiniteSet(1 .. n)
    BY <1>1, FS_Interval
  <2>2. IsFiniteSet(T)
    BY <1>1, <2>1, FS_Subset
  <2> QED
    BY <2>2, FS_CardinalityType
<1>2. lastToken[s] \in Nat /\ lastToken'[s] \in Nat
  BY DEF TypeOK, DatabaseOK
<1>3. /\ StrayTokens(s) \in SUBSET (1 .. lastToken[s])
      /\ StrayTokens(s)' \in SUBSET (1 .. lastToken'[s])
  BY DEF StrayTokens
<1>4. /\ IsFiniteSet(StrayTokens(s)) /\ IsFiniteSet(StrayTokens(s)')
      /\ Cardinality(StrayTokens(s)) \in Nat /\ Cardinality(StrayTokens(s)') \in Nat
  BY <1>1, <1>2, <1>3
<1>5. Debt(s) \in Nat /\ Debt(s)' \in Nat /\ Waiting(s) \in Nat /\ Waiting(s)' \in Nat
  BY <1>4 DEF Debt, One, Waiting
<1>6. Paid \in Nat /\ Paid' \in Nat
  <2>1. disturbances \in Nat /\ disturbances' \in Nat
    BY DisturbanceAssumption DEF TypeOK, ActorsOK
  <2>2. Price = 1 \/ Price = 2
    BY DEF Price
  <2> QED
    BY <2>1, <2>2 DEF Paid
<1> QED
  BY <1>4, <1>5, <1>6 DEF TypeOK, DatabaseOK

\* A shard stays balanced when its debt, and what it has and has yet to pay,
\* grow by no more than what is paid.
LEMMA StaysBalanced ==
  ASSUME TypeOK, TypeOK', NEW s \in Shard, Balanced(s),
         Debt(s)' + Paid <= Debt(s) + Paid',
         attempts'[s] + Waiting(s)' + Debt(s)' + Paid
           <= attempts[s] + Waiting(s) + Debt(s) + Paid'
  PROVE  Balanced(s)'
<1>1. MaxAttempts \in Nat
  BY SettingsAssumption
<1> QED
  BY <1>1, DebtTypes DEF Balanced

\* A step that incurs no debt of a shard.
DebtKept(s) ==
  /\ Recoverable(s)' => Recoverable(s)
  /\ MayStray(s)' => MayStray(s)
  /\ StrayTokens(s)' \subseteq StrayTokens(s)
  /\ Tainted(s)' => Tainted(s)

\* Then its debt does not grow.
LEMMA NoNewDebt ==
  ASSUME TypeOK, TypeOK', NEW s \in Shard, DebtKept(s)
  PROVE  Debt(s)' <= Debt(s)
<1>1. Cardinality(StrayTokens(s)') <= Cardinality(StrayTokens(s))
  BY DebtTypes, FS_Subset DEF DebtKept
<1> QED
  BY <1>1, DebtTypes DEF DebtKept, Debt, One

\* And the shard stays balanced, if the step makes no attempt but the one it
\* waited for.
LEMMA FreeStep ==
  ASSUME TypeOK, TypeOK', NEW s \in Shard, Balanced(s), DebtKept(s), Paid <= Paid',
         attempts'[s] + Waiting(s)' <= attempts[s] + Waiting(s)
  PROVE  Balanced(s)'
<1>1. Debt(s)' <= Debt(s)
  BY NoNewDebt
<1> QED
  BY <1>1, DebtTypes, StaysBalanced

\* What a step must not do to incur no debt, if it keeps the shard's token: list
\* the shard, end the execution of a running one, queue one nobody executes, store
\* candidates of another token, or let a worker without the lease hold some.
LEMMA DebtKeptIf ==
  ASSUME TypeOK, AllKept, NEW s \in Shard, leaseToken'[s] = leaseToken[s],
         lastToken'[s] = lastToken[s], Listed(s)' => Listed(s),
         status'[s] = "running" => status[s] = "running",
         status'[s] \in {"queued", "leased"} =>
           status[s] \in {"queued", "leased"} \/ ~Orphan(s),
         candidates'[s] \subseteq candidates[s] \cup {leaseToken[s]},
         \A w \in Worker : Holding(w)' /\ job'[w].shard = s =>
           Holding(w) \/ job[w].token = leaseToken[s]
  PROVE  /\ MayStray(s)' => MayStray(s)
         /\ StrayTokens(s)' \subseteq StrayTokens(s)
         /\ Tainted(s)' => Tainted(s)
         /\ (status'[s] = "running" /\ Orphan(s)' => Orphan(s)) => DebtKept(s)
<1>1. Orphan(s) => Orphan(s)'
  BY DEF AllKept, Kept, Orphan, Executing
<1>2. MayStray(s)' => MayStray(s)
  BY <1>1 DEF MayStray
<1>3. ASSUME NEW t \in StrayTokens(s)' PROVE t \in StrayTokens(s)
  <2>1. t \in 1 .. lastToken[s] /\ t # leaseToken[s]
    BY DEF StrayTokens
  <2>2. PICK w \in Worker : Holding(w)' /\ job'[w] = [shard |-> s, token |-> t]
    BY DEF StrayTokens
  <2>3. s # 0
    BY ShardAssumption
  <2>4. job[w] = [shard |-> s, token |-> t]
    BY <2>2, <2>3 DEF AllKept, Kept, NoMessage
  <2>5. Holding(w)
    BY <2>1, <2>2, <2>4
  <2> QED
    BY <2>1, <2>4, <2>5 DEF StrayTokens
<1>4. Tainted(s)' => Tainted(s)
  BY ShardAssumption DEF Tainted, AllKept, Kept, Started, NoMessage
<1>5. (status'[s] = "running" /\ Orphan(s)' => Orphan(s)) =>
        (Recoverable(s)' => Recoverable(s))
  BY DEF Recoverable
<1> QED
  BY <1>2, <1>3, <1>4, <1>5 DEF DebtKept

-----------------------------------------------------------------------------
\* Disturbances are paid for when they happen.
LEMMA PaidKept ==
  ASSUME TypeOK, TypeOK', [Next]_vars
  PROVE  /\ disturbances' = disturbances => Paid' = Paid
         /\ disturbances <= disturbances' => Paid <= Paid'
         /\ disturbances' = disturbances + 1 => Paid' = Paid + Price
         /\ Price \in Nat /\ Price >= 1 /\ (TwoStage => Price = 2)
<1>1. disturbances \in Nat /\ disturbances' \in Nat
  BY DisturbanceAssumption DEF TypeOK, ActorsOK
<1>2. Price \in Nat /\ Price >= 1
  BY DEF Price
<1>3. TwoStage => Price = 2
  BY DEF Price
<1>4. Paid' - Paid = Price * (disturbances' - disturbances)
  <2>1. CASE TwoStage
    BY <1>1, <2>1 DEF Paid, Price
  <2>2. CASE ~TwoStage
    BY <1>1, <2>2 DEF Paid, Price
  <2> QED
    BY <2>1, <2>2
<1>5. Paid \in Int /\ Paid' \in Int
  BY <1>1, <1>2 DEF Paid
<1>6. disturbances' = disturbances => Paid' = Paid
  BY DEF Paid
<1>7. disturbances' = disturbances + 1 => Paid' = Paid + Price
  <2>1. ASSUME disturbances' = disturbances + 1 PROVE disturbances' - disturbances = 1
    BY <1>1, <2>1
  <2>2. Price * 1 = Price
    BY <1>2
  <2> QED
    BY <1>2, <1>4, <1>5, <2>1, <2>2
<1>8. disturbances <= disturbances' => Paid <= Paid'
  BY <1>1, <1>2, <1>4, <1>5
<1> QED
  BY <1>2, <1>3, <1>6, <1>7, <1>8

\* The books of one shard.
Book == /\ IInv /\ RealTokens /\ QueuedIsIdle /\ PendingShape /\ NotYetStored
        /\ RetryHasBudget
        /\ TypeOK /\ TypeOK'

\* A calm step costs nothing.
LEMMA CalmBalanced ==
  ASSUME Book, [Next]_vars, AllKept, Calm, NEW s \in Shard, Balanced(s)
  PROVE  Balanced(s)'
<1>1. status'[s] = "running" /\ Orphan(s)' => Orphan(s)
  <2> SUFFICES ASSUME status'[s] = "running", NEW w \in Worker, Executing(w),
                      job[w] = [shard |-> s, token |-> leaseToken[s]]
               PROVE  ~Orphan(s)'
    BY DEF Orphan
  <2>1. Owns(w)
    BY DEF Owns, Calm
  <2>2. Executing(w)' /\ job'[w] = job[w]
    BY <2>1 DEF Calm, AllKept, Kept
  <2> QED
    BY <2>2 DEF Orphan, Executing, Calm
<1>2. \A w \in Worker : Holding(w)' /\ job'[w].shard = s =>
        Holding(w) \/ job[w].token = leaseToken[s]
  BY ShardAssumption DEF Calm, AllKept, Kept, Owns, NoMessage
<1>3. DebtKept(s)
  BY <1>1, <1>2, DebtKeptIf DEF Calm, Book
<1>4. Waiting(s)' = Waiting(s) /\ attempts'[s] = attempts[s]
  BY DEF Waiting, Calm
<1>5. Paid <= Paid'
  BY PaidKept DEF Book, Calm
<1>6. attempts'[s] + Waiting(s)' <= attempts[s] + Waiting(s)
  BY <1>4, DebtTypes DEF Book
<1> QED
  BY <1>3, <1>5, <1>6, FreeStep DEF Book

\* A dispatch leases a shard nobody executes, under a token no worker has.
LEMMA DispatchBalanced ==
  ASSUME Book, [Next]_vars, NEW a \in Actor, DispatchLease(a),
         NEW s \in Shard, Balanced(s)
  PROVE  Balanced(s)'
<1>1. AllKept
  BY LeaveDispatchKeeps DEF Book, DispatchLease
<1>2. /\ attempts' = attempts /\ candidates' = candidates /\ Paid' = Paid
      /\ Listed(s)' => Listed(s)
  BY PaidKept DEF Book, DispatchLease, rowVars, Listed, Active
<1>3. \A w \in Worker : Holding(w)' => Holding(w)
  BY DEF Book, DispatchLease, LeaveDispatch, CloseTask, taskVars, Holding, TypeOK,
         TasksOK, ActorsOK, Actor
<1>4. CASE status[s] = "queued" /\ status'[s] = "leased" /\
           leaseToken'[s] = lastToken[s] + 1 /\ lastToken'[s] = lastToken[s] + 1
  <2>1. lastToken[s] \in Nat /\ leaseToken[s] \in Nat
    BY DEF Book, TypeOK, DatabaseOK
  <2>2. ASSUME NEW t \in StrayTokens(s)' PROVE t \in StrayTokens(s)
    <3>1. t \in 1 .. lastToken[s]
      BY <1>4, <2>1 DEF StrayTokens
    <3>2. PICK w \in Worker : Holding(w) /\ job[w] = [shard |-> s, token |-> t]
      BY <1>1, <1>3, ShardAssumption DEF StrayTokens, AllKept, Kept, NoMessage
    <3>3. t # leaseToken[s]
      BY <1>4, <3>2
         DEF Book, QueuedIsIdle, Orphan, Holding, Executing, TypeOK, PlacesOK
    <3> QED
      BY <3>1, <3>2, <3>3 DEF StrayTokens
  <2>3. ~Tainted(s)'
    <3> SUFFICES ASSUME NEW w \in Worker,
                        job'[w] = [shard |-> s, token |-> leaseToken'[s]]
                 PROVE  FALSE
      BY DEF Tainted
    <3>1. job[w] = [shard |-> s, token |-> lastToken[s] + 1]
      BY <1>1, <1>4, ShardAssumption DEF AllKept, Kept, NoMessage
    <3>2. job[w] \in Message
      BY <2>1, <3>1 DEF Message
    <3> QED
      BY <2>1, <3>1, <3>2 DEF Book, IInv, TokensIssued
  <2>4. DebtKept(s)
    BY <1>2, <1>4, <2>2, <2>3 DEF DebtKept, Recoverable, MayStray
  <2>5. Waiting(s)' = Waiting(s)
    BY <1>4 DEF Waiting
  <2> QED
    BY <1>2, <2>4, <2>5, FreeStep, DebtTypes DEF Book
<1>5. CASE /\ status'[s] = status[s] /\ leaseToken'[s] = leaseToken[s]
           /\ lastToken'[s] = lastToken[s]
  <2>1. status'[s] = "running" /\ Orphan(s)' => Orphan(s)
    <3> SUFFICES ASSUME NEW w \in Worker, Executing(w),
                        job[w] = [shard |-> s, token |-> leaseToken[s]]
                 PROVE  ~Orphan(s)'
      BY DEF Orphan
    <3>1. Executing(w)' /\ job'[w] = job[w]
      BY DEF Book, DispatchLease, LeaveDispatch, CloseTask, taskVars, Executing,
             TypeOK, TasksOK
    <3> QED
      BY <1>5, <3>1 DEF Orphan, Executing
  <2>2. DebtKept(s)
    BY <1>1, <1>2, <1>3, <1>5, <2>1, DebtKeptIf DEF Book
  <2>3. Waiting(s)' = Waiting(s)
    BY <1>5 DEF Waiting
  <2> QED
    BY <1>2, <2>2, <2>3, FreeStep, DebtTypes DEF Book
<1> QED
  BY <1>4, <1>5 DEF DispatchLease, FirstOf, Ready

\* A claim turns the shard that waits into an attempt.
LEMMA ClaimBalanced ==
  ASSUME Book, [Next]_vars, NEW w \in Worker, NEW m \in broker, ClaimLease(w, m),
         NEW s \in Shard, Balanced(s)
  PROVE  Balanced(s)'
<1>1. m \in Message
  BY DEF Book, TypeOK, TasksOK
<1>2. /\ UNCHANGED <<leaseToken, lastToken, candidates, selected, pending>>
      /\ Paid' = Paid
  BY PaidKept DEF Book, ClaimLease, rowVars, callVars
<1>3. ~Holding(w)' /\ ~Started(w)' /\ Executing(w)' /\ ~Executing(w) /\ job'[w] = m
  BY SettingsAssumption
     DEF Book, ClaimLease, Holding, Started, Executing, TypeOK, TasksOK, ActorsOK,
         PlacesOK, Actor
<1>9. ASSUME NEW v \in Worker, v # w
      PROVE  /\ job'[v] = job[v]
             /\ Holding(v)' => Holding(v)
             /\ Started(v)' => Started(v)
             /\ Executing(v)' => Executing(v)
             /\ Executing(v) => Executing(v)'
  BY <1>9
     DEF Book, ClaimLease, Holding, Started, Executing, TypeOK, TasksOK, ActorsOK,
         PlacesOK, Actor
<1>4. StrayTokens(s)' \subseteq StrayTokens(s)
  <2> SUFFICES ASSUME NEW t \in StrayTokens(s)' PROVE t \in StrayTokens(s)
    OBVIOUS
  <2>1. PICK v \in Worker : Holding(v)' /\ job'[v] = [shard |-> s, token |-> t]
    BY DEF StrayTokens
  <2>2. Holding(v) /\ job[v] = [shard |-> s, token |-> t]
    <3>1. v # w
      BY <1>3, <2>1 DEF Holding
    <3> QED
      BY <1>9, <2>1, <3>1
  <2> QED
    BY <1>2, <2>2 DEF StrayTokens
<1>5. Tainted(s)' => Tainted(s)
  BY <1>2, <1>3, <1>9 DEF Tainted, Started, Executing
<1>6. Listed(s)' => Listed(s)
  BY <1>1
     DEF Book, ClaimLease, Claimable, Listed, Active, callVars, TypeOK, DatabaseOK,
         Message
<1>7. CASE s = m.shard
  <2>1. /\ status[s] = "leased" /\ status'[s] = "running"
        /\ attempts'[s] = attempts[s] + 1
        /\ m = [shard |-> s, token |-> leaseToken[s]]
    BY <1>1, <1>7 DEF Book, ClaimLease, Claimable, TypeOK, DatabaseOK, Message
  <2>2. ~Orphan(s)'
    BY <1>2, <1>3, <2>1 DEF Orphan, Executing
  <2>3. DebtKept(s)
    BY <1>4, <1>5, <1>6, <2>1, <2>2 DEF DebtKept, Recoverable, MayStray
  <2>4. Waiting(s) = 1 /\ Waiting(s)' = 0
    BY <2>1 DEF Waiting, One
  <2> QED
    BY <1>2, <2>1, <2>3, <2>4, FreeStep, DebtTypes DEF Book
<1>8. CASE s # m.shard
  <2>1. status'[s] = status[s] /\ attempts'[s] = attempts[s]
    BY <1>1, <1>8 DEF Book, ClaimLease, TypeOK, DatabaseOK, Message
  <2>2. Orphan(s) => Orphan(s)'
    BY <1>1, <1>2, <1>3, <1>8, <1>9 DEF Orphan, Executing, Message
  <2>5. Orphan(s)' => Orphan(s)
    BY <1>1, <1>2, <1>3, <1>8, <1>9 DEF Orphan, Executing, Message
  <2>3. DebtKept(s)
    BY <1>4, <1>5, <1>6, <2>1, <2>2, <2>5 DEF DebtKept, Recoverable, MayStray
  <2>4. Waiting(s)' = Waiting(s)
    BY <2>1 DEF Waiting
  <2> QED
    BY <1>2, <2>1, <2>3, <2>4, FreeStep, DebtTypes DEF Book
<1> QED
  BY <1>7, <1>8

\* What closing a session does to the workers.
LEMMA CloseTaskWorkers ==
  ASSUME TypeOK, NEW w \in Worker, CloseTask(w)
  PROVE  /\ AllKept
         /\ \A v \in Worker : Holding(v)' => Holding(v)
         /\ \A v \in Worker : v # w /\ Executing(v) => Executing(v)' /\ job'[v] = job[v]
<1>1. \A v \in Worker : Holding(v)' => Holding(v)
  BY DEF CloseTask, Holding, TypeOK, TasksOK, ActorsOK, Actor
<1>2. \A v \in Worker : v # w /\ Executing(v) => Executing(v)' /\ job'[v] = job[v]
  BY DEF CloseTask, Executing, TypeOK, TasksOK
<1> QED
  BY <1>1, <1>2, CloseTaskKeeps

\* A session that is closed and does not own its shard's lease costs nothing.
LEMMA CloseTaskBalanced ==
  ASSUME Book, [Next]_vars, NEW w \in Worker, CloseTask(w), ~Owns(w),
         UNCHANGED <<status, leaseToken, lastToken, attempts, candidates, expired,
                     selected, disturbances>>,
         NEW s \in Shard, Balanced(s)
  PROVE  Balanced(s)'
<1>1. AllKept
  BY CloseTaskWorkers DEF Book
<1>2. Listed(s)' => Listed(s)
  BY DEF Listed, Active
<1>3. status'[s] = "running" /\ Orphan(s)' => Orphan(s)
  <2> SUFFICES ASSUME status[s] = "running", NEW v \in Worker, Executing(v),
                      job[v] = [shard |-> s, token |-> leaseToken[s]]
               PROVE  ~Orphan(s)'
    BY DEF Orphan
  <2>1. v # w
    BY DEF Owns
  <2>2. Executing(v)' /\ job'[v] = job[v]
    BY <2>1, CloseTaskWorkers DEF Book
  <2> QED
    BY <2>2 DEF Orphan, Executing
<1>4. \A v \in Worker : Holding(v)' => Holding(v)
  BY CloseTaskWorkers DEF Book
<1>5. DebtKept(s)
  BY <1>1, <1>2, <1>3, <1>4, DebtKeptIf DEF Book
<1>6. Waiting(s)' = Waiting(s) /\ Paid' = Paid /\ attempts'[s] = attempts[s]
  BY PaidKept DEF Book, Waiting
<1> QED
  BY <1>5, <1>6, FreeStep, DebtTypes DEF Book

\* A worker that finds its run cancelled gives its shard up for good.
LEMMA CancelledLoadBalanced ==
  ASSUME Book, [Next]_vars, NEW w \in Worker, LoadCancelledRun(w),
         NEW s \in Shard, Balanced(s)
  PROVE  Balanced(s)'
<1>1. CASE ~Owns(w)
  BY <1>1, CloseTaskBalanced DEF LoadCancelledRun, rowVars, callVars
<1>2. CASE Owns(w)
  <2>1. AllKept /\ \A v \in Worker : Holding(v)' => Holding(v)
    BY CloseTaskWorkers DEF Book, LoadCancelledRun
  <2>2. /\ UNCHANGED <<leaseToken, lastToken, attempts, candidates, selected>>
        /\ Paid' = Paid
    BY PaidKept DEF Book, LoadCancelledRun, rowVars, callVars
  <2>3. /\ s = job[w].shard => status'[s] = "cancelled"
        /\ s # job[w].shard => status'[s] = status[s] /\ expired'[s] = expired[s]
    BY <1>2 DEF Book, LoadCancelledRun, TypeOK, DatabaseOK
  <2>4. Listed(s)' => Listed(s)
    BY <2>2, <2>3 DEF Listed, Active
  <2>5. status'[s] = "running" /\ Orphan(s)' => Orphan(s)
    <3> SUFFICES ASSUME status'[s] = "running", NEW v \in Worker, Executing(v),
                        job[v] = [shard |-> s, token |-> leaseToken[s]]
                 PROVE  ~Orphan(s)'
      BY DEF Orphan
    <3>1. v # w
      BY <2>3
    <3>2. Executing(v)' /\ job'[v] = job[v]
      BY <3>1, CloseTaskWorkers DEF Book, LoadCancelledRun
    <3> QED
      BY <2>2, <3>2 DEF Orphan, Executing
  <2>6. DebtKept(s)
    BY <2>1, <2>2, <2>3, <2>4, <2>5, DebtKeptIf DEF Book
  <2>7. Waiting(s)' <= Waiting(s) /\ attempts'[s] = attempts[s]
    BY <2>2, <2>3 DEF Waiting, One
  <2> QED
    BY <2>2, <2>6, <2>7, FreeStep, DebtTypes DEF Book
<1> QED
  BY <1>1, <1>2

\* A scan that starts finds no candidates in its way.
LEMMA StartBalanced ==
  ASSUME Book, [Next]_vars, NEW w \in Worker, StartRun(w), NEW s \in Shard, Balanced(s)
  PROVE  Balanced(s)'
<1>1. /\ UNCHANGED <<status, leaseToken, lastToken, attempts, expired, selected, job,
                     stage, pending>>
      /\ Paid' = Paid
  BY PaidKept DEF Book, StartRun, leaseVars, callVars
<1>2. ASSUME NEW v \in Worker
      PROVE  /\ Holding(v)' => Holding(v)
             /\ v # w /\ Started(v)' => Started(v)
  BY DEF Book, StartRun, Holding, Started, Executing, TypeOK, ActorsOK, Actor
<1>3. /\ candidates'[s] \subseteq candidates[s]
      /\ job[w].shard = s => candidates'[s] = {}
  BY DEF Book, StartRun, TypeOK, DatabaseOK
<1>4. /\ Recoverable(s)' => Recoverable(s)
      /\ MayStray(s)' => MayStray(s)
      /\ Waiting(s)' = Waiting(s)
  BY <1>1 DEF Recoverable, MayStray, Listed, Active, Orphan, Executing, Waiting
<1>5. StrayTokens(s)' \subseteq StrayTokens(s)
  <2> SUFFICES ASSUME NEW u \in StrayTokens(s)' PROVE u \in StrayTokens(s)
    OBVIOUS
  <2>1. PICK v \in Worker : Holding(v)' /\ job[v] = [shard |-> s, token |-> u]
    BY <1>1 DEF StrayTokens
  <2>2. Holding(v)
    BY <1>2, <2>1
  <2> QED
    BY <1>1, <2>1, <2>2 DEF StrayTokens
<1>6. Tainted(s)' => Tainted(s)
  <2> SUFFICES ASSUME Tainted(s)' PROVE Tainted(s)
    OBVIOUS
  <2>1. PICK v \in Worker : Started(v)' /\ job[v] = [shard |-> s, token |-> leaseToken[s]]
    BY <1>1 DEF Tainted
  <2>2. ~ (candidates'[s] \subseteq {leaseToken[s]}) /\ TwoStage
    BY <1>1 DEF Tainted
  <2>3. v # w
    BY <1>3, <2>1, <2>2
  <2>4. Started(v)
    BY <1>2, <2>1, <2>3
  <2> QED
    BY <1>3, <2>1, <2>2, <2>4 DEF Tainted
<1> QED
  BY <1>1, <1>4, <1>5, <1>6, FreeStep, DebtTypes DEF Book, DebtKept

\* A heartbeat costs nothing but by what a superseded worker holds: then its token
\* is a stray one no longer, and may taint the shard.
LEMMA HeartbeatBalanced ==
  ASSUME Book, [Next]_vars, NEW w \in Worker, Heartbeat(w), NEW s \in Shard, Balanced(s)
  PROVE  Balanced(s)'
<1> DEFINE t == job[w].token
<1>1. /\ UNCHANGED <<status, leaseToken, lastToken, attempts, selected, job, stage>>
      /\ Paid' = Paid
  BY PaidKept DEF Book, Heartbeat, callVars
<1>8. Executing(w) /\ Started(w) /\ job[w] \in Message
  BY DEF Book, Heartbeat, Started, Executing, TypeOK, PlacesOK
<1>2. ASSUME NEW v \in Worker
      PROVE  /\ Holding(v)' => Holding(v) /\ v # w
             /\ Started(v)' => Started(v)
  BY <1>8
     DEF Book, Heartbeat, Holding, Started, Executing, TypeOK, TasksOK, ActorsOK,
         PlacesOK, Actor
<1>3. expired'[s] => expired[s]
  BY DEF Book, Heartbeat, TypeOK, DatabaseOK
<1>4. /\ Recoverable(s)' => Recoverable(s)
      /\ MayStray(s)' => MayStray(s)
      /\ Waiting(s)' = Waiting(s)
  BY <1>1, <1>3 DEF Recoverable, MayStray, Listed, Active, Orphan, Executing, Waiting
<1>5. StrayTokens(s)' \subseteq StrayTokens(s)
  <2> SUFFICES ASSUME NEW u \in StrayTokens(s)' PROVE u \in StrayTokens(s)
    OBVIOUS
  <2>1. PICK v \in Worker : Holding(v)' /\ job[v] = [shard |-> s, token |-> u]
    BY <1>1 DEF StrayTokens
  <2>2. Holding(v)
    BY <1>2, <2>1
  <2> QED
    BY <1>1, <2>1, <2>2 DEF StrayTokens
<1>6. CASE candidates'[s] \subseteq candidates[s] \cup {leaseToken[s]}
  <2>1. Tainted(s)' => Tainted(s)
    BY <1>1, <1>2, <1>6 DEF Tainted
  <2> QED
    BY <1>1, <1>4, <1>5, <2>1, FreeStep, DebtTypes DEF Book, DebtKept
<1>7. CASE ~ (candidates'[s] \subseteq candidates[s] \cup {leaseToken[s]})
  <2>1. job[w].shard = s /\ t # leaseToken[s] /\ "candidates" \in pending[w]
    BY <1>7 DEF Book, Heartbeat, TypeOK, DatabaseOK
  <2>2. job[w] = [shard |-> s, token |-> t] /\ t \in Nat
    BY <1>8, <2>1 DEF Message
  <2>3. t \in 1 .. lastToken[s]
    BY <1>8, <2>1, <2>2 DEF Book, RealTokens, IInv, TokensIssued, TypeOK, DatabaseOK
  <2>4. t \in StrayTokens(s)
    BY <2>1, <2>2, <2>3 DEF StrayTokens, Holding, Heartbeat
  <2>5. t \notin StrayTokens(s)'
    <3> SUFFICES ASSUME NEW v \in Worker, Holding(v)',
                        job[v] = [shard |-> s, token |-> t]
                 PROVE  FALSE
      BY <1>1 DEF StrayTokens
    <3>1. Holding(v) /\ v # w
      BY <1>2
    <3>2. Executing(v)
      BY <3>1 DEF Book, TypeOK, PlacesOK, Holding, Executing
    <3> QED
      BY <1>8, <2>2, <3>1, <3>2 DEF Book, IInv, SingleExecutor
  <2>6. Cardinality(StrayTokens(s)') + 1 <= Cardinality(StrayTokens(s))
    <3>1. Cardinality(StrayTokens(s) \ {t}) = Cardinality(StrayTokens(s)) - 1
      BY <2>4, DebtTypes, FS_RemoveElement DEF Book
    <3>2. StrayTokens(s)' \in SUBSET (StrayTokens(s) \ {t})
      BY <1>5, <2>5
    <3>3. IsFiniteSet(StrayTokens(s) \ {t})
      BY DebtTypes, FS_RemoveElement DEF Book
    <3>4. Cardinality(StrayTokens(s)') <= Cardinality(StrayTokens(s) \ {t})
      BY <3>2, <3>3, FS_Subset
    <3> QED
      BY <3>1, <3>4, DebtTypes DEF Book
  <2>7. Debt(s)' <= Debt(s)
    BY <1>4, <2>6, DebtTypes DEF Book, Debt, One
  <2> QED
    BY <1>1, <1>4, <2>7, StaysBalanced, DebtTypes DEF Book
<1> QED
  BY <1>6, <1>7

\* A commit ends the one execution of its shard's token.
LEMMA NobodyElse ==
  ASSUME IInv, NEW w \in Worker, Executing(w), Owns(w), NEW v \in Worker, Executing(v),
         job[v] = [shard |-> job[w].shard, token |-> leaseToken[job[w].shard]]
  PROVE  v = w
<1>1. Owns(v)
  BY DEF Owns
<1> QED
  BY <1>1, OwnerUnique

\* A commit that queues its shard again does so within the limit; no other adds
\* anything.
LEMMA CommitBalanced ==
  ASSUME Book, [Next]_vars, NEW w \in Worker, FinishCommit(w),
         NEW s \in Shard, Balanced(s)
  PROVE  Balanced(s)'
<1>1. /\ UNCHANGED <<leaseToken, lastToken, attempts, selected, job>>
      /\ Paid' = Paid
  BY PaidKept DEF Book, FinishCommit, callVars
<1>2. Executing(w) /\ Owns(w) /\ ~Executing(w)' /\ job[w].shard \in Shard
  BY DEF Book, FinishCommit, Executing, IInv, CommitOwns, Owns, TypeOK, TasksOK,
         PlacesOK
<1>3. ASSUME NEW v \in Worker
      PROVE  /\ Holding(v)' => Holding(v)
             /\ Executing(v) /\ v # w => Executing(v)'
  BY DEF Book, FinishCommit, Holding, Executing, TypeOK, TasksOK, ActorsOK, Actor
<1>4. AllKept
  BY DEF Book, FinishCommit, TypeOK, TasksOK, ActorsOK, AllKept, Kept, Executing,
         Started, Actor
<1>5. CASE job[w].shard # s
  <2>1. /\ status'[s] = status[s] /\ expired'[s] = expired[s]
        /\ candidates'[s] = candidates[s]
    BY <1>2, <1>5 DEF Book, FinishCommit, TypeOK, DatabaseOK
  <2>2. status'[s] = "running" /\ Orphan(s)' => Orphan(s)
    <3> SUFFICES ASSUME NEW v \in Worker, Executing(v),
                        job[v] = [shard |-> s, token |-> leaseToken[s]]
                 PROVE  ~Orphan(s)'
      BY DEF Orphan
    <3>1. v # w
      BY <1>5
    <3>2. Executing(v)'
      BY <1>3, <3>1
    <3> QED
      BY <1>1, <3>2 DEF Orphan, Executing
  <2>3. Listed(s)' => Listed(s)
    BY <1>1, <2>1 DEF Listed, Active
  <2>4. DebtKept(s)
    BY <1>1, <1>3, <1>4, <2>1, <2>2, <2>3, DebtKeptIf DEF Book
  <2>5. Waiting(s)' = Waiting(s)
    BY <2>1 DEF Waiting
  <2> QED
    BY <1>1, <2>4, <2>5, FreeStep, DebtTypes DEF Book
<1>6. CASE job[w].shard = s
  <2>1. /\ status[s] = "running" /\ status'[s] = verdict[w] /\ ~expired'[s]
        /\ job[w] = [shard |-> s, token |-> leaseToken[s]]
        /\ candidates'[s] \subseteq candidates[s] \cup {leaseToken[s]}
    <3>1. job[w].token = leaseToken[s] /\ status[s] = "running" /\ job[w] \in Message
      BY <1>2, <1>6 DEF Owns, Book, FinishCommit, TypeOK, PlacesOK
    <3> QED
      BY <1>6, <3>1 DEF Book, FinishCommit, TypeOK, DatabaseOK, Message
  <2>2. verdict[w] \in {"completed", "cancelled", "queued", "dead_letter"}
    BY DEF Book, TypeOK, TasksOK
  <2>3. ~Orphan(s)
    BY <1>2, <2>1 DEF Orphan
  <2>4. Listed(s)' => Listed(s)
    BY <1>1, <2>1 DEF Listed, Active
  <2>5. DebtKept(s)
    BY <1>1, <1>3, <1>4, <2>1, <2>2, <2>3, <2>4, DebtKeptIf DEF Book
  <2>6. CASE verdict[w] # "queued"
    <3>1. Waiting(s)' = 0
      BY <2>1, <2>2, <2>6 DEF Waiting, One
    <3> QED
      BY <1>1, <2>5, <3>1, FreeStep, DebtTypes DEF Book
  <2>7. CASE verdict[w] = "queued"
    <3>1. attempts[s] < MaxAttempts
      BY <1>6, <2>7 DEF Book, RetryHasBudget, FinishCommit
    <3>2. Debt(s)' <= Debt(s)
      BY <2>5, NoNewDebt DEF Book
    <3>3. Waiting(s)' = 1
      BY <2>1, <2>7 DEF Waiting, One
    <3>4. MaxAttempts \in Nat /\ Debt(s) <= Paid
      BY SettingsAssumption DEF Balanced
    <3> QED
      BY <1>1, <3>1, <3>2, <3>3, <3>4, DebtTypes DEF Book, Balanced
  <2> QED
    BY <2>6, <2>7
<1> QED
  BY <1>5, <1>6

\* A worker whose candidates are in the table already was on a tainted shard; it
\* leaves the shard to be recovered.
LEMMA DuplicateBalanced ==
  ASSUME Book, [Next]_vars, NEW w \in Worker, DuplicateCandidate(w),
         NEW s \in Shard, Balanced(s)
  PROVE  Balanced(s)'
<1>1. /\ UNCHANGED <<status, leaseToken, lastToken, attempts, candidates, expired,
                     selected, disturbances>>
      /\ CloseTask(w)
  BY DEF DuplicateCandidate, leaseVars, rowVars, callVars
<1>2. CASE ~Owns(w)
  BY <1>1, <1>2, CloseTaskBalanced
<1>3. ASSUME Owns(w), job[w].shard = s PROVE Balanced(s)'
  <2>1. /\ TwoStage /\ Started(w) /\ Executing(w)
        /\ job[w] = [shard |-> s, token |-> leaseToken[s]]
        /\ leaseToken[s] \notin candidates[s]
        /\ candidates[s] # {}
    <3>1. TwoStage /\ Started(w) /\ Unstored(w) /\ job[w] \in Message
      BY DEF Book, DuplicateCandidate, PendingShape, Unstored, TypeOK, PlacesOK
    <3> QED
      BY <1>3, <3>1 DEF Book, DuplicateCandidate, NotYetStored, Started, Owns, Message
  <2>2. Tainted(s)
    BY <2>1 DEF Tainted
  <2>3. AllKept /\ \A v \in Worker : Holding(v)' => Holding(v)
    BY <1>1, CloseTaskWorkers DEF Book
  <2>4. Listed(s)' => Listed(s)
    BY <1>1 DEF Listed, Active
  <2>5. /\ MayStray(s)' => MayStray(s)
        /\ StrayTokens(s)' \subseteq StrayTokens(s)
    BY <1>1, <2>3, <2>4, DebtKeptIf DEF Book
  <2>6. ~Tainted(s)'
    <3> SUFFICES ASSUME NEW v \in Worker, Started(v)',
                        job'[v] = [shard |-> s, token |-> leaseToken[s]]
                 PROVE  FALSE
      BY <1>1 DEF Tainted
    <3>1. v # w
      BY <1>1 DEF CloseTask, Started, Executing, Book, TypeOK, TasksOK
    <3>2. Executing(v) /\ job[v] = job'[v]
      BY <2>3, ShardAssumption DEF AllKept, Kept, Started, NoMessage
    <3> QED
      BY <1>3, <2>1, <3>1, <3>2, NobodyElse DEF Book
  <2>7. Cardinality(StrayTokens(s)') <= Cardinality(StrayTokens(s))
    BY <2>5, DebtTypes, FS_Subset DEF Book
  <2>8. Debt(s)' <= Debt(s)
    BY <2>2, <2>5, <2>6, <2>7, DebtTypes DEF Book, Debt, One
  <2>9. Waiting(s)' = Waiting(s) /\ Paid' = Paid /\ attempts'[s] = attempts[s]
    BY <1>1, PaidKept DEF Book, Waiting
  <2> QED
    BY <2>8, <2>9, StaysBalanced, DebtTypes DEF Book
<1>4. ASSUME job[w].shard # s PROVE Balanced(s)'
  <2>1. AllKept /\ \A v \in Worker : Holding(v)' => Holding(v)
    BY <1>1, CloseTaskWorkers DEF Book
  <2>2. Listed(s)' => Listed(s)
    BY <1>1 DEF Listed, Active
  <2>3. status'[s] = "running" /\ Orphan(s)' => Orphan(s)
    <3> SUFFICES ASSUME NEW v \in Worker, Executing(v),
                        job[v] = [shard |-> s, token |-> leaseToken[s]]
                 PROVE  ~Orphan(s)'
      BY DEF Orphan
    <3>1. v # w
      BY <1>4
    <3>2. Executing(v)' /\ job'[v] = job[v]
      BY <1>1, <3>1, CloseTaskWorkers DEF Book
    <3> QED
      BY <1>1, <3>2 DEF Orphan, Executing
  <2>4. DebtKept(s)
    BY <1>1, <2>1, <2>2, <2>3, DebtKeptIf DEF Book
  <2>5. Waiting(s)' = Waiting(s) /\ Paid' = Paid /\ attempts'[s] = attempts[s]
    BY <1>1, PaidKept DEF Book, Waiting
  <2> QED
    BY <2>4, <2>5, FreeStep, DebtTypes DEF Book
<1> QED
  BY <1>2, <1>3, <1>4

\* A crash can leave one shard to be recovered.
LEMMA CrashBalanced ==
  ASSUME Book, [Next]_vars, NEW w \in Worker, CrashWorker(w),
         NEW s \in Shard, Balanced(s)
  PROVE  Balanced(s)'
<1>1. /\ UNCHANGED <<status, leaseToken, lastToken, attempts, candidates, expired,
                     selected>>
      /\ CloseTask(w) /\ Paid' = Paid + Price
  BY PaidKept DEF Book, CrashWorker, Disturb, leaseVars, rowVars
<1>2. AllKept /\ \A v \in Worker : Holding(v)' => Holding(v)
  BY <1>1, CloseTaskWorkers DEF Book
<1>3. Listed(s)' => Listed(s)
  BY <1>1 DEF Listed, Active
<1>4. /\ MayStray(s)' => MayStray(s)
      /\ StrayTokens(s)' \subseteq StrayTokens(s)
      /\ Tainted(s)' => Tainted(s)
  BY <1>1, <1>2, <1>3, DebtKeptIf DEF Book
<1>5. Cardinality(StrayTokens(s)') <= Cardinality(StrayTokens(s))
  BY <1>4, DebtTypes, FS_Subset DEF Book
<1>6. Debt(s)' <= Debt(s) + 1
  BY <1>4, <1>5, DebtTypes DEF Book, Debt, One
<1>7. Waiting(s)' = Waiting(s) /\ attempts'[s] = attempts[s]
  BY <1>1 DEF Waiting
<1>8. Price \in Nat /\ Price >= 1
  BY PaidKept DEF Book
<1> QED
  BY <1>1, <1>6, <1>7, <1>8, StaysBalanced, DebtTypes DEF Book

\* A recovery turns a debt into a shard that waits, and the execution it cuts off
\* into a stray one.
LEMMA RecoverBalanced ==
  ASSUME Book, [Next]_vars, RecoverCommit, NEW s \in Shard, Balanced(s)
  PROVE  Balanced(s)'
<1>1. /\ UNCHANGED <<lastToken, attempts, candidates, job, stage, pending>>
      /\ Paid' = Paid
  BY PaidKept DEF Book, RecoverCommit, rowVars, taskVars
<1>2. \A w \in Worker : pc'[w] = pc[w]
  BY WorkerAssumption DEF Book, RecoverCommit, TypeOK, ActorsOK, Actor, Service
<1>3. selected'["scheduler"] = {}
  BY DEF Book, RecoverCommit, TypeOK, ActorsOK, Service
<1>4. CASE s \notin selected["scheduler"]
  <2>1. /\ status'[s] = status[s] /\ leaseToken'[s] = leaseToken[s]
        /\ expired'[s] = expired[s]
    BY <1>4 DEF RecoverCommit
  <2>2. DebtKept(s)
    BY <1>1, <1>2, <1>3, <2>1
       DEF DebtKept, Recoverable, MayStray, Listed, Active, Orphan, Executing,
           StrayTokens, Holding, Tainted, Started
  <2>3. Waiting(s)' = Waiting(s)
    BY <2>1 DEF Waiting
  <2> QED
    BY <1>1, <2>2, <2>3, FreeStep, DebtTypes DEF Book
<1>5. CASE s \in selected["scheduler"]
  <2>1. status'[s] = "queued" /\ leaseToken'[s] = 0
    BY <1>5 DEF RecoverCommit
  <2>2. Recoverable(s) /\ Listed(s)
    BY <1>5 DEF Recoverable, Listed
  <2>3. ~Recoverable(s)' /\ ~MayStray(s)'
    BY <1>3, <2>1 DEF Recoverable, MayStray, Listed, Active
  <2>4. ~Tainted(s)'
    <3> SUFFICES ASSUME NEW w \in Worker, job[w] = [shard |-> s, token |-> 0]
                 PROVE  FALSE
      BY <1>1, <2>1 DEF Tainted
    <3> QED
      BY DEF Book, RealTokens, Message
  <2>5. Cardinality(StrayTokens(s)') <= Cardinality(StrayTokens(s)) + One(MayStray(s))
    <3>1. ASSUME NEW t \in StrayTokens(s)'
          PROVE  t \in StrayTokens(s) \cup {leaseToken[s]}
      <4>1. PICK w \in Worker : Holding(w)' /\ job[w] = [shard |-> s, token |-> t]
        BY <1>1 DEF StrayTokens
      <4>2. Holding(w)
        BY <1>1, <1>2, <4>1 DEF Holding
      <4> QED
        BY <1>1, <4>1, <4>2 DEF StrayTokens
    <3>2. CASE MayStray(s)
      <4>1. /\ IsFiniteSet(StrayTokens(s) \cup {leaseToken[s]})
            /\ Cardinality(StrayTokens(s) \cup {leaseToken[s]})
                 <= Cardinality(StrayTokens(s)) + 1
        BY DebtTypes, FS_AddElement DEF Book
      <4>2. StrayTokens(s)' \in SUBSET (StrayTokens(s) \cup {leaseToken[s]})
        BY <3>1
      <4>3. Cardinality(StrayTokens(s)')
              <= Cardinality(StrayTokens(s) \cup {leaseToken[s]})
        BY <4>1, <4>2, FS_Subset
      <4>4. Cardinality(StrayTokens(s) \cup {leaseToken[s]}) \in Nat
        BY <4>1, FS_CardinalityType
      <4> QED
        BY <3>2, <4>1, <4>3, <4>4, DebtTypes DEF Book, One
    <3>3. CASE ~MayStray(s)
      <4>1. leaseToken[s] \notin StrayTokens(s)'
        <5> SUFFICES ASSUME NEW w \in Worker, Holding(w)',
                            job[w] = [shard |-> s, token |-> leaseToken[s]]
                     PROVE  FALSE
          BY <1>1 DEF StrayTokens
        <5>1. Holding(w)
          BY <1>1, <1>2 DEF Holding
        <5>2. TwoStage /\ Executing(w)
          BY <5>1 DEF Book, PendingShape, Holding, Started
        <5> QED
          BY <2>2, <3>3, <5>2 DEF MayStray, Orphan
      <4>2. StrayTokens(s)' \in SUBSET StrayTokens(s)
        BY <3>1, <4>1
      <4>3. Cardinality(StrayTokens(s)') <= Cardinality(StrayTokens(s))
        BY <4>2, DebtTypes, FS_Subset DEF Book
      <4> QED
        BY <3>3, <4>3, DebtTypes DEF Book, One
    <3> QED
      BY <3>2, <3>3
  <2>6. Waiting(s)' = 1
    BY <2>1 DEF Waiting, One
  <2>7. Debt(s)' + 1 <= Debt(s)
    BY <2>2, <2>3, <2>4, <2>5, DebtTypes DEF Book, Debt, One
  <2> QED
    BY <1>1, <2>6, <2>7, StaysBalanced, DebtTypes DEF Book
<1> QED
  BY <1>4, <1>5

\* A cancellation queues nothing and ends no execution.
LEMMA CancelBalanced ==
  ASSUME Book, [Next]_vars, CancelCommit, NEW s \in Shard, Balanced(s)
  PROVE  Balanced(s)'
<1>1. /\ UNCHANGED <<leaseToken, lastToken, attempts, expired, candidates, job, stage,
                     pending>>
      /\ Paid' = Paid
  BY PaidKept DEF Book, CancelCommit, rowVars, taskVars
<1>2. \A w \in Worker : pc'[w] = pc[w]
  BY WorkerAssumption DEF Book, CancelCommit, TypeOK, ActorsOK, Actor, Service
<1>3. selected'["scheduler"] = selected["scheduler"]
  BY DEF Book, CancelCommit, TypeOK, ActorsOK, Service
<1>4. status'[s] = status[s] \/ status'[s] = "cancelled"
  BY DEF CancelCommit
<1>5. DebtKept(s)
  BY <1>1, <1>2, <1>3, <1>4
     DEF DebtKept, Recoverable, MayStray, Listed, Active, Orphan, Executing,
         StrayTokens,
         Holding, Tainted, Started
<1>6. attempts'[s] + Waiting(s)' <= attempts[s] + Waiting(s)
  BY <1>1, <1>4, DebtTypes DEF Book, Waiting, One
<1> QED
  BY <1>1, <1>5, <1>6, FreeStep, DebtTypes DEF Book

\* A lease that expires under a disturbance is paid for: the shard is recovered, and
\* with Masscan its worker may be left behind.
LEMMA ExpiryBalanced ==
  ASSUME Book, [Next]_vars, NEW r \in Shard,
         LeaseExpires(r) \/ HeartbeatLate(r) \/ OrphanExpires(r),
         NEW s \in Shard, Balanced(s)
  PROVE  Balanced(s)'
<1>1. /\ UNCHANGED <<status, leaseToken, lastToken, attempts, candidates, pc, job, stage,
                     pending, selected>>
      /\ r # s => expired'[s] = expired[s]
  BY DEF Book, LeaseExpires, HeartbeatLate, OrphanExpires, rowVars, taskVars,
         callVars, TypeOK, DatabaseOK
<1>2. /\ StrayTokens(s)' \subseteq StrayTokens(s)
      /\ Tainted(s)' => Tainted(s)
      /\ Waiting(s)' = Waiting(s)
  BY <1>1 DEF StrayTokens, Holding, Tainted, Started, Executing, Waiting
<1>3. Cardinality(StrayTokens(s)') <= Cardinality(StrayTokens(s))
  BY <1>2, DebtTypes, FS_Subset DEF Book
<1>4. Paid <= Paid'
  BY PaidKept, DebtTypes DEF Book, LeaseExpires, HeartbeatLate, OrphanExpires, Disturb
<1>5. CASE r # s \/ OrphanExpires(r)
  <2>1. (Recoverable(s)' => Recoverable(s)) /\ (MayStray(s)' => MayStray(s))
    BY <1>1, <1>5
       DEF OrphanExpires, Recoverable, MayStray, Listed, Active, Orphan, Executing
  <2>2. DebtKept(s)
    BY <1>2, <2>1 DEF DebtKept
  <2> QED
    BY <1>1, <1>2, <1>4, <2>2, FreeStep, DebtTypes DEF Book
<1>6. CASE LeaseExpires(r) \/ HeartbeatLate(r)
  <2>1. Paid' = Paid + Price /\ Price \in Nat /\ Price >= 1 /\ (TwoStage => Price = 2)
    BY <1>6, PaidKept DEF Book, LeaseExpires, HeartbeatLate, Disturb
  <2>2. ~TwoStage => ~MayStray(s)'
    BY DEF MayStray
  <2>3. CASE TwoStage
    <3>1. Debt(s)' <= Debt(s) + 2
      BY <1>2, <1>3, DebtTypes DEF Book, Debt, One
    <3> QED
      BY <1>1, <1>2, <2>1, <2>3, <3>1, StaysBalanced, DebtTypes DEF Book
  <2>4. CASE ~TwoStage
    <3>1. Debt(s)' <= Debt(s) + 1
      BY <1>2, <1>3, <2>2, <2>4, DebtTypes DEF Book, Debt, One
    <3> QED
      BY <1>1, <1>2, <2>1, <3>1, StaysBalanced, DebtTypes DEF Book
  <2> QED
    BY <2>3, <2>4
<1> QED
  BY <1>5, <1>6

\* The books stay balanced, whoever takes the step.
LEMMA AccountsStep == IInv /\ Accounts /\ [Next]_vars => Accounts'
<1> SUFFICES ASSUME IInv, Accounts, [Next]_vars PROVE Accounts'
  OBVIOUS
<1>1. TypeOK /\ TypeOK'
  BY TypeStep DEF IInv
<1>2. Book
  BY <1>1 DEF Book, Accounts
<1>3. RealTokens' /\ QueuedIsIdle' /\ PendingShape' /\ NotYetStored' /\ RetryHasBudget'
  BY <1>2, RealTokensStep, QueuedIsIdleStep, PendingShapeStep, NotYetStoredStep,
     RetryHasBudgetStep
     DEF Book
<1>4. ASSUME NEW s \in Shard PROVE Balanced(s)'
  <2>1. Balanced(s)
    BY DEF Accounts
  <2>2. CASE Costly
    BY <1>1, <1>2, <2>1, <2>2, DispatchBalanced, ClaimBalanced, CancelledLoadBalanced,
       StartBalanced, HeartbeatBalanced, CommitBalanced, DuplicateBalanced,
       CrashBalanced, RecoverBalanced, CancelBalanced, ExpiryBalanced
       DEF Costly
  <2>3. CASE ~Costly
    <3>1. AllKept
      BY <1>1, <2>3, TasksKept DEF Costly
    <3> QED
      BY <1>1, <1>2, <2>1, <2>3, <3>1, StepCosts, CalmBalanced
  <2> QED
    BY <2>2, <2>3
<1> QED
  BY <1>3, <1>4 DEF Accounts

\* No shard starts in debt.
LEMMA InitAccounts == Init => Accounts
<1> SUFFICES ASSUME Init PROVE Accounts
  OBVIOUS
<1>1. TypeOK
  BY InitType
<1>2. RealTokens /\ QueuedIsIdle /\ PendingShape /\ NotYetStored /\ RetryHasBudget
  BY ShardAssumption, WorkerAssumption
     DEF Init, RealTokens, QueuedIsIdle, Orphan, PendingShape, NotYetStored, Unstored,
         RetryHasBudget, Started, Executing, NoMessage, Message, Actor, Service
<1>3. ASSUME NEW s \in Shard PROVE Balanced(s)
  <2>1. ~Recoverable(s) /\ ~MayStray(s) /\ ~Tainted(s)
    BY DEF Init, Recoverable, MayStray, Tainted, Listed, Active, Executing, Started,
           Service
  <2>2. StrayTokens(s) = {}
    BY WorkerAssumption DEF Init, StrayTokens, Holding
  <2>3. Debt(s) = 0
    BY <2>1, <2>2, FS_EmptySet DEF Debt, One
  <2>4. attempts[s] = 0 /\ Waiting(s) = 1
    BY DEF Init, Waiting, One
  <2>5. Paid = 0
    <3>1. disturbances = 0 /\ Price \in Nat
      BY DEF Init, Price
    <3> QED
      BY <3>1 DEF Paid
  <2> QED
    BY <2>3, <2>4, <2>5, SettingsAssumption DEF Balanced
<1> QED
  BY <1>2, <1>3 DEF Accounts

\* The limit on attempts, whatever fails: a shard is attempted at most
\* max_shard_attempts times, and once more, with Masscan twice, per disturbance.
THEOREM AttemptsAreBounded == Spec => []BoundedAttempts
<1>1. ASSUME TypeOK, Accounts PROVE BoundedAttempts
  <2> SUFFICES ASSUME NEW s \in Shard
               PROVE  attempts[s] <= MaxAttempts + Paid
    BY DEF BoundedAttempts, Paid, Price
  <2>1. ASSUME NEW T, IsFiniteSet(T) PROVE Cardinality(T) \in Nat
    BY <2>1, FS_CardinalityType
  <2>2. IsFiniteSet(StrayTokens(s))
    <3>1. lastToken[s] \in Nat /\ StrayTokens(s) \in SUBSET (1 .. lastToken[s])
      BY <1>1 DEF TypeOK, DatabaseOK, StrayTokens
    <3>2. IsFiniteSet(1 .. lastToken[s])
      BY <3>1, FS_Interval
    <3> QED
      BY <3>1, <3>2, FS_Subset
  <2>3. Cardinality(StrayTokens(s)) \in Nat
    BY <2>1, <2>2
  <2>4. Debt(s) \in Nat /\ Waiting(s) \in Nat
    BY <2>3 DEF Debt, Waiting, One
  <2>5. Paid \in Nat
    <3>1. disturbances \in Nat /\ Price \in Nat
      BY <1>1, DisturbanceAssumption DEF TypeOK, ActorsOK, Price
    <3> QED
      BY <3>1 DEF Paid
  <2>6. attempts[s] \in Nat /\ MaxAttempts \in Nat
    BY <1>1, SettingsAssumption DEF TypeOK, DatabaseOK
  <2>7. Balanced(s)
    BY <1>1 DEF Accounts
  <2> QED
    BY <2>4, <2>5, <2>6, <2>7 DEF Balanced
<1>2. IInv => TypeOK
  BY DEF IInv
<1> QED
  BY <1>1, <1>2, InitAccounts, AccountsStep, Invariance, PTL DEF Spec

-----------------------------------------------------------------------------
\* Whoever may be between the count and the SELECT of a dispatch.
Dispatcher == Worker \cup {"api", "scheduler"}

\* The slots that the dispatches under way have counted as free.
Slots == {x \in Dispatcher \X (1..MaxConcurrent) : pc[x[1]] = "lease" /\ x[2] <= room[x[1]]}

RoomShape ==
  \A a \in Actor : pc[a] = "lease" => a \in Dispatcher /\ room[a] <= MaxConcurrent

\* The slots that are taken and those that are about to be.
BudgetInv ==
  /\ RoomShape
  /\ Cardinality(Active) + Cardinality(Slots) <= MaxConcurrent * Cardinality(Dispatcher)

\* However the dispatches interleave, each takes the run over its budget at most
\* once more.
DispatchBudget == Cardinality(Active) <= MaxConcurrent * Cardinality(Dispatcher)

\* A step that takes no slot and counts none.
Leaving ==
  /\ \A s \in Shard : status'[s] \in {"leased", "running"} => status[s] \in {"leased", "running"}
  /\ \A a \in Actor : pc'[a] = "lease" => pc[a] = "lease" /\ room'[a] = room[a]

Taking == \E a \in Dispatcher : DispatchCount(a) \/ DispatchLease(a)

\* Two actions of a dispatch take slots; every other step only leaves them.
LEMMA SlotKinds ==
  ASSUME TypeOK, [Next]_vars
  PROVE  Leaving \/ Taking
<1>1. ASSUME NEW a \in Actor, DispatchNothing(a) PROVE Leaving \/ Taking
  BY <1>1
     DEF DispatchNothing, LeaveDispatch, CloseTask, Leaving, leaseVars, TypeOK,
         ActorsOK
<1>2. ASSUME NEW a \in Dispatcher, DispatchCount(a) PROVE Leaving \/ Taking
  BY <1>2 DEF Taking
<1>3. ASSUME NEW a \in Dispatcher, DispatchLease(a) PROVE Leaving \/ Taking
  BY <1>3 DEF Taking
<1>4. ASSUME NEW m \in outbox, Publish(m) PROVE Leaving \/ Taking
  BY <1>4 DEF Publish, Leaving, leaseVars, callVars
<1>5. ASSUME NEW m \in outbox, PublishUnmarked(m) PROVE Leaving \/ Taking
  BY <1>5 DEF PublishUnmarked, Leaving, leaseVars, callVars
<1>6. ASSUME NEW w \in Worker, NEW m \in broker, ClaimLease(w, m) PROVE Leaving \/ Taking
  BY <1>6 DEF ClaimLease, Claimable, Leaving, callVars
<1>7. ASSUME NEW w \in Worker, NEW m \in broker, DiscardTask(w, m) PROVE Leaving \/ Taking
  BY <1>7 DEF DiscardTask, Leaving, leaseVars, callVars
<1>8. ASSUME NEW w \in Worker, LoadRun(w) PROVE Leaving \/ Taking
  BY <1>8 DEF LoadRun, Leaving, leaseVars, callVars
<1>9. ASSUME NEW w \in Worker, LoadCancelledRun(w) PROVE Leaving \/ Taking
  BY <1>9 DEF LoadCancelledRun, CloseTask, Leaving, callVars
<1>10. ASSUME NEW w \in Worker, StartRun(w) PROVE Leaving \/ Taking
  BY <1>10 DEF StartRun, Leaving, leaseVars, callVars
<1>11. ASSUME NEW w \in Worker, CheckLease(w) PROVE Leaving \/ Taking
  BY <1>11 DEF CheckLease, Leaving, leaseVars, callVars
<1>12. ASSUME NEW w \in Worker, Heartbeat(w) PROVE Leaving \/ Taking
  BY <1>12 DEF Heartbeat, Leaving, callVars
<1>13. ASSUME NEW w \in Worker, Superseded(w) PROVE Leaving \/ Taking
  BY <1>13 DEF Superseded, CloseTask, Leaving, leaseVars, callVars
<1>14. ASSUME NEW w \in Worker, MasscanFound(w) PROVE Leaving \/ Taking
  BY <1>14 DEF MasscanFound, Leaving, leaseVars, callVars
<1>15. ASSUME NEW w \in Worker, MasscanEmpty(w) PROVE Leaving \/ Taking
  BY <1>15 DEF MasscanEmpty, FinishLease, Leaving, leaseVars, callVars
<1>16. ASSUME NEW w \in Worker, NmapDone(w) PROVE Leaving \/ Taking
  BY <1>16 DEF NmapDone, FinishLease, Leaving, leaseVars, callVars
<1>17. ASSUME NEW w \in Worker, ScanFails(w) PROVE Leaving \/ Taking
  BY <1>17 DEF ScanFails, FinishLease, Leaving, leaseVars, callVars
<1>18. ASSUME NEW w \in Worker, ScanCancelled(w) PROVE Leaving \/ Taking
  BY <1>18 DEF ScanCancelled, FinishLease, Leaving, leaseVars, callVars
<1>19. ASSUME NEW w \in Worker, FinishCommit(w) PROVE Leaving \/ Taking
  BY <1>19 DEF FinishCommit, TasksOK, Leaving, callVars, TypeOK
<1>20. ASSUME NEW w \in Worker, DuplicateCandidate(w) PROVE Leaving \/ Taking
  BY <1>20 DEF DuplicateCandidate, CloseTask, Leaving, leaseVars, callVars
<1>21. ASSUME RecoverSelect PROVE Leaving \/ Taking
  BY <1>21 DEF RecoverSelect, Leaving, leaseVars
<1>22. ASSUME RecoverCommit PROVE Leaving \/ Taking
  BY <1>22 DEF RecoverCommit, Leaving
<1>23. ASSUME ReconcileRead PROVE Leaving \/ Taking
  BY <1>23 DEF ReconcileRead, Leaving, leaseVars, callVars
<1>24. ASSUME ReconcileCommit PROVE Leaving \/ Taking
  BY <1>24 DEF ReconcileCommit, Leaving, leaseVars, callVars
<1>25. ASSUME DispatchReady PROVE Leaving \/ Taking
  BY <1>25 DEF DispatchReady, Leaving, leaseVars, callVars
<1>26. ASSUME CancelRead PROVE Leaving \/ Taking
  BY <1>26 DEF CancelRead, Leaving, leaseVars
<1>27. ASSUME CancelCommit PROVE Leaving \/ Taking
  BY <1>27 DEF CancelCommit, Leaving
<1>28. ASSUME NEW w \in Worker, CrashWorker(w) PROVE Leaving \/ Taking
  BY <1>28 DEF CrashWorker, CloseTask, Leaving, leaseVars, TypeOK, ActorsOK
<1>29. ASSUME NEW a \in {"api", "scheduler"}, RestartService(a) PROVE Leaving \/ Taking
  BY <1>29 DEF RestartService, Leaving, leaseVars, TypeOK, ActorsOK
<1>30. ASSUME NEW s \in Shard, LeaseExpires(s) PROVE Leaving \/ Taking
  BY <1>30 DEF LeaseExpires, Leaving, callVars
<1>31. ASSUME NEW s \in Shard, HeartbeatLate(s) PROVE Leaving \/ Taking
  BY <1>31 DEF HeartbeatLate, Leaving, callVars
<1>32. ASSUME NEW s \in Shard, OrphanExpires(s) PROVE Leaving \/ Taking
  BY <1>32 DEF OrphanExpires, Leaving, callVars
<1>33. ASSUME NEW s \in Shard, BackoffElapses(s) PROVE Leaving \/ Taking
  BY <1>33 DEF BackoffElapses, Leaving, callVars
<1>34. ASSUME UNCHANGED vars PROVE Leaving \/ Taking
  BY <1>34 DEF vars, leaseVars, callVars, Leaving
<1> QED
  BY <1>1, <1>2, <1>3, <1>4, <1>5, <1>6, <1>7, <1>8, <1>9, <1>10, <1>11, <1>12, <1>13,
     <1>14, <1>15, <1>16, <1>17, <1>18, <1>19, <1>20, <1>21, <1>22, <1>23, <1>24,
     <1>25, <1>26, <1>27, <1>28, <1>29, <1>30, <1>31, <1>32, <1>33, <1>34
     DEF Next, Dispatcher, WorkerStep, Take, Execute, ScanEnds, Dispatch, Actor,
         Service

-----------------------------------------------------------------------------
\* ORDER BY ... LIMIT n returns at most n shards: none has as many before it as
\* another, so counting those before numbers them from 0 to n - 1.
LEMMA FirstAtMost ==
  ASSUME NEW S \in SUBSET Shard, NEW n \in Nat
  PROVE  IsFiniteSet(FirstOf(S, n)) /\ Cardinality(FirstOf(S, n)) <= n
<1> DEFINE Before(s) == {r \in S : r < s}
           place == [s \in FirstOf(S, n) |-> Cardinality(Before(s))]
<1>1. IsFiniteSet(S) /\ S \subseteq Nat
  BY ShardAssumption, FS_Subset
<1>2. \A s \in S : IsFiniteSet(Before(s)) /\ Cardinality(Before(s)) \in Nat
  BY <1>1, FS_Subset, FS_CardinalityType
<1>3. place \in [FirstOf(S, n) -> 0..(n - 1)]
  BY <1>2 DEF FirstOf
<1>4. ASSUME NEW r \in FirstOf(S, n), NEW s \in FirstOf(S, n), r < s
      PROVE  place[r] # place[s]
  <2>0. r \in S /\ s \in S /\ S \subseteq Nat /\ r < s
    BY <1>1, <1>4 DEF FirstOf
  <2>1. Before(r) \cup {r} \subseteq Before(s) /\ r \notin Before(r)
    <3>1. \A q \in Before(r) : q \in Before(s)
      BY <2>0
    <3>2. r \in Before(s) /\ ~ (r < r)
      BY <2>0
    <3> QED
      BY <3>1, <3>2
  <2>2. Cardinality(Before(r) \cup {r}) = Cardinality(Before(r)) + 1
    BY <1>2, <2>1, FS_AddElement DEF FirstOf
  <2>3. Cardinality(Before(r) \cup {r}) <= Cardinality(Before(s))
    BY <1>2, <2>1, FS_Subset DEF FirstOf
  <2> QED
    BY <1>2, <2>2, <2>3 DEF FirstOf
<1>5. place \in Injection(FirstOf(S, n), 0..(n - 1))
  BY <1>1, <1>3, <1>4 DEF FirstOf, Injection, IsInjective
<1>6. IsFiniteSet(0..(n - 1)) /\ Cardinality(0..(n - 1)) = n
  BY FS_Interval
<1> QED
  BY <1>5, <1>6, FS_Injection

\* The numbers from 1 to n are n.
LEMMA FirstNumbers ==
  ASSUME NEW n \in Nat
  PROVE  IsFiniteSet(1..n) /\ Cardinality(1..n) = n
<1>1. IsFiniteSet(1..n) /\ Cardinality(1..n) = IF 1 > n THEN 0 ELSE n - 1 + 1
  BY FS_Interval
<1> QED
  BY <1>1

\* Each process of a set having n slots, they have together n for each process.
LEMMA SlotsOf ==
  ASSUME NEW S, IsFiniteSet(S), NEW n \in Nat
  PROVE  /\ IsFiniteSet(S \X (1..n))
         /\ Cardinality(S \X (1..n)) = Cardinality(S) * n
<1> DEFINE numbers == 1..n
<1>1. IsFiniteSet(numbers) /\ Cardinality(numbers) = n
  BY FirstNumbers
<1> HIDE DEF numbers
<1>2. /\ IsFiniteSet(S \X numbers)
      /\ Cardinality(S \X numbers) = Cardinality(S) * Cardinality(numbers)
  BY <1>1, FS_Product
<1> QED
  BY <1>1, <1>2 DEF numbers

\* A process has as many slots as it has counted.
LEMMA SlotsOfOne ==
  ASSUME NEW a, NEW n \in Nat
  PROVE  IsFiniteSet({a} \X (1..n)) /\ Cardinality({a} \X (1..n)) = n
<1>1. IsFiniteSet({a}) /\ Cardinality({a}) = 1
  BY FS_Singleton
<1>2. IsFiniteSet({a} \X (1..n)) /\ Cardinality({a} \X (1..n)) = 1 * n
  BY <1>1, SlotsOf
<1> QED
  BY <1>2

\* The slots of a dispatch, in numbers.
LEMMA SlotsFinite ==
  ASSUME IsFiniteSet(Worker)
  PROVE  /\ IsFiniteSet(Dispatcher) /\ Cardinality(Dispatcher) \in Nat
         /\ IsFiniteSet(Slots) /\ Cardinality(Slots) \in Nat
         /\ IsFiniteSet(Active) /\ Cardinality(Active) \in Nat
<1>1. IsFiniteSet(Dispatcher)
  <2>1. IsFiniteSet({"api"}) /\ IsFiniteSet({"scheduler"})
    BY FS_Singleton
  <2>2. Dispatcher = (Worker \cup {"api"}) \cup {"scheduler"}
    BY DEF Dispatcher
  <2> QED
    BY <2>1, <2>2, FS_Union
<1>2. IsFiniteSet(1..MaxConcurrent)
  BY SettingsAssumption, FS_Interval
<1>3. IsFiniteSet(Slots)
  BY <1>1, <1>2, FS_Product, FS_Subset DEF Slots
<1>4. IsFiniteSet(Active)
  BY ShardAssumption, FS_Subset DEF Active
<1> QED
  BY <1>1, <1>3, <1>4, FS_CardinalityType

\* A count adds as many slots as are free, and the others count at most
\* MaxConcurrent each.
LEMMA CountKeepsBudget ==
  ASSUME TypeOK, IsFiniteSet(Worker), BudgetInv, NEW a \in Dispatcher, DispatchCount(a)
  PROVE  BudgetInv'
<1> DEFINE d == Cardinality(Dispatcher)
           k == Cardinality(Active)
           Others == (Dispatcher \ {a}) \X (1..MaxConcurrent)
           Own == {a} \X (1..(MaxConcurrent - k))
<1>1. d \in Nat /\ k \in Nat /\ IsFiniteSet(Dispatcher) /\ MaxConcurrent \in Nat \ {0}
  BY SlotsFinite, SettingsAssumption
<1>2. /\ Active' = Active /\ k < MaxConcurrent
      /\ room' = [room EXCEPT ![a] = MaxConcurrent - k]
      /\ pc' = [pc EXCEPT ![a] = "lease"]
  BY <1>1 DEF DispatchCount, Capacity, Active, leaseVars
<1>3. RoomShape'
  BY <1>1, <1>2 DEF BudgetInv, RoomShape, TypeOK, ActorsOK, Dispatcher, Actor, Service
<1>4. Slots' \subseteq Others \cup Own
  BY <1>1, <1>2 DEF Slots, Dispatcher, Actor, Service, TypeOK, ActorsOK
<1>5. IsFiniteSet(Others) /\ Cardinality(Others) = (d - 1) * MaxConcurrent
  <2>1. IsFiniteSet(Dispatcher \ {a}) /\ Cardinality(Dispatcher \ {a}) = d - 1
    BY <1>1, FS_RemoveElement
  <2> QED
    BY <1>1, <2>1, SlotsOf
<1>6. IsFiniteSet(Own) /\ Cardinality(Own) = MaxConcurrent - k
  <2>1. MaxConcurrent - k \in Nat
    BY <1>1, <1>2
  <2> QED
    BY <2>1, SlotsOfOne
<1>7. /\ IsFiniteSet(Others \cup Own)
      /\ Cardinality(Others \cup Own) <= (d - 1) * MaxConcurrent + (MaxConcurrent - k)
  <2>1. Cardinality(Others \cap Own) \in Nat
    BY <1>5, FS_Intersection, FS_CardinalityType
  <2>2. Cardinality(Others \cup Own)
          = Cardinality(Others) + Cardinality(Own) - Cardinality(Others \cap Own)
    BY <1>5, <1>6, FS_Union
  <2>3. IsFiniteSet(Others \cup Own)
    BY <1>5, <1>6, FS_Union
  <2>4. (d - 1) * MaxConcurrent \in Int /\ MaxConcurrent - k \in Int
    BY <1>1
  <2> QED
    BY <1>5, <1>6, <2>1, <2>2, <2>3, <2>4
<1>8. Cardinality(Slots') <= (d - 1) * MaxConcurrent + (MaxConcurrent - k)
      /\ Cardinality(Slots') \in Nat
  <2>1. IsFiniteSet(Slots') /\ Cardinality(Slots') <= Cardinality(Others \cup Own)
    BY <1>4, <1>7, FS_Subset
  <2>2. Cardinality(Others \cup Own) \in Nat /\ Cardinality(Slots') \in Nat
    BY <1>7, <2>1, FS_CardinalityType
  <2> QED
    BY <1>1, <1>7, <2>1, <2>2
<1>9. (d - 1) * MaxConcurrent + (MaxConcurrent - k) = MaxConcurrent * d - k
  BY <1>1
<1>10. MaxConcurrent * d \in Nat
  BY <1>1
<1>11. Cardinality(Active') + Cardinality(Slots') <= MaxConcurrent * Cardinality(Dispatcher)
  BY <1>1, <1>2, <1>8, <1>9, <1>10
<1> QED
  BY <1>3, <1>11 DEF BudgetInv, Dispatcher

\* A lease turns the slots its dispatch has counted into active shards.
LEMMA LeaseKeepsBudget ==
  ASSUME TypeOK, IsFiniteSet(Worker), BudgetInv, NEW a \in Dispatcher, DispatchLease(a)
  PROVE  BudgetInv'
<1> DEFINE taken == FirstOf(Ready, room[a])
           Own == {a} \X (1..room[a])
<1>1. /\ Cardinality(Dispatcher) \in Nat /\ MaxConcurrent \in Nat
      /\ IsFiniteSet(Slots) /\ Cardinality(Slots) \in Nat
      /\ IsFiniteSet(Active) /\ Cardinality(Active) \in Nat
  BY SlotsFinite, SettingsAssumption
<1>2. /\ pc[a] = "lease" /\ a \in Actor /\ room[a] \in Nat /\ room[a] <= MaxConcurrent
      /\ pc \in [Actor -> Place]
  BY DEF DispatchLease, BudgetInv, RoomShape, TypeOK, ActorsOK, Dispatcher, Actor, Service
<1>3. /\ \A b \in Actor : b # a => pc'[b] = pc[b] /\ room'[b] = room[b]
      /\ pc'[a] # "lease"
  BY <1>2 DEF DispatchLease, LeaveDispatch, CloseTask, TypeOK, ActorsOK
<1>4. RoomShape'
  BY <1>3 DEF BudgetInv, RoomShape, Dispatcher, Actor, Service
<1>5. Slots' \subseteq Slots /\ Own \subseteq Slots /\ Slots' \cap Own = {}
  BY <1>1, <1>2, <1>3 DEF Slots, Dispatcher, Actor, Service
<1>6. Active' = Active \cup taken
  <2>1. /\ taken \subseteq Shard
        /\ status' = [s \in Shard |-> IF s \in taken THEN "leased" ELSE status[s]]
    BY DEF DispatchLease, FirstOf, Ready
  <2> HIDE DEF taken
  <2> QED
    BY <2>1 DEF Active
<1>7. IsFiniteSet(taken) /\ Cardinality(taken) <= room[a] /\ Cardinality(taken) \in Nat
  <2>1. Ready \in SUBSET Shard
    BY DEF Ready
  <2> QED
    BY <1>2, <2>1, FirstAtMost, FS_CardinalityType
<1> HIDE DEF taken
<1>8. /\ IsFiniteSet(Active \cup taken)
      /\ Cardinality(Active \cup taken) <= Cardinality(Active) + room[a]
  <2>1. Cardinality(Active \cap taken) \in Nat
    BY <1>1, <1>7, FS_Intersection, FS_CardinalityType
  <2>2. /\ IsFiniteSet(Active \cup taken)
        /\ Cardinality(Active \cup taken)
             = Cardinality(Active) + Cardinality(taken) - Cardinality(Active \cap taken)
    BY <1>1, <1>7, FS_Union
  <2> QED
    BY <1>1, <1>2, <1>7, <2>1, <2>2
<1>9. Cardinality(Slots') + room[a] <= Cardinality(Slots) /\ Cardinality(Slots') \in Nat
  <2>1. IsFiniteSet(Own) /\ Cardinality(Own) = room[a]
    BY <1>2, SlotsOfOne
  <2>2. IsFiniteSet(Slots') /\ Cardinality(Slots') \in Nat
    BY <1>1, <1>5, FS_Subset, FS_CardinalityType
  <2> HIDE DEF Own
  <2>3. Cardinality(Slots' \cup Own) = Cardinality(Slots') + Cardinality(Own)
    <3>1. /\ IsFiniteSet(Slots' \cup Own)
          /\ Cardinality(Slots' \cup Own)
               = Cardinality(Slots') + Cardinality(Own) - Cardinality(Slots' \cap Own)
      BY <2>1, <2>2, FS_Union
    <3>2. Cardinality(Slots' \cap Own) = 0
      BY <1>5, FS_EmptySet
    <3> QED
      BY <1>2, <2>1, <2>2, <3>1, <3>2
  <2>4. Cardinality(Slots' \cup Own) <= Cardinality(Slots)
    BY <1>1, <1>5, FS_Subset
  <2> QED
    BY <2>1, <2>2, <2>3, <2>4
<1>10. Cardinality(Active \cup taken) \in Nat
  BY <1>8, FS_CardinalityType
<1>11. MaxConcurrent * Cardinality(Dispatcher) \in Nat
  BY <1>1
<1>12. Cardinality(Active') + Cardinality(Slots') <= MaxConcurrent * Cardinality(Dispatcher)
  BY <1>1, <1>2, <1>6, <1>8, <1>9, <1>10, <1>11 DEF BudgetInv
<1> QED
  BY <1>4, <1>12 DEF BudgetInv, Dispatcher

\* Slots that are left stay within the budget.
LEMMA LeavingKeepsBudget ==
  ASSUME TypeOK, IsFiniteSet(Worker), BudgetInv, Leaving
  PROVE  BudgetInv'
<1>1. /\ Cardinality(Dispatcher) \in Nat /\ MaxConcurrent \in Nat
      /\ IsFiniteSet(Slots) /\ Cardinality(Slots) \in Nat
      /\ IsFiniteSet(Active) /\ Cardinality(Active) \in Nat
  BY SlotsFinite, SettingsAssumption
<1>2. RoomShape'
  BY DEF BudgetInv, RoomShape, Leaving
<1>3. Active' \subseteq Active /\ Slots' \subseteq Slots
  <2>1. Active' \subseteq Active
    BY DEF Leaving, Active
  <2>2. Slots' \subseteq Slots
    BY DEF Leaving, Slots, Dispatcher, Actor, Service
  <2> QED
    BY <2>1, <2>2
<1>4. /\ Cardinality(Active') <= Cardinality(Active) /\ Cardinality(Active') \in Nat
      /\ Cardinality(Slots') <= Cardinality(Slots) /\ Cardinality(Slots') \in Nat
  BY <1>1, <1>3, FS_Subset, FS_CardinalityType
<1>5. MaxConcurrent * Cardinality(Dispatcher) \in Nat
  BY <1>1
<1>6. Cardinality(Active') + Cardinality(Slots') <= MaxConcurrent * Cardinality(Dispatcher)
  BY <1>1, <1>4, <1>5 DEF BudgetInv
<1> QED
  BY <1>2, <1>6 DEF BudgetInv, Dispatcher

\* Dispatches that overlap may exceed max_concurrent_shards (BoundedConcurrency is
\* violated): each counts the active shards before another has leased.  But all
\* of them together take no more than max_concurrent_shards each, for any number
\* of workers and shards and any disturbances (dispatch_available_shards).
THEOREM DispatchesShareABudget ==
  ASSUME IsFiniteSet(Worker)
  PROVE  Spec => []DispatchBudget
<1>1. Init => BudgetInv
  <2> SUFFICES ASSUME Init PROVE BudgetInv
    OBVIOUS
  <2>1. Active = {} /\ Slots = {} /\ RoomShape
    BY DEF Init, Active, Slots, RoomShape, Dispatcher, Actor, Service
  <2>2. Cardinality(Active) = 0 /\ Cardinality(Slots) = 0
    BY <2>1, FS_EmptySet
  <2>3. MaxConcurrent * Cardinality(Dispatcher) \in Nat
    BY SlotsFinite, SettingsAssumption
  <2> QED
    BY <2>1, <2>2, <2>3 DEF BudgetInv
<1>2. TypeOK /\ BudgetInv /\ [Next]_vars => BudgetInv'
  BY SlotKinds, CountKeepsBudget, LeaseKeepsBudget, LeavingKeepsBudget DEF Taking
<1>3. BudgetInv => DispatchBudget
  <2>1. /\ Cardinality(Active) \in Nat /\ Cardinality(Slots) \in Nat
        /\ MaxConcurrent * Cardinality(Dispatcher) \in Nat
    BY SlotsFinite, SettingsAssumption
  <2> QED
    BY <2>1 DEF BudgetInv, DispatchBudget
<1> QED
  BY <1>1, <1>2, <1>3, TypeCorrect, PTL DEF Spec

=============================================================================
