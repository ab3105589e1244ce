-------------------------- MODULE ScanRunCoverage --------------------------
(***************************************************************************)
(* What a finished run stands for, proved of ScanRun for any number of     *)
(* shards and workers and any limits: a missing service is closed only if  *)
(* every shard that could observe it stored its own results, and a         *)
(* finished run stays finished.                                            *)
(*                                                                         *)
(* A worker that is late but alive goes on under the next execution, so    *)
(* these hold when the service starts again, tasks are delivered twice and *)
(* workers die, but no lease runs out under a worker that lives: Punctual. *)
(* Then whoever executes a shard holds its present token, a shard that is  *)
(* recovered had stored nothing, and an artifact stands for the results    *)
(* stored with it: StoreInv.                                               *)
(*                                                                         *)
(* The coverage gate also needs that nobody cancels the run between its    *)
(* count and its update: Uncancelled.  Then the last shard to end leaves   *)
(* the rest as it found them until its commit, and a run that has ended    *)
(* has every shard ended: RunInv.                                          *)
(***************************************************************************)
EXTENDS ScanRunProofs

-----------------------------------------------------------------------------
\* No lease runs out and no heartbeat is held up while its worker lives.
Punctual == Disturbances \cap {"pause", "late"} = {}

\* Nobody executes the shard, under whatever token.
Abandoned(s) == \A w \in Worker : Executing(w) => job[w].shard # s

\* The recovery has listed the shard, or may at its next query.
Overdue(s) == expired[s] \/ s \in selected["scheduler"]

\* Whoever executes a shard holds its present token: no worker is superseded.
NotSuperseded ==
  \A w \in Worker : Executing(w) =>
    /\ job[w].token = leaseToken[job[w].shard]
    /\ status[job[w].shard] \in {"running", "cancelled"}

\* Only a shard that lost its worker, before it stored anything, is recovered.
OverdueIsLost ==
  \A s \in Shard : Overdue(s) =>
    /\ Abandoned(s)
    /\ status[s] \in {"running", "cancelled"}
    /\ artifact[s] = 0

\* An artifact stands for the results stored with it, on a shard nobody executes.
ArtifactStored ==
  \A s \in Shard : artifact[s] # 0 =>
    /\ Abandoned(s)
    /\ status[s] \in {"completed", "cancelled"}
    /\ results[s] = {artifact[s]}

StoreInv == NotSuperseded /\ OverdueIsLost /\ ArtifactStored

-----------------------------------------------------------------------------
\* A step that stores no artifact, changes neither run nor inventory, and lists
\* no other shard for recovery.
Plain ==
  /\ artifact' = artifact
  /\ UNCHANGED runVars
  /\ \A s \in Shard : Overdue(s)' => Overdue(s)

Storing ==
  \/ \E w \in Worker : StartRun(w) \/ FinishCommit(w)
  \/ ReconcileCommit \/ CancelCommit
  \/ \E s \in Shard : OrphanExpires(s)

\* Five actions store; every other step is plain: one proof step per action.
LEMMA StoreKinds ==
  ASSUME TypeOK, Punctual, [Next]_vars
  PROVE  Plain \/ Storing
<1>1. ASSUME NEW a \in Actor, DispatchNothing(a) PROVE Plain \/ Storing
  BY <1>1
     DEF DispatchNothing, Plain, Overdue, leaseVars, rowVars, callVars
<1>2. ASSUME NEW a \in Actor, DispatchCount(a) PROVE Plain \/ Storing
  BY <1>2
     DEF DispatchCount, Plain, Overdue, leaseVars, rowVars, callVars
<1>3. ASSUME NEW a \in Actor, DispatchLease(a) PROVE Plain \/ Storing
  BY <1>3
     DEF DispatchLease, Plain, Overdue, rowVars, callVars, TypeOK, DatabaseOK
<1>4. ASSUME NEW m \in outbox, Publish(m) PROVE Plain \/ Storing
  BY <1>4
     DEF Publish, Plain, Overdue, leaseVars, rowVars, callVars
<1>5. ASSUME NEW m \in outbox, PublishUnmarked(m) PROVE Plain \/ Storing
  BY <1>5
     DEF PublishUnmarked, Plain, Overdue, leaseVars, rowVars, callVars
<1>6. ASSUME NEW w \in Worker, NEW m \in broker, ClaimLease(w, m) PROVE Plain \/ Storing
  BY <1>6
     DEF ClaimLease, Plain, Overdue, rowVars, callVars, TypeOK, DatabaseOK, TasksOK, Message
<1>7. ASSUME NEW w \in Worker, NEW m \in broker, DiscardTask(w, m) PROVE Plain \/ Storing
  BY <1>7
     DEF DiscardTask, Plain, Overdue, leaseVars, rowVars, callVars
<1>8. ASSUME NEW w \in Worker, LoadRun(w) PROVE Plain \/ Storing
  BY <1>8
     DEF LoadRun, Plain, Overdue, leaseVars, rowVars, callVars
<1>9. ASSUME NEW w \in Worker, LoadCancelledRun(w) PROVE Plain \/ Storing
  BY <1>9
     DEF LoadCancelledRun, Plain, Overdue, rowVars, callVars, TypeOK, DatabaseOK
<1>10. ASSUME NEW w \in Worker, StartRun(w) PROVE Plain \/ Storing
  BY <1>10 DEF Storing
<1>11. ASSUME NEW w \in Worker, CheckLease(w) PROVE Plain \/ Storing
  BY <1>11
     DEF CheckLease, Plain, Overdue, leaseVars, rowVars, callVars
<1>12. ASSUME NEW w \in Worker, Heartbeat(w) PROVE Plain \/ Storing
  BY <1>12
     DEF Heartbeat, Plain, Overdue, rowVars, callVars, TypeOK, DatabaseOK
<1>13. ASSUME NEW w \in Worker, Superseded(w) PROVE Plain \/ Storing
  BY <1>13
     DEF Superseded, Plain, Overdue, leaseVars, rowVars, callVars
<1>14. ASSUME NEW w \in Worker, MasscanFound(w) PROVE Plain \/ Storing
  BY <1>14
     DEF MasscanFound, Plain, Overdue, leaseVars, rowVars, callVars
<1>15. ASSUME NEW w \in Worker, MasscanEmpty(w) PROVE Plain \/ Storing
  BY <1>15 DEF MasscanEmpty, FinishLease, Plain, Overdue, leaseVars, rowVars, callVars
<1>16. ASSUME NEW w \in Worker, NmapDone(w) PROVE Plain \/ Storing
  BY <1>16 DEF NmapDone, FinishLease, Plain, Overdue, leaseVars, rowVars, callVars
<1>17. ASSUME NEW w \in Worker, ScanFails(w) PROVE Plain \/ Storing
  BY <1>17 DEF ScanFails, FinishLease, Plain, Overdue, leaseVars, rowVars, callVars
<1>18. ASSUME NEW w \in Worker, ScanCancelled(w) PROVE Plain \/ Storing
  BY <1>18 DEF ScanCancelled, FinishLease, Plain, Overdue, leaseVars, rowVars, callVars
<1>19. ASSUME NEW w \in Worker, FinishCommit(w) PROVE Plain \/ Storing
  BY <1>19 DEF Storing
<1>20. ASSUME NEW w \in Worker, DuplicateCandidate(w) PROVE Plain \/ Storing
  BY <1>20
     DEF DuplicateCandidate, Plain, Overdue, leaseVars, rowVars, callVars
<1>21. ASSUME RecoverSelect PROVE Plain \/ Storing
  BY <1>21
     DEF RecoverSelect, Plain, Overdue, Stale, Active, leaseVars, rowVars, TypeOK,
          ActorsOK,
              Service
<1>22. ASSUME RecoverCommit PROVE Plain \/ Storing
  BY <1>22
     DEF RecoverCommit, Plain, Overdue, leaseVars, rowVars, TypeOK, DatabaseOK,
         ActorsOK, Service, Disturb
<1>23. ASSUME ReconcileRead PROVE Plain \/ Storing
  BY <1>23
     DEF ReconcileRead, Plain, Overdue, leaseVars, rowVars, callVars
<1>24. ASSUME ReconcileCommit PROVE Plain \/ Storing
  BY <1>24 DEF Storing
<1>25. ASSUME DispatchReady PROVE Plain \/ Storing
  BY <1>25
     DEF DispatchReady, Plain, Overdue, leaseVars, rowVars, callVars
<1>26. ASSUME CancelRead PROVE Plain \/ Storing
  BY <1>26
     DEF CancelRead, Plain, Overdue, leaseVars, rowVars, TypeOK, DatabaseOK, ActorsOK,
         Service, Disturb
<1>27. ASSUME CancelCommit PROVE Plain \/ Storing
  BY <1>27 DEF Storing
<1>28. ASSUME NEW w \in Worker, CrashWorker(w) PROVE Plain \/ Storing
  BY <1>28
     DEF CrashWorker, Plain, Overdue, leaseVars, rowVars, callVars
<1>29. ASSUME NEW a \in {"api", "scheduler"}, RestartService(a) PROVE Plain \/ Storing
  BY <1>29
     DEF RestartService, Plain, Overdue, leaseVars, rowVars, TypeOK, DatabaseOK,
         ActorsOK, Service, Disturb
<1>30. ASSUME NEW s \in Shard, LeaseExpires(s) PROVE Plain \/ Storing
  BY <1>30 DEF LeaseExpires, Disturb, Punctual
<1>31. ASSUME NEW s \in Shard, HeartbeatLate(s) PROVE Plain \/ Storing
  BY <1>31 DEF HeartbeatLate, Disturb, Punctual
<1>32. ASSUME NEW s \in Shard, OrphanExpires(s) PROVE Plain \/ Storing
  BY <1>32 DEF Storing
<1>33. ASSUME NEW s \in Shard, BackoffElapses(s) PROVE Plain \/ Storing
  BY <1>33
     DEF BackoffElapses, Plain, Overdue, leaseVars, rowVars, callVars
<1>34. ASSUME UNCHANGED vars PROVE Plain \/ Storing
  BY <1>34
     DEF vars, leaseVars, rowVars, queueVars, taskVars, callVars, runVars, Plain,
         Overdue
<1> QED
  BY <1>1, <1>2, <1>3, <1>4, <1>5, <1>6, <1>7, <1>8, <1>9, <1>10, <1>11, <1>12, <1>13,
     <1>14, <1>15, <1>16, <1>17, <1>18, <1>19, <1>20, <1>21, <1>22, <1>23, <1>24,
     <1>25, <1>26, <1>27, <1>28, <1>29, <1>30, <1>31, <1>32, <1>33, <1>34
     DEF Next, WorkerStep, Take, Execute, ScanEnds, Dispatch, Actor, Service

\* Only a commit writes an artifact.
LEMMA ArtifactKept ==
  ASSUME TypeOK, Punctual, [Next]_vars
  PROVE  artifact' = artifact \/ \E w \in Worker : FinishCommit(w)
  BY StoreKinds
     DEF Plain, Storing, StartRun, ReconcileCommit, CancelCommit, OrphanExpires, rowVars

-----------------------------------------------------------------------------
\* A worker that executes has a task.
LEMMA ExecutorHasTask ==
  ASSUME TypeOK, NEW w \in Worker, Executing(w)
  PROVE  job[w] \in Message /\ job[w].shard \in Shard
  BY DEF TypeOK, TasksOK, ActorsOK, PlacesOK, Executing, Actor, Message

\* With no worker superseded, a shard is executed by one worker at most.
LEMMA OneExecutor ==
  ASSUME IInv, NotSuperseded, NEW v \in Worker, NEW w \in Worker,
         Executing(v), Executing(w), job[v].shard = job[w].shard
  PROVE  v = w
<1>1. job[v] \in Message /\ job[w] \in Message
  BY ExecutorHasTask DEF IInv
<1>2. job[v] = job[w]
  BY <1>1 DEF NotSuperseded, Message
<1> QED
  BY <1>2 DEF IInv, SingleExecutor

\* A worker that commits executes the shard it owns, past the start of its scan.
LEMMA Committer ==
  ASSUME IInv, NEW w \in Worker, FinishCommit(w)
  PROVE  Executing(w) /\ Started(w) /\ Owns(w) /\ job[w].shard \in Shard
<1>1. Executing(w) /\ Started(w) /\ Owns(w)
  BY DEF FinishCommit, IInv, CommitOwns, TypeOK, PlacesOK, Started, Executing
<1> QED
  BY <1>1 DEF Owns

\* Only a claim has a shard executed that nobody executed before.
LEMMA AbandonedKept ==
  ASSUME IInv, [Next]_vars, NEW s \in Shard, Abandoned(s), status[s] # "leased"
  PROVE  Abandoned(s)'
<1>1. TypeOK
  BY DEF IInv
<1> SUFFICES ASSUME NEW w \in Worker, Executing(w)', job'[w].shard = s PROVE FALSE
  BY DEF Abandoned, Executing
<1>2. CASE AllKept
  BY <1>2 DEF AllKept, Kept, Abandoned
<1>3. ASSUME NEW v \in Worker, NEW m \in broker, ClaimLease(v, m) PROVE FALSE
  <2>1. m.shard # s
    BY <1>3 DEF ClaimLease, Claimable
  <2>2. w # v
    BY <1>1, <1>3, <2>1 DEF ClaimLease, TypeOK, TasksOK
  <2>3. Executing(w) /\ job'[w] = job[w]
    BY <1>1, <1>3, <2>2 DEF ClaimLease, Executing, TypeOK, TasksOK
  <2> QED
    BY <2>3 DEF Abandoned
<1>4. ASSUME NEW v \in Worker, StartRun(v) PROVE FALSE
  BY <1>4 DEF StartRun, Abandoned, Executing
<1> QED
  BY <1>1, <1>2, <1>3, <1>4, TasksKept

\* A shard that nobody executes, and that neither waits nor is recovered, keeps
\* what is stored for it and can only be cancelled.
LEMMA LeftAlone ==
  ASSUME IInv, Punctual, [Next]_vars, NEW s \in Shard, Abandoned(s),
         status[s] \notin {"queued", "leased"},
         ~ (RecoverCommit /\ s \in selected["scheduler"])
  PROVE  /\ Abandoned(s)'
         /\ artifact'[s] = artifact[s] /\ results'[s] = results[s]
         /\ status'[s] = status[s] \/ status'[s] = "cancelled"
         /\ leaseToken'[s] = leaseToken[s]
<1>1. TypeOK
  BY DEF IInv
<1>2. Abandoned(s)'
  BY AbandonedKept
<1>3. \A w \in Worker : FinishCommit(w) => job[w].shard # s
  BY Committer DEF Abandoned
<1>4. artifact'[s] = artifact[s]
  BY <1>1, <1>3, ArtifactKept DEF FinishCommit, TypeOK, DatabaseOK
<1>5. ASSUME NEW w \in Worker, StartRun(w) PROVE job[w].shard # s
  BY <1>1, <1>5 DEF StartRun, TypeOK, PlacesOK, Abandoned, Executing
<1> DEFINE Same == /\ results'[s] = results[s]
                   /\ status'[s] = status[s] \/ status'[s] = "cancelled"
                   /\ leaseToken'[s] = leaseToken[s]
<1>6. ASSUME Quiet PROVE Same
  BY <1>6 DEF Quiet
<1>7. ASSUME NEW a \in Actor, DispatchLease(a) PROVE Same
  BY <1>7 DEF DispatchLease, FirstOf, Ready, rowVars
<1>8. ASSUME NEW w \in Worker, NEW m \in broker, ClaimLease(w, m) PROVE Same
  BY <1>1, <1>8 DEF ClaimLease, Claimable, rowVars, TypeOK, DatabaseOK
<1>9. ASSUME NEW w \in Worker, LoadCancelledRun(w) PROVE Same
  BY <1>1, <1>9 DEF LoadCancelledRun, rowVars, TypeOK, DatabaseOK
<1>10. ASSUME NEW w \in Worker, StartRun(w) PROVE Same
  BY <1>1, <1>5, <1>10 DEF StartRun, leaseVars, TypeOK, DatabaseOK
<1>11. ASSUME NEW w \in Worker, FinishCommit(w) PROVE Same
  BY <1>1, <1>3, <1>11 DEF FinishCommit, TypeOK, DatabaseOK
<1>12. ASSUME RecoverCommit PROVE Same
  BY <1>12 DEF RecoverCommit, rowVars
<1>13. ASSUME CancelCommit PROVE Same
  BY <1>13 DEF CancelCommit, rowVars
<1>14. Same
  BY <1>1, <1>6, <1>7, <1>8, <1>9, <1>10, <1>11, <1>12, <1>13, StepKinds DEF Loud, Quiet
<1> QED
  BY <1>2, <1>4, <1>14

-----------------------------------------------------------------------------
\* A token changes, or a shard is given up, only when nobody executes it.
LEMMA NotSupersededStep ==
  ASSUME IInv, StoreInv, [Next]_vars
  PROVE  NotSuperseded'
<1>1. TypeOK /\ NotSuperseded /\ OverdueIsLost
  BY DEF IInv, StoreInv
<1> SUFFICES ASSUME NEW w \in Worker, Executing(w)'
             PROVE  /\ job'[w].token = leaseToken'[job'[w].shard]
                    /\ status'[job'[w].shard] \in {"running", "cancelled"}
  BY DEF NotSuperseded, Executing
<1> DEFINE s == job[w].shard
           Same == /\ leaseToken'[s] = leaseToken[s]
                   /\ status'[s] = status[s] \/ status'[s] = "cancelled"
<1>2. CASE Executing(w) /\ job'[w] = job[w]
  <2>1. /\ job[w].token = leaseToken[s]
        /\ s \in Shard /\ status[s] \in {"running", "cancelled"}
    BY <1>1, <1>2, ExecutorHasTask DEF NotSuperseded
  <2>2. ASSUME Quiet PROVE Same
    BY <2>2 DEF Quiet
  <2>3. ASSUME NEW a \in Actor, DispatchLease(a) PROVE Same
    BY <2>1, <2>3 DEF DispatchLease, FirstOf, Ready
  <2>4. ASSUME NEW v \in Worker, NEW m \in broker, ClaimLease(v, m) PROVE Same
    BY <1>1, <2>1, <2>4 DEF ClaimLease, Claimable, TypeOK, DatabaseOK
  <2>5. ASSUME NEW v \in Worker, LoadCancelledRun(v) PROVE Same
    BY <1>1, <2>1, <2>5 DEF LoadCancelledRun, TypeOK, DatabaseOK
  <2>6. ASSUME NEW v \in Worker, StartRun(v) PROVE Same
    BY <2>6 DEF StartRun, leaseVars
  <2>7. ASSUME NEW v \in Worker, FinishCommit(v) PROVE Same
    <3>1. w # v
      BY <1>1, <2>7 DEF FinishCommit, Executing, TypeOK, TasksOK
    <3>2. job[v].shard # s
      BY <1>1, <1>2, <2>7, <3>1, Committer, OneExecutor
    <3> QED
      BY <1>1, <2>1, <2>7, <3>2 DEF FinishCommit, TypeOK, DatabaseOK
  <2>8. ASSUME RecoverCommit PROVE Same
    <3>1. s \notin selected["scheduler"]
      BY <1>1, <1>2, <2>1 DEF OverdueIsLost, Overdue, Abandoned
    <3> QED
      BY <2>1, <2>8, <3>1 DEF RecoverCommit
  <2>9. ASSUME CancelCommit PROVE Same
    BY <2>1, <2>9 DEF CancelCommit
  <2>10. Same
    BY <1>1, <2>2, <2>3, <2>4, <2>5, <2>6, <2>7, <2>8, <2>9, StepKinds DEF Loud, Quiet
  <2> QED
    BY <1>2, <2>1, <2>10
<1>3. ASSUME NEW v \in Worker, NEW m \in broker, ClaimLease(v, m), v = w
      PROVE  /\ job'[w].token = leaseToken'[job'[w].shard]
             /\ status'[job'[w].shard] \in {"running", "cancelled"}
  <2>1. job'[w] = m /\ m.shard \in Shard /\ leaseToken' = leaseToken
    BY <1>1, <1>3 DEF ClaimLease, TypeOK, TasksOK, Message
  <2> QED
    BY <1>1, <1>3, <2>1 DEF ClaimLease, Claimable, TypeOK, DatabaseOK
<1>4. ASSUME NEW v \in Worker, NEW m \in broker, ClaimLease(v, m), v # w
      PROVE  Executing(w) /\ job'[w] = job[w]
  BY <1>1, <1>4 DEF ClaimLease, Executing, TypeOK, TasksOK
<1>5. ASSUME NEW v \in Worker, StartRun(v) PROVE Executing(w) /\ job'[w] = job[w]
  BY <1>5 DEF StartRun, Executing
<1>6. CASE AllKept
  BY <1>2, <1>6 DEF AllKept, Kept
<1> QED
  BY <1>1, <1>2, <1>3, <1>4, <1>5, <1>6, TasksKept

\* A shard is listed for recovery when its worker is gone; until the recovery
\* nobody else takes it.
LEMMA OverdueIsLostStep ==
  ASSUME IInv, StoreInv, Punctual, [Next]_vars
  PROVE  OverdueIsLost'
<1>1. TypeOK /\ NotSuperseded /\ OverdueIsLost /\ ArtifactStored
  BY DEF IInv, StoreInv
<1> SUFFICES ASSUME NEW s \in Shard, Overdue(s)'
             PROVE  /\ Abandoned(s)'
                    /\ status'[s] \in {"running", "cancelled"}
                    /\ artifact'[s] = 0
  BY DEF OverdueIsLost
<1>2. ~ (RecoverCommit /\ s \in selected["scheduler"])
  BY <1>1 DEF RecoverCommit, Overdue, TypeOK, ActorsOK, Service
<1>3. /\ Abandoned(s)
      /\ status[s] \in {"running", "cancelled"}
      /\ artifact[s] = 0
  <2>1. CASE Overdue(s)
    BY <1>1, <2>1 DEF OverdueIsLost
  <2>2. CASE OrphanExpires(s)
    <3>1. status[s] = "running" /\ Orphan(s)
      BY <2>2 DEF OrphanExpires
    <3>2. ASSUME NEW w \in Worker, Executing(w), job[w].shard = s PROVE FALSE
      <4>1. job[w] \in Message /\ job[w].token = leaseToken[s]
        BY <1>1, <3>2, ExecutorHasTask DEF NotSuperseded
      <4> QED
        BY <3>1, <3>2, <4>1 DEF Orphan, Message
    <3> QED
      BY <1>1, <3>1, <3>2 DEF Abandoned, ArtifactStored
  <2>3. Overdue(s) \/ OrphanExpires(s)
    <3>1. CASE Plain
      BY <3>1 DEF Plain
    <3>2. ASSUME NEW r \in Shard, OrphanExpires(r) PROVE Overdue(s) \/ OrphanExpires(s)
      <4>1. CASE r = s
        BY <3>2, <4>1
      <4>2. CASE r # s
        BY <1>1, <3>2, <4>2 DEF OrphanExpires, Overdue, callVars, TypeOK, DatabaseOK
      <4> QED
        BY <4>1, <4>2
    <3>3. ASSUME NEW w \in Worker, StartRun(w) PROVE Overdue(s)
      BY <3>3 DEF StartRun, Overdue, leaseVars, callVars
    <3>4. ASSUME NEW w \in Worker, FinishCommit(w) PROVE Overdue(s)
      BY <1>1, <3>4 DEF FinishCommit, Overdue, callVars, TypeOK, DatabaseOK
    <3>5. CASE ReconcileCommit
      BY <3>5 DEF ReconcileCommit, Overdue, leaseVars, callVars
    <3>6. CASE CancelCommit
      BY <1>1, <3>6 DEF CancelCommit, Overdue, TypeOK, ActorsOK, Service
    <3> QED
      BY <1>1, <3>1, <3>2, <3>3, <3>4, <3>5, <3>6, StoreKinds DEF Storing
  <2> QED
    BY <2>1, <2>2, <2>3
<1> QED
  BY <1>2, <1>3, LeftAlone

\* The committer of an artifact starts from cleared results, is alone on its
\* shard, and leaves it; nothing is recovered, cleared or executed after that.
LEMMA ArtifactStoredStep ==
  ASSUME IInv, StoreInv, Punctual, [Next]_vars
  PROVE  ArtifactStored'
<1>1. TypeOK /\ NotSuperseded /\ OverdueIsLost /\ ArtifactStored
  BY DEF IInv, StoreInv
<1> SUFFICES ASSUME NEW s \in Shard, artifact'[s] # 0
             PROVE  /\ Abandoned(s)'
                    /\ status'[s] \in {"completed", "cancelled"}
                    /\ results'[s] = {artifact'[s]}
  BY DEF ArtifactStored
<1>2. CASE artifact[s] # 0
  <2>1. /\ Abandoned(s)
        /\ status[s] \in {"completed", "cancelled"}
        /\ results[s] = {artifact[s]}
    BY <1>1, <1>2 DEF ArtifactStored
  <2>2. s \notin selected["scheduler"]
    BY <1>1, <1>2 DEF OverdueIsLost, Overdue
  <2> QED
    BY <2>1, <2>2, LeftAlone
<1>3. ASSUME NEW v \in Worker, FinishCommit(v), artifact[s] = 0
      PROVE  /\ Abandoned(s)'
             /\ status'[s] \in {"completed", "cancelled"}
             /\ results'[s] = {artifact'[s]}
  <2>1. Executing(v) /\ Started(v) /\ Owns(v) /\ job[v].shard \in Shard
    BY <1>3, Committer
  <2>2. /\ s = job[v].shard
        /\ verdict[v] = "completed" /\ "results" \in pending[v]
        /\ artifact'[s] = job[v].token
    BY <1>1, <1>3, <2>1 DEF FinishCommit, TypeOK, DatabaseOK
  <2>3. results[s] = {}
    BY <2>1, <2>2 DEF IInv, CleanStart
  <2>4. results'[s] = {artifact'[s]} /\ status'[s] = "completed"
    BY <1>1, <1>3, <2>2, <2>3 DEF FinishCommit, TypeOK, DatabaseOK
  <2>5. ASSUME NEW w \in Worker, Executing(w)' PROVE job'[w].shard # s
    <3>1. w # v /\ Executing(w) /\ job'[w] = job[w]
      BY <1>1, <1>3, <2>5 DEF FinishCommit, Executing, TypeOK, TasksOK
    <3> QED
      BY <1>1, <2>1, <2>2, <3>1, OneExecutor
  <2> QED
    BY <2>4, <2>5 DEF Abandoned, Executing
<1> QED
  BY <1>1, <1>2, <1>3, ArtifactKept

-----------------------------------------------------------------------------
\* While no live worker is taken for lost, no worker is superseded, what is
\* recovered had stored nothing, and an artifact is never parted from its results.
THEOREM StoreInvariance ==
  ASSUME Punctual
  PROVE  Spec => []StoreInv
<1>1. Init => StoreInv
  BY DEF Init, StoreInv, NotSuperseded, OverdueIsLost, ArtifactStored, Abandoned,
         Overdue, Executing, Service
<1>2. IInv /\ StoreInv /\ [Next]_vars => StoreInv'
  BY NotSupersededStep, OverdueIsLostStep, ArtifactStoredStep DEF StoreInv
<1> QED
  BY <1>1, <1>2, Invariance, PTL DEF Spec

\* Discovered services that were not confirmed are never read as closed: an
\* inventory is replaced only by a run each of whose shards with stored candidates
\* has stored confirmed results (finalize_terminal_run, incomplete_discovery_shards).
THEOREM GapsKeepTheInventory ==
  ASSUME Punctual
  PROVE  Spec => NoGapReadAsClosed
<1>1. ASSUME IInv, StoreInv, [Next]_vars, inventory' # inventory,
             NEW s \in Shard, candidates'[s] # {}
      PROVE  results'[s] # {}
  <2>1. Covered
    BY <1>1, StoreKinds
       DEF Plain, Storing, runVars, StartRun, FinishCommit, ReconcileCommit,
           CancelCommit, OrphanExpires, Finalize, IInv
  <2>2. ArtifactStored'
    BY <1>1, ArtifactStoredStep
  <2> QED
    BY <1>1, <2>1, <2>2 DEF Covered, ArtifactStored
<1>2. IInv /\ StoreInv /\ [Next]_vars =>
        [inventory' # inventory =>
           \A s \in Shard : candidates'[s] # {} => results'[s] # {}]_vars
  BY <1>1
<1> QED
  BY <1>2, Invariance, StoreInvariance, PTL DEF Spec, NoGapReadAsClosed

-----------------------------------------------------------------------------
\* No operator cancels the run.
Uncancelled == "cancel" \notin Disturbances

NeverCancelled ==
  /\ runStatus # "cancelled"
  /\ \A s \in Shard : status[s] # "cancelled"
  /\ \A w \in Worker : seenRun[w] # "cancelled" /\ verdict[w] # "cancelled"
  /\ pc["operator"] # "cancel"

\* Who finalizes at its commit finishes the last shard: the others stay terminal
\* while its transaction is open.
LastToFinish ==
  \A w \in Worker : pc[w] = "commit" /\ final[w] =>
    /\ verdict[w] \in TERMINAL_SHARD_STATUSES
    /\ OthersTerminal(job[w].shard)

\* A finished run has no shard left to work on, and the status of its shards.
FinishedIsOver ==
  runStatus \in FinishedRun =>
    /\ \A s \in Shard : status[s] \in TERMINAL_SHARD_STATUSES
    /\ runStatus = IF \E s \in Shard : status[s] \in {"failed", "dead_letter"}
                   THEN "failed" ELSE "completed"

\* A shard completed without an artifact shows no service.
NothingShown ==
  \A s \in Shard : status[s] = "completed" /\ artifact[s] = 0 => results[s] = {}

RunInv == /\ NeverCancelled /\ LastToFinish /\ FinishedIsOver /\ NothingShown
          /\ CompleteCoverage

-----------------------------------------------------------------------------
\* A closed session knows of no cancelled run.
LEMMA CloseTaskNotCancelled ==
  ASSUME TypeOK, NEW w \in Worker, CloseTask(w)
  PROVE  /\ \A v \in Worker : /\ seenRun'[v] \in {seenRun[v], "queued"}
                              /\ verdict'[v] \in {verdict[v], "queued"}
         /\ pc'["operator"] = pc["operator"]
  BY WorkerAssumption DEF CloseTask, TypeOK, TasksOK, ActorsOK, Actor, Service

\* Nor does one that has left a dispatch.
LEMMA LeaveDispatchNotCancelled ==
  ASSUME TypeOK, NEW a \in Actor, LeaveDispatch(a)
  PROVE  /\ \A v \in Worker : /\ seenRun'[v] \in {seenRun[v], "queued"}
                              /\ verdict'[v] \in {verdict[v], "queued"}
         /\ pc'["operator"] # "cancel" \/ pc'["operator"] = pc["operator"]
<1>1. CASE a \in Worker /\ stage[a] # "end"
  BY <1>1 DEF LeaveDispatch, TypeOK, ActorsOK, Actor, Service, taskVars
<1>2. CASE a \in Worker /\ stage[a] = "end"
  BY <1>2, CloseTaskNotCancelled DEF LeaveDispatch
<1>3. CASE a \notin Worker
  BY <1>3 DEF LeaveDispatch, TypeOK, ActorsOK, Actor, Service, taskVars
<1> QED
  BY <1>1, <1>2, <1>3

\* Nothing but an operator cancels: a worker passes on what it was told.
LEMMA NeverCancelledStep ==
  ASSUME TypeOK, NeverCancelled, Uncancelled, [Next]_vars
  PROVE  NeverCancelled'
<1>1. ASSUME NEW a \in Actor, DispatchNothing(a) PROVE NeverCancelled'
  BY <1>1, LeaveDispatchNotCancelled
     DEF DispatchNothing, NeverCancelled, leaseVars, runVars, FirstOf, Ready
<1>2. ASSUME NEW a \in Actor, DispatchCount(a) PROVE NeverCancelled'
  BY <1>2, WorkerAssumption
     DEF DispatchCount, NeverCancelled, TypeOK, DatabaseOK, TasksOK, ActorsOK, Actor,
         Service, leaseVars, taskVars, runVars
<1>3. ASSUME NEW a \in Actor, DispatchLease(a) PROVE NeverCancelled'
  BY <1>3, LeaveDispatchNotCancelled
     DEF DispatchLease, NeverCancelled, leaseVars, runVars, FirstOf, Ready
<1>4. ASSUME NEW m \in outbox, Publish(m) PROVE NeverCancelled'
  BY <1>4, WorkerAssumption
     DEF Publish, NeverCancelled, TypeOK, DatabaseOK, TasksOK, ActorsOK, Actor,
         Service, leaseVars, taskVars, runVars
<1>5. ASSUME NEW m \in outbox, PublishUnmarked(m) PROVE NeverCancelled'
  BY <1>5, WorkerAssumption
     DEF PublishUnmarked, NeverCancelled, TypeOK, DatabaseOK, TasksOK, ActorsOK,
         Actor, Service, leaseVars, taskVars, runVars
<1>6. ASSUME NEW w \in Worker, NEW m \in broker, ClaimLease(w, m) PROVE NeverCancelled'
  BY <1>6, WorkerAssumption
     DEF ClaimLease, NeverCancelled, TypeOK, DatabaseOK, TasksOK, ActorsOK, Actor,
         Service, leaseVars, taskVars, runVars
<1>7. ASSUME NEW w \in Worker, NEW m \in broker, DiscardTask(w, m) PROVE NeverCancelled'
  BY <1>7, WorkerAssumption
     DEF DiscardTask, NeverCancelled, TypeOK, DatabaseOK, TasksOK, ActorsOK, Actor,
         Service, leaseVars, taskVars, runVars
<1>8. ASSUME NEW w \in Worker, LoadRun(w) PROVE NeverCancelled'
  BY <1>8, WorkerAssumption
     DEF LoadRun, NeverCancelled, TypeOK, DatabaseOK, TasksOK, ActorsOK, Actor,
         Service, leaseVars, taskVars, runVars
<1>9. ASSUME NEW w \in Worker, LoadCancelledRun(w) PROVE NeverCancelled'
  BY <1>9 DEF LoadCancelledRun, NeverCancelled
<1>10. ASSUME NEW w \in Worker, StartRun(w) PROVE NeverCancelled'
  BY <1>10, WorkerAssumption
     DEF StartRun, NeverCancelled, TypeOK, DatabaseOK, TasksOK, ActorsOK, Actor,
         Service, leaseVars, taskVars, runVars
<1>11. ASSUME NEW w \in Worker, CheckLease(w) PROVE NeverCancelled'
  BY <1>11, WorkerAssumption
     DEF CheckLease, NeverCancelled, TypeOK, DatabaseOK, TasksOK, ActorsOK, Actor,
         Service, leaseVars, taskVars, runVars
<1>12. ASSUME NEW w \in Worker, Heartbeat(w) PROVE NeverCancelled'
  BY <1>12, WorkerAssumption
     DEF Heartbeat, NeverCancelled, TypeOK, DatabaseOK, TasksOK, ActorsOK, Actor,
         Service, leaseVars, taskVars, runVars
<1>13. ASSUME NEW w \in Worker, Superseded(w) PROVE NeverCancelled'
  BY <1>13, CloseTaskNotCancelled DEF Superseded, NeverCancelled, leaseVars, runVars
<1>14. ASSUME NEW w \in Worker, MasscanFound(w) PROVE NeverCancelled'
  BY <1>14, WorkerAssumption
     DEF MasscanFound, NeverCancelled, TypeOK, DatabaseOK, TasksOK, ActorsOK, Actor,
         Service, leaseVars, taskVars, runVars
<1>15. ASSUME NEW w \in Worker, MasscanEmpty(w) PROVE NeverCancelled'
  BY <1>15, WorkerAssumption
     DEF MasscanEmpty, FinishLease, NeverCancelled, TypeOK, TasksOK, ActorsOK, Actor,
         Service,
         leaseVars, runVars
<1>16. ASSUME NEW w \in Worker, NmapDone(w) PROVE NeverCancelled'
  BY <1>16, WorkerAssumption
     DEF NmapDone, FinishLease, NeverCancelled, TypeOK, TasksOK, ActorsOK, Actor, Service,
         leaseVars, runVars
<1>17. ASSUME NEW w \in Worker, ScanFails(w) PROVE NeverCancelled'
  BY <1>17, WorkerAssumption
     DEF ScanFails, FinishLease, FailureStatus, NeverCancelled, TypeOK, TasksOK,
         ActorsOK, Actor, Service,
         leaseVars, runVars
<1>18. ASSUME NEW w \in Worker, ScanCancelled(w) PROVE NeverCancelled'
  BY <1>18 DEF ScanCancelled, NeverCancelled
<1>19. ASSUME NEW w \in Worker, FinishCommit(w) PROVE NeverCancelled'
  <2>1. /\ status' = [status EXCEPT ![job[w].shard] = verdict[w]]
        /\ pc' = [pc EXCEPT ![w] = "dispatch"]
        /\ verdict' = [verdict EXCEPT ![w] = "queued"]
        /\ IF final[w] THEN Finalize ELSE UNCHANGED runVars
        /\ seenRun' = IF final[w] THEN [seenRun EXCEPT ![w] = runStatus'] ELSE seenRun
    BY <1>19 DEF FinishCommit
  <2>2. runStatus' # "cancelled"
    BY <2>1 DEF NeverCancelled, Finalize, Outcome, runVars
  <2>3. \A v \in Worker : seenRun'[v] # "cancelled" /\ verdict'[v] # "cancelled"
    BY <2>1, <2>2 DEF NeverCancelled, TypeOK, TasksOK
  <2>4. pc'["operator"] # "cancel"
    BY <2>1 DEF NeverCancelled, TypeOK, ActorsOK, Actor, Service
  <2>5. \A s \in Shard : status'[s] # "cancelled"
    BY <2>1 DEF NeverCancelled, TypeOK, DatabaseOK
  <2> QED
    BY <2>2, <2>3, <2>4, <2>5 DEF NeverCancelled
<1>20. ASSUME NEW w \in Worker, DuplicateCandidate(w) PROVE NeverCancelled'
  BY <1>20, CloseTaskNotCancelled DEF DuplicateCandidate, NeverCancelled, leaseVars, runVars
<1>21. ASSUME RecoverSelect PROVE NeverCancelled'
  BY <1>21, WorkerAssumption
     DEF RecoverSelect, NeverCancelled, TypeOK, DatabaseOK, TasksOK, ActorsOK, Actor,
         Service, leaseVars, taskVars, runVars
<1>22. ASSUME RecoverCommit PROVE NeverCancelled'
  BY <1>22, WorkerAssumption
     DEF RecoverCommit, NeverCancelled, TypeOK, DatabaseOK, TasksOK, ActorsOK, Actor,
         Service, leaseVars, taskVars, runVars
<1>23. ASSUME ReconcileRead PROVE NeverCancelled'
  BY <1>23, WorkerAssumption
     DEF ReconcileRead, NeverCancelled, TypeOK, DatabaseOK, TasksOK, ActorsOK, Actor,
         Service, leaseVars, taskVars, runVars
<1>24. ASSUME ReconcileCommit PROVE NeverCancelled'
  BY <1>24
     DEF ReconcileCommit, NeverCancelled, Finalize, Outcome, TypeOK, ActorsOK, Actor,
         Service,
         leaseVars, taskVars, runVars
<1>25. ASSUME DispatchReady PROVE NeverCancelled'
  BY <1>25, WorkerAssumption
     DEF DispatchReady, NeverCancelled, TypeOK, DatabaseOK, TasksOK, ActorsOK, Actor,
         Service, leaseVars, taskVars, runVars
<1>26. ASSUME CancelRead PROVE NeverCancelled'
  BY <1>26 DEF CancelRead, Disturb, Uncancelled
<1>27. ASSUME CancelCommit PROVE NeverCancelled'
  BY <1>27 DEF CancelCommit, NeverCancelled
<1>28. ASSUME NEW w \in Worker, CrashWorker(w) PROVE NeverCancelled'
  BY <1>28, CloseTaskNotCancelled DEF CrashWorker, NeverCancelled, leaseVars, runVars
<1>29. ASSUME NEW a \in {"api", "scheduler"}, RestartService(a) PROVE NeverCancelled'
  BY <1>29, WorkerAssumption
     DEF RestartService, NeverCancelled, TypeOK, DatabaseOK, TasksOK, ActorsOK, Actor,
         leaseVars, taskVars, runVars
<1>30. ASSUME NEW s \in Shard, LeaseExpires(s) PROVE NeverCancelled'
  BY <1>30, WorkerAssumption
     DEF LeaseExpires, NeverCancelled, TypeOK, DatabaseOK, TasksOK, ActorsOK, Actor,
         Service, leaseVars, taskVars, runVars
<1>31. ASSUME NEW s \in Shard, HeartbeatLate(s) PROVE NeverCancelled'
  BY <1>31, WorkerAssumption
     DEF HeartbeatLate, NeverCancelled, TypeOK, DatabaseOK, TasksOK, ActorsOK, Actor,
         Service, leaseVars, taskVars, runVars
<1>32. ASSUME NEW s \in Shard, OrphanExpires(s) PROVE NeverCancelled'
  BY <1>32, WorkerAssumption
     DEF OrphanExpires, NeverCancelled, TypeOK, DatabaseOK, TasksOK, ActorsOK, Actor,
         Service, leaseVars, taskVars, runVars
<1>33. ASSUME NEW s \in Shard, BackoffElapses(s) PROVE NeverCancelled'
  BY <1>33, WorkerAssumption
     DEF BackoffElapses, NeverCancelled, TypeOK, DatabaseOK, TasksOK, ActorsOK, Actor,
         Service, leaseVars, taskVars, runVars
<1>34. ASSUME UNCHANGED vars PROVE NeverCancelled'
  BY <1>34, WorkerAssumption
     DEF vars, leaseVars, rowVars, queueVars, taskVars, callVars, runVars,
         NeverCancelled, TypeOK, DatabaseOK, TasksOK, ActorsOK, Actor,
         Service
<1> QED
  BY <1>1, <1>2, <1>3, <1>4, <1>5, <1>6, <1>7, <1>8, <1>9, <1>10, <1>11, <1>12, <1>13,
     <1>14, <1>15, <1>16, <1>17, <1>18, <1>19, <1>20, <1>21, <1>22, <1>23, <1>24,
     <1>25, <1>26, <1>27, <1>28, <1>29, <1>30, <1>31, <1>32, <1>33, <1>34
     DEF Next, WorkerStep, Take, Execute, ScanEnds, Dispatch, Actor, Service

-----------------------------------------------------------------------------
\* A shard that has ended, without being cancelled, keeps its row.
LEMMA TerminalKept ==
  ASSUME IInv, StoreInv, NeverCancelled, Punctual, [Next]_vars,
         NEW s \in Shard, status[s] \in TERMINAL_SHARD_STATUSES
  PROVE  /\ status'[s] = status[s]
         /\ artifact'[s] = artifact[s] /\ results'[s] = results[s]
<1>1. status[s] \notin {"running", "cancelled", "queued", "leased"}
  BY DEF NeverCancelled, TERMINAL_SHARD_STATUSES
<1>2. Abandoned(s)
  BY <1>1 DEF StoreInv, NotSuperseded, Abandoned
<1>3. s \notin selected["scheduler"]
  BY <1>1 DEF StoreInv, OverdueIsLost, Overdue
<1>4. /\ artifact'[s] = artifact[s] /\ results'[s] = results[s]
      /\ status'[s] = status[s] \/ status'[s] = "cancelled"
  BY <1>1, <1>2, <1>3, LeftAlone
<1>5. status'[s] # "cancelled"
  <2>1. CASE Quiet
    BY <1>1, <2>1 DEF Quiet
  <2>2. ASSUME NEW a \in Actor, DispatchLease(a) PROVE status'[s] = status[s]
    BY <1>1, <2>2 DEF DispatchLease, FirstOf, Ready
  <2>3. ASSUME NEW w \in Worker, NEW m \in broker, ClaimLease(w, m)
        PROVE  status'[s] = status[s]
    BY <1>1, <2>3 DEF ClaimLease, Claimable, IInv, TypeOK, DatabaseOK
  <2>4. ASSUME NEW w \in Worker, LoadCancelledRun(w) PROVE FALSE
    BY <2>4 DEF LoadCancelledRun, NeverCancelled
  <2>5. ASSUME NEW w \in Worker, StartRun(w) PROVE status'[s] = status[s]
    BY <2>5 DEF StartRun, leaseVars
  <2>6. ASSUME NEW w \in Worker, FinishCommit(w) PROVE status'[s] = status[s]
    <3>1. job[w].shard # s
      BY <1>2, <2>6, Committer DEF Abandoned
    <3> QED
      BY <2>6, <3>1 DEF FinishCommit, IInv, TypeOK, DatabaseOK
  <2>7. ASSUME RecoverCommit PROVE status'[s] = status[s]
    BY <1>3, <2>7 DEF RecoverCommit
  <2>8. ASSUME CancelCommit PROVE FALSE
    BY <2>8 DEF CancelCommit, NeverCancelled
  <2> QED
    BY <1>1, <2>1, <2>2, <2>3, <2>4, <2>5, <2>6, <2>7, <2>8, StepKinds DEF Loud, IInv
<1> QED
  BY <1>4, <1>5

\* When every shard has ended, nobody executes one.
LEMMA NothingLeft ==
  ASSUME IInv, StoreInv, NeverCancelled,
         \A s \in Shard : status[s] \in TERMINAL_SHARD_STATUSES,
         NEW w \in Worker
  PROVE  ~Executing(w)
<1> SUFFICES ASSUME Executing(w) PROVE FALSE
  OBVIOUS
<1>1. job[w].shard \in Shard
  BY ExecutorHasTask DEF IInv
<1> QED
  BY <1>1 DEF StoreInv, NotSuperseded, NeverCancelled, TERMINAL_SHARD_STATUSES

\* A worker that is to finalize was so before the step, for the same shard and
\* with the same verdict, or is told so by this step.
ToFinalize(w) ==
  pc'[w] = "commit" /\ final'[w] =>
    /\ job'[w] = job[w]
    /\ \/ pc[w] = "commit" /\ final[w] /\ verdict'[w] = verdict[w]
       \/ /\ verdict'[w] \in TERMINAL_SHARD_STATUSES
          /\ OthersTerminal(job[w].shard)

\* Closing a session puts nobody on the way to a finalization.
LEMMA CloseTaskToFinalize ==
  ASSUME TypeOK, NEW w \in Worker, CloseTask(w), NEW v \in Worker
  PROVE  ToFinalize(v)
  BY DEF CloseTask, ToFinalize, TypeOK, TasksOK, ActorsOK, Actor

\* Nor does leaving dispatch_available_shards.
LEMMA LeaveDispatchToFinalize ==
  ASSUME TypeOK, NEW a \in Actor, LeaveDispatch(a), NEW v \in Worker
  PROVE  ToFinalize(v)
<1>1. CASE a \in Worker /\ stage[a] # "end"
  BY <1>1 DEF LeaveDispatch, ToFinalize, TypeOK, ActorsOK, Actor, taskVars
<1>2. CASE a \in Worker /\ stage[a] = "end"
  BY <1>2, CloseTaskToFinalize DEF LeaveDispatch
<1>3. CASE a \notin Worker
  BY <1>3 DEF LeaveDispatch, ToFinalize, TypeOK, ActorsOK, Actor, taskVars
<1> QED
  BY <1>1, <1>2, <1>3

\* Only the end of a scan decides that the worker finalizes.
LEMMA ToFinalizeStep ==
  ASSUME TypeOK, NEW v \in Worker, [Next]_vars
  PROVE  ToFinalize(v)
<1>1. ASSUME NEW a \in Actor, DispatchNothing(a) PROVE ToFinalize(v)
  BY <1>1, LeaveDispatchToFinalize DEF DispatchNothing
<1>2. ASSUME NEW a \in Actor, DispatchCount(a) PROVE ToFinalize(v)
  BY <1>2, WorkerAssumption
     DEF DispatchCount, ToFinalize, TypeOK, TasksOK, ActorsOK, Actor, Service,
         taskVars
<1>3. ASSUME NEW a \in Actor, DispatchLease(a) PROVE ToFinalize(v)
  BY <1>3, LeaveDispatchToFinalize DEF DispatchLease
<1>4. ASSUME NEW m \in outbox, Publish(m) PROVE ToFinalize(v)
  BY <1>4, WorkerAssumption
     DEF Publish, ToFinalize, TypeOK, TasksOK, ActorsOK, Actor, Service, taskVars
<1>5. ASSUME NEW m \in outbox, PublishUnmarked(m) PROVE ToFinalize(v)
  BY <1>5, WorkerAssumption
     DEF PublishUnmarked, ToFinalize, TypeOK, TasksOK, ActorsOK, Actor, Service,
         taskVars
<1>6. ASSUME NEW w \in Worker, NEW m \in broker, ClaimLease(w, m) PROVE ToFinalize(v)
  BY <1>6, WorkerAssumption
     DEF ClaimLease, ToFinalize, TypeOK, TasksOK, ActorsOK, Actor, Service, taskVars
<1>7. ASSUME NEW w \in Worker, NEW m \in broker, DiscardTask(w, m) PROVE ToFinalize(v)
  BY <1>7, WorkerAssumption
     DEF DiscardTask, ToFinalize, TypeOK, TasksOK, ActorsOK, Actor, Service, taskVars
<1>8. ASSUME NEW w \in Worker, LoadRun(w) PROVE ToFinalize(v)
  BY <1>8, WorkerAssumption
     DEF LoadRun, ToFinalize, TypeOK, TasksOK, ActorsOK, Actor, Service, taskVars
<1>9. ASSUME NEW w \in Worker, LoadCancelledRun(w) PROVE ToFinalize(v)
  BY <1>9, CloseTaskToFinalize DEF LoadCancelledRun
<1>10. ASSUME NEW w \in Worker, StartRun(w) PROVE ToFinalize(v)
  BY <1>10, WorkerAssumption
     DEF StartRun, ToFinalize, TypeOK, TasksOK, ActorsOK, Actor, Service, taskVars
<1>11. ASSUME NEW w \in Worker, CheckLease(w) PROVE ToFinalize(v)
  BY <1>11, WorkerAssumption
     DEF CheckLease, ToFinalize, TypeOK, TasksOK, ActorsOK, Actor, Service, taskVars
<1>12. ASSUME NEW w \in Worker, Heartbeat(w) PROVE ToFinalize(v)
  BY <1>12, WorkerAssumption
     DEF Heartbeat, ToFinalize, TypeOK, TasksOK, ActorsOK, Actor, Service, taskVars
<1>13. ASSUME NEW w \in Worker, Superseded(w) PROVE ToFinalize(v)
  BY <1>13, CloseTaskToFinalize DEF Superseded
<1>14. ASSUME NEW w \in Worker, MasscanFound(w) PROVE ToFinalize(v)
  BY <1>14, WorkerAssumption
     DEF MasscanFound, ToFinalize, TypeOK, TasksOK, ActorsOK, Actor, Service, taskVars
<1>15. ASSUME NEW w \in Worker, MasscanEmpty(w) PROVE ToFinalize(v)
  <2>1. CASE v = w
    BY <1>15, <2>1
       DEF MasscanEmpty, FinishLease, ToFinalize, TypeOK, TasksOK, ActorsOK, Actor
  <2>2. CASE v # w
    BY <1>15, <2>2
       DEF MasscanEmpty, FinishLease, ToFinalize, TypeOK, TasksOK, ActorsOK, Actor
  <2> QED
    BY <2>1, <2>2
<1>16. ASSUME NEW w \in Worker, NmapDone(w) PROVE ToFinalize(v)
  <2>1. CASE v = w
    BY <1>16, <2>1
       DEF NmapDone, FinishLease, ToFinalize, TypeOK, TasksOK, ActorsOK, Actor
  <2>2. CASE v # w
    BY <1>16, <2>2
       DEF NmapDone, FinishLease, ToFinalize, TypeOK, TasksOK, ActorsOK, Actor
  <2> QED
    BY <2>1, <2>2
<1>17. ASSUME NEW w \in Worker, ScanFails(w) PROVE ToFinalize(v)
  <2>1. CASE v = w
    BY <1>17, <2>1
       DEF ScanFails, FinishLease, ToFinalize, TypeOK, TasksOK, ActorsOK, Actor
  <2>2. CASE v # w
    BY <1>17, <2>2
       DEF ScanFails, FinishLease, ToFinalize, TypeOK, TasksOK, ActorsOK, Actor
  <2> QED
    BY <2>1, <2>2
<1>18. ASSUME NEW w \in Worker, ScanCancelled(w) PROVE ToFinalize(v)
  <2>1. CASE v = w
    BY <1>18, <2>1
       DEF ScanCancelled, FinishLease, ToFinalize, TypeOK, TasksOK, ActorsOK, Actor
  <2>2. CASE v # w
    BY <1>18, <2>2
       DEF ScanCancelled, FinishLease, ToFinalize, TypeOK, TasksOK, ActorsOK, Actor
  <2> QED
    BY <2>1, <2>2
<1>19. ASSUME NEW w \in Worker, FinishCommit(w) PROVE ToFinalize(v)
  BY <1>19, WorkerAssumption
     DEF FinishCommit, ToFinalize, TypeOK, TasksOK, ActorsOK, Actor, Service, taskVars
<1>20. ASSUME NEW w \in Worker, DuplicateCandidate(w) PROVE ToFinalize(v)
  BY <1>20, CloseTaskToFinalize DEF DuplicateCandidate
<1>21. ASSUME RecoverSelect PROVE ToFinalize(v)
  BY <1>21, WorkerAssumption
     DEF RecoverSelect, ToFinalize, TypeOK, TasksOK, ActorsOK, Actor, Service,
         taskVars
<1>22. ASSUME RecoverCommit PROVE ToFinalize(v)
  BY <1>22, WorkerAssumption
     DEF RecoverCommit, ToFinalize, TypeOK, TasksOK, ActorsOK, Actor, Service,
         taskVars
<1>23. ASSUME ReconcileRead PROVE ToFinalize(v)
  BY <1>23, WorkerAssumption
     DEF ReconcileRead, ToFinalize, TypeOK, TasksOK, ActorsOK, Actor, Service,
         taskVars
<1>24. ASSUME ReconcileCommit PROVE ToFinalize(v)
  BY <1>24, WorkerAssumption
     DEF ReconcileCommit, ToFinalize, TypeOK, TasksOK, ActorsOK, Actor, Service,
         taskVars
<1>25. ASSUME DispatchReady PROVE ToFinalize(v)
  BY <1>25, WorkerAssumption
     DEF DispatchReady, ToFinalize, TypeOK, TasksOK, ActorsOK, Actor, Service,
         taskVars
<1>26. ASSUME CancelRead PROVE ToFinalize(v)
  BY <1>26, WorkerAssumption
     DEF CancelRead, ToFinalize, TypeOK, TasksOK, ActorsOK, Actor, Service, taskVars
<1>27. ASSUME CancelCommit PROVE ToFinalize(v)
  BY <1>27, WorkerAssumption
     DEF CancelCommit, ToFinalize, TypeOK, TasksOK, ActorsOK, Actor, Service, taskVars
<1>28. ASSUME NEW w \in Worker, CrashWorker(w) PROVE ToFinalize(v)
  BY <1>28, CloseTaskToFinalize DEF CrashWorker
<1>29. ASSUME NEW a \in {"api", "scheduler"}, RestartService(a) PROVE ToFinalize(v)
  BY <1>29, WorkerAssumption
     DEF RestartService, ToFinalize, TypeOK, TasksOK, ActorsOK, Actor, taskVars
<1>30. ASSUME NEW s \in Shard, LeaseExpires(s) PROVE ToFinalize(v)
  BY <1>30, WorkerAssumption
     DEF LeaseExpires, ToFinalize, TypeOK, TasksOK, ActorsOK, Actor, Service, taskVars
<1>31. ASSUME NEW s \in Shard, HeartbeatLate(s) PROVE ToFinalize(v)
  BY <1>31, WorkerAssumption
     DEF HeartbeatLate, ToFinalize, TypeOK, TasksOK, ActorsOK, Actor, Service,
         taskVars
<1>32. ASSUME NEW s \in Shard, OrphanExpires(s) PROVE ToFinalize(v)
  BY <1>32, WorkerAssumption
     DEF OrphanExpires, ToFinalize, TypeOK, TasksOK, ActorsOK, Actor, Service,
         taskVars
<1>33. ASSUME NEW s \in Shard, BackoffElapses(s) PROVE ToFinalize(v)
  BY <1>33, WorkerAssumption
     DEF BackoffElapses, ToFinalize, TypeOK, TasksOK, ActorsOK, Actor, Service,
         taskVars
<1>34. ASSUME UNCHANGED vars PROVE ToFinalize(v)
  BY <1>34, WorkerAssumption
     DEF vars, leaseVars, rowVars, queueVars, taskVars, callVars, runVars, ToFinalize,
         TypeOK, TasksOK, ActorsOK, Actor, Service
<1> QED
  BY <1>1, <1>2, <1>3, <1>4, <1>5, <1>6, <1>7, <1>8, <1>9, <1>10, <1>11, <1>12, <1>13,
     <1>14, <1>15, <1>16, <1>17, <1>18, <1>19, <1>20, <1>21, <1>22, <1>23, <1>24,
     <1>25, <1>26, <1>27, <1>28, <1>29, <1>30, <1>31, <1>32, <1>33, <1>34
     DEF Next, WorkerStep, Take, Execute, ScanEnds, Dispatch, Actor, Service

-----------------------------------------------------------------------------
\* The other shards of a worker that finalizes stay ended until its commit.
LEMMA LastToFinishStep ==
  ASSUME IInv, StoreInv, RunInv, Punctual, [Next]_vars
  PROVE  LastToFinish'
<1> SUFFICES ASSUME NEW w \in Worker, pc'[w] = "commit", final'[w]
             PROVE  /\ verdict'[w] \in TERMINAL_SHARD_STATUSES
                    /\ OthersTerminal(job[w].shard)'
  BY DEF LastToFinish
<1>1. job'[w] = job[w]
  BY ToFinalizeStep DEF ToFinalize, IInv
<1>2. verdict'[w] \in TERMINAL_SHARD_STATUSES /\ OthersTerminal(job[w].shard)
  BY ToFinalizeStep DEF ToFinalize, IInv, RunInv, LastToFinish
<1>3. \A r \in Shard \ {job[w].shard} : status'[r] \in TERMINAL_SHARD_STATUSES
  BY <1>2, TerminalKept DEF OthersTerminal, RunInv
<1> QED
  BY <1>1, <1>2, <1>3 DEF OthersTerminal

\* What a finalization finds: every shard has ended, in its commit's view.
LEMMA FinalizesOver ==
  ASSUME IInv, StoreInv, RunInv, Punctual, [Next]_vars,
         \/ \E w \in Worker : FinishCommit(w) /\ final[w]
         \/ ReconcileCommit /\ \A s \in Shard : status[s] \in TERMINAL_SHARD_STATUSES
  PROVE  \A s \in Shard : status'[s] \in TERMINAL_SHARD_STATUSES
<1>1. ASSUME NEW w \in Worker, FinishCommit(w), final[w], NEW s \in Shard
      PROVE  status'[s] \in TERMINAL_SHARD_STATUSES
  <2>1. verdict[w] \in TERMINAL_SHARD_STATUSES /\ OthersTerminal(job[w].shard)
    BY <1>1 DEF FinishCommit, RunInv, LastToFinish
  <2>2. CASE s = job[w].shard
    BY <1>1, <2>1, <2>2 DEF FinishCommit, IInv, TypeOK, DatabaseOK
  <2>3. CASE s # job[w].shard
    BY <1>1, <2>1, <2>3 DEF FinishCommit, OthersTerminal, IInv, TypeOK, DatabaseOK
  <2> QED
    BY <2>2, <2>3
<1> QED
  BY <1>1 DEF ReconcileCommit, leaseVars

\* The run and the inventory change by a start, which needs a shard to work on,
\* and by a finalization.
LEMMA RunChanges ==
  ASSUME IInv, StoreInv, RunInv, Punctual, [Next]_vars
  PROVE  \/ UNCHANGED runVars
         \/ /\ inventory' = inventory /\ runStatus' = "running"
            /\ \E s \in Shard : status[s] \notin TERMINAL_SHARD_STATUSES
         \/ /\ Finalize
            /\ \A s \in Shard : status'[s] \in TERMINAL_SHARD_STATUSES
<1>1. ASSUME NEW w \in Worker, StartRun(w)
      PROVE  \/ UNCHANGED runVars
             \/ /\ inventory' = inventory /\ runStatus' = "running"
                /\ \E s \in Shard : status[s] \notin TERMINAL_SHARD_STATUSES
  <2>1. Executing(w)
    BY <1>1 DEF StartRun, IInv, TypeOK, PlacesOK, Executing
  <2>2. ~ \A s \in Shard : status[s] \in TERMINAL_SHARD_STATUSES
    BY <2>1, NothingLeft DEF RunInv
  <2> QED
    BY <1>1, <2>2 DEF StartRun, runVars
<1>2. ASSUME NEW w \in Worker, FinishCommit(w)
      PROVE  \/ UNCHANGED runVars
             \/ /\ Finalize
                /\ \A s \in Shard : status'[s] \in TERMINAL_SHARD_STATUSES
  <2>1. CASE final[w]
    BY <1>2, <2>1, FinalizesOver DEF FinishCommit
  <2>2. CASE ~final[w]
    BY <1>2, <2>2 DEF FinishCommit
  <2> QED
    BY <2>1, <2>2
<1>3. ASSUME ReconcileCommit
      PROVE  \/ UNCHANGED runVars
             \/ /\ Finalize
                /\ \A s \in Shard : status'[s] \in TERMINAL_SHARD_STATUSES
  BY <1>3, FinalizesOver DEF ReconcileCommit
<1>4. ASSUME CancelCommit PROVE FALSE
  BY <1>4 DEF CancelCommit, RunInv, NeverCancelled
<1>5. ASSUME NEW s \in Shard, OrphanExpires(s) PROVE UNCHANGED runVars
  BY <1>5 DEF OrphanExpires
<1>6. ASSUME Plain PROVE UNCHANGED runVars
  BY <1>6 DEF Plain
<1> QED
  BY <1>1, <1>2, <1>3, <1>4, <1>5, <1>6, StoreKinds DEF Storing, IInv

\* A finished run stays over, and a second finalization finds the same outcome.
LEMMA FinishedIsOverStep ==
  ASSUME IInv, StoreInv, RunInv, Punctual, [Next]_vars
  PROVE  /\ FinishedIsOver'
         /\ runStatus \in FinishedRun => runStatus' = runStatus
<1>1. CASE Finalize /\ \A s \in Shard : status'[s] \in TERMINAL_SHARD_STATUSES
  <2>1. FinishedIsOver'
    BY <1>1 DEF Finalize, Outcome, FinishedIsOver
  <2>2. ASSUME runStatus \in FinishedRun PROVE runStatus' = runStatus
    <3>1. \A s \in Shard : status'[s] = status[s]
      BY <2>2, TerminalKept DEF RunInv, FinishedIsOver
    <3> QED
      BY <1>1, <2>2, <3>1 DEF Finalize, Outcome, RunInv, FinishedIsOver
  <2> QED
    BY <2>1, <2>2
<1>2. CASE runStatus' = "running" /\ \E s \in Shard : status[s] \notin TERMINAL_SHARD_STATUSES
  BY <1>2 DEF RunInv, FinishedIsOver, FinishedRun
<1>3. CASE UNCHANGED runVars
  <2>1. ASSUME runStatus \in FinishedRun
        PROVE  \A s \in Shard : /\ status'[s] = status[s]
                                /\ status[s] \in TERMINAL_SHARD_STATUSES
    BY <2>1, TerminalKept DEF RunInv, FinishedIsOver
  <2> QED
    BY <1>3, <2>1 DEF RunInv, FinishedIsOver, runVars
<1> QED
  BY <1>1, <1>2, <1>3, RunChanges

\* A shard completed without results was empty when its attempt committed.
LEMMA NothingShownStep ==
  ASSUME IInv, StoreInv, RunInv, Punctual, [Next]_vars
  PROVE  NothingShown'
<1>1. TypeOK
  BY DEF IInv
<1> SUFFICES ASSUME NEW s \in Shard, status'[s] = "completed", artifact'[s] = 0
             PROVE  results'[s] = {}
  BY DEF NothingShown
<1>2. ASSUME NEW w \in Worker, FinishCommit(w), s = job[w].shard
      PROVE  results'[s] = {}
  <2>1. Started(w) /\ Owns(w)
    BY <1>2, Committer
  <2>2. results[s] = {}
    BY <1>2, <2>1 DEF IInv, CleanStart
  <2>3. job[w].token # 0
    BY <1>1, <1>2, <2>1 DEF Owns, IInv, TokensIssued, Active, TypeOK, DatabaseOK
  <2>4. verdict[w] = "completed"
    BY <1>1, <1>2 DEF FinishCommit, TypeOK, DatabaseOK
  <2>5. "results" \notin pending[w]
    BY <1>1, <1>2, <2>3, <2>4 DEF FinishCommit, TypeOK, DatabaseOK
  <2> QED
    BY <1>1, <1>2, <2>2, <2>5 DEF FinishCommit
<1>3. CASE ~ \E w \in Worker : FinishCommit(w) /\ s = job[w].shard
  <2>1. status[s] = "completed"
    BY <1>1, <1>3, LeasesKept
  <2>2. status[s] \in TERMINAL_SHARD_STATUSES
    BY <2>1 DEF TERMINAL_SHARD_STATUSES
  <2> QED
    BY <2>1, <2>2, TerminalKept DEF RunInv, NothingShown
<1> QED
  BY <1>2, <1>3

\* An inventory is replaced when every shard is completed, by what the artifacts
\* stand for; nothing is stored for the run after that.
LEMMA CompleteCoverageStep ==
  ASSUME IInv, StoreInv, RunInv, Punctual, Uncancelled, [Next]_vars
  PROVE  CompleteCoverage'
<1> SUFFICES ASSUME inventory'.fromRun, NEW s \in Shard
             PROVE  /\ status'[s] = "completed"
                    /\ inventory'.rows[s] = IF artifact'[s] = 0 THEN {} ELSE {artifact'[s]}
  BY DEF CompleteCoverage
<1>1. CASE inventory' = inventory
  <2>1. /\ status[s] = "completed"
        /\ inventory.rows[s] = IF artifact[s] = 0 THEN {} ELSE {artifact[s]}
    BY <1>1 DEF RunInv, CompleteCoverage
  <2>2. status[s] \in TERMINAL_SHARD_STATUSES
    BY <2>1 DEF TERMINAL_SHARD_STATUSES
  <2>3. status'[s] = status[s] /\ artifact'[s] = artifact[s]
    BY <2>2, TerminalKept DEF RunInv
  <2> QED
    BY <1>1, <2>1, <2>3
<1>2. CASE inventory' # inventory
  <2>1. Finalize /\ \A r \in Shard : status'[r] \in TERMINAL_SHARD_STATUSES
    BY <1>2, RunChanges DEF runVars
  <2>2. inventory'.rows = results' /\ Outcome = "completed"
    BY <1>2, <2>1 DEF Finalize
  <2>3. status'[s] # "cancelled"
    BY NeverCancelledStep DEF NeverCancelled, RunInv, IInv
  <2>4. status'[s] = "completed"
    BY <2>1, <2>2, <2>3 DEF Outcome, TERMINAL_SHARD_STATUSES
  <2>5. results'[s] = IF artifact'[s] = 0 THEN {} ELSE {artifact'[s]}
    BY <2>4, NothingShownStep, ArtifactStoredStep DEF NothingShown, ArtifactStored
  <2> QED
    BY <2>2, <2>4, <2>5
<1> QED
  BY <1>1, <1>2

-----------------------------------------------------------------------------
\* With no cancellation either, whoever finalizes sees all that was done.
LEMMA RunInvariance ==
  ASSUME Punctual, Uncancelled
  PROVE  Spec => []RunInv
<1>1. Init => RunInv
  BY WorkerAssumption
     DEF Init, RunInv, NeverCancelled, LastToFinish, FinishedIsOver, NothingShown,
         CompleteCoverage, FinishedRun, Actor, Service
<1>2. IInv /\ StoreInv /\ RunInv /\ [Next]_vars => RunInv'
  <2> SUFFICES ASSUME IInv, StoreInv, RunInv, [Next]_vars PROVE RunInv'
    OBVIOUS
  <2>1. NeverCancelled'
    BY NeverCancelledStep DEF IInv, RunInv
  <2> QED
    BY <2>1, LastToFinishStep, FinishedIsOverStep, NothingShownStep,
       CompleteCoverageStep DEF RunInv
<1> QED
  BY <1>1, <1>2, Invariance, StoreInvariance, PTL DEF Spec

\* An inventory replaced by the run covers all of it, and shows for each shard
\* what its artifact holds, whatever workers crash and services restart
\* (finalize_terminal_run, materialize_current_exposures).
THEOREM InventoryCoversTheRun ==
  ASSUME Punctual, Uncancelled
  PROVE  Spec => []CompleteCoverage
<1>1. RunInv => CompleteCoverage
  BY DEF RunInv
<1> QED
  BY <1>1, RunInvariance, PTL

\* A finished run keeps its status, although a worker writes the run it read
\* long ago by primary key and reconciliation may finalize once more.
THEOREM FinishedRunsStayFinished ==
  ASSUME Punctual, Uncancelled
  PROVE  Spec => FinishedForGood
<1>1. IInv /\ StoreInv /\ RunInv /\ [Next]_vars =>
        [(runStatus \in FinishedRun => runStatus' = runStatus)]_vars
  BY FinishedIsOverStep
<1> QED
  BY <1>1, Invariance, StoreInvariance, RunInvariance, PTL DEF Spec, FinishedForGood

=============================================================================
