--------------------------- MODULE ScanRunProofs ---------------------------
(***************************************************************************)
(* Type correctness and execution-token fencing, proved of ScanRun for any *)
(* number of shards and workers, any limits and any disturbances: no two   *)
(* workers execute under the same token, a completed shard's results are   *)
(* those of the token it holds, a leased shard keeps its task, and the     *)
(* leases implement LeaseFencing.                                          *)
(*                                                                         *)
(* TypeOK comes first, one proof step per action for each of its parts.    *)
(* Few actions touch leases, tokens and results: StepKinds sorts the steps *)
(* into those and the quiet ones, and each conjunct of the inductive       *)
(* invariant IInv is then proved by the same eight cases.                  *)
(***************************************************************************)
EXTENDS ScanRun, FiniteSetTheorems, TLAPS

-----------------------------------------------------------------------------
\* The capacity left is a number when it is positive.
LEMMA CapacityType ==
  ASSUME DatabaseOK, Capacity > 0
  PROVE  Capacity \in Nat
<1>1. IsFiniteSet(Active)
  BY ShardAssumption, FS_Subset DEF Active
<1>2. Cardinality(Active) \in Nat
  BY <1>1, FS_CardinalityType
<1> QED
  BY <1>2, SettingsAssumption DEF Capacity

\* Closing its session leaves a worker idle and without a task.
LEMMA CloseTaskType ==
  ASSUME TypeOK, NEW w \in Worker, CloseTask(w), broker' \subseteq Message
  PROVE  /\ TasksOK'
         /\ PlacesOK'
         /\ pc' \in [Actor -> Place]
  BY DEF TypeOK, TasksOK, ActorsOK, PlacesOK, Place, CloseTask, Actor, RunStatus

\* Leaving dispatch_available_shards does too, or takes a worker to its scan.
LEMMA LeaveDispatchType ==
  ASSUME TypeOK, NEW a \in Actor, pc[a] \in {"dispatch", "lease"}, LeaveDispatch(a),
         broker' = broker
  PROVE  /\ TasksOK'
         /\ room' \in [Actor -> Nat]
         /\ PlacesOK'
         /\ pc' \in [Actor -> Place]
<1>1. room' \in [Actor -> Nat]
  BY DEF TypeOK, ActorsOK, LeaveDispatch
<1>2. CASE a \in Worker /\ stage[a] # "end"
  BY <1>1, <1>2
     DEF TypeOK, TasksOK, ActorsOK, PlacesOK, Place, Actor, LeaveDispatch, taskVars
<1>3. CASE a \in Worker /\ stage[a] = "end"
  <2>1. CloseTask(a)
    BY <1>3 DEF LeaveDispatch
  <2>2. broker' \subseteq Message
    BY DEF TypeOK, TasksOK
  <2> QED
    BY <1>1, <1>3, <2>1, <2>2, CloseTaskType
<1>4. CASE a \notin Worker
  BY <1>1, <1>4
     DEF TypeOK, TasksOK, ActorsOK, PlacesOK, Place, Actor, LeaveDispatch, taskVars
<1> QED
  BY <1>2, <1>3, <1>4

\* Finalizing keeps the types of the run and of the inventory.
LEMMA FinalizeType ==
  ASSUME Finalize, DatabaseOK, results' \in [Shard -> SUBSET Nat]
  PROVE  /\ runStatus' \in RunStatus
         /\ inventory' \in [fromRun : BOOLEAN, rows : [Shard -> SUBSET Nat]]
<1>1. Outcome \in {"completed", "failed"}
  BY DEF Outcome
<1> QED
  BY <1>1 DEF Finalize, DatabaseOK, RunStatus
\* Every step keeps the types of what is stored: one proof step per action.
LEMMA DatabaseStep == TypeOK /\ [Next]_vars => DatabaseOK'
<1> SUFFICES ASSUME TypeOK, [Next]_vars PROVE DatabaseOK'
  OBVIOUS
<1> USE DEF DatabaseOK
<1> DatabaseOK
  BY DEF TypeOK
<1>1. ASSUME NEW a \in Actor, DispatchNothing(a) PROVE DatabaseOK'
  BY <1>1 DEF DispatchNothing, leaseVars, rowVars, runVars, queueVars
<1>2. ASSUME NEW a \in Actor, DispatchCount(a) PROVE DatabaseOK'
  BY <1>2 DEF DispatchCount, leaseVars, rowVars, runVars, queueVars
<1>3. ASSUME NEW a \in Actor, DispatchLease(a) PROVE DatabaseOK'
  <2>1. Ready \subseteq Shard
    BY DEF Ready
  <2>2. FirstOf(Ready, room[a]) \subseteq Shard
    BY <2>1 DEF FirstOf
  <2>3. outbox' \subseteq Message
    BY <1>3, <2>2 DEF DispatchLease, Events, Message
  <2>4. status' \in [Shard -> ShardStatus]
    BY <1>3 DEF DispatchLease, ShardStatus
  <2>5. leaseToken' \in [Shard -> Nat]
    BY <1>3 DEF DispatchLease
  <2>6. lastToken' \in [Shard -> Nat]
    BY <1>3 DEF DispatchLease
  <2>7. expired' \in [Shard -> BOOLEAN]
    BY <1>3, ZenonT(30) DEF DispatchLease
  <2> QED
    BY <1>3, <2>3, <2>4, <2>5, <2>6, <2>7 DEF DispatchLease, rowVars, runVars
<1>4. ASSUME NEW m \in outbox, Publish(m) PROVE DatabaseOK'
  BY <1>4 DEF Publish, leaseVars, rowVars, runVars, queueVars
<1>5. ASSUME NEW m \in outbox, PublishUnmarked(m) PROVE DatabaseOK'
  BY <1>5 DEF PublishUnmarked, leaseVars, rowVars, runVars, queueVars
<1>6. ASSUME NEW w \in Worker, NEW m \in broker, ClaimLease(w, m) PROVE DatabaseOK'
  <2>1. m.shard \in Shard
    BY <1>6 DEF TypeOK, TasksOK, Message
  <2>2. status' \in [Shard -> ShardStatus] /\ expired' \in [Shard -> BOOLEAN]
    BY <1>6, <2>1 DEF ClaimLease, ShardStatus
  <2>3. attempts' \in [Shard -> Nat]
    BY <1>6, <2>1 DEF ClaimLease
  <2> QED
    BY <1>6, <2>2, <2>3 DEF ClaimLease, rowVars, runVars
<1>7. ASSUME NEW w \in Worker, NEW m \in broker, DiscardTask(w, m) PROVE DatabaseOK'
  BY <1>7 DEF DiscardTask, leaseVars, rowVars, runVars, queueVars
<1>8. ASSUME NEW w \in Worker, LoadRun(w) PROVE DatabaseOK'
  BY <1>8 DEF LoadRun, leaseVars, rowVars, runVars, queueVars
<1>9. ASSUME NEW w \in Worker, LoadCancelledRun(w) PROVE DatabaseOK'
  BY <1>9 DEF LoadCancelledRun, ShardStatus, leaseVars, rowVars, runVars, queueVars
<1>10. ASSUME NEW w \in Worker, StartRun(w) PROVE DatabaseOK'
  BY <1>10 DEF StartRun, RunStatus, leaseVars, rowVars, runVars, queueVars
<1>11. ASSUME NEW w \in Worker, CheckLease(w) PROVE DatabaseOK'
  BY <1>11 DEF CheckLease, leaseVars, rowVars, runVars, queueVars
<1>12. ASSUME NEW w \in Worker, Heartbeat(w) PROVE DatabaseOK'
  <2>1. job[w] \in Message
    BY <1>12 DEF Heartbeat, TypeOK, PlacesOK
  <2> QED
    BY <1>12, <2>1 DEF Heartbeat, Message, runVars, queueVars
<1>13. ASSUME NEW w \in Worker, Superseded(w) PROVE DatabaseOK'
  BY <1>13 DEF Superseded, leaseVars, rowVars, runVars, queueVars
<1>14. ASSUME NEW w \in Worker, MasscanFound(w) PROVE DatabaseOK'
  BY <1>14 DEF MasscanFound, leaseVars, rowVars, runVars, queueVars
<1>15. ASSUME NEW w \in Worker, MasscanEmpty(w) PROVE DatabaseOK'
  BY <1>15 DEF MasscanEmpty, FinishLease, leaseVars, rowVars, runVars, queueVars
<1>16. ASSUME NEW w \in Worker, NmapDone(w) PROVE DatabaseOK'
  BY <1>16 DEF NmapDone, FinishLease, leaseVars, rowVars, runVars, queueVars
<1>17. ASSUME NEW w \in Worker, ScanFails(w) PROVE DatabaseOK'
  BY <1>17 DEF ScanFails, FinishLease, leaseVars, rowVars, runVars, queueVars
<1>18. ASSUME NEW w \in Worker, ScanCancelled(w) PROVE DatabaseOK'
  BY <1>18 DEF ScanCancelled, FinishLease, leaseVars, rowVars, runVars, queueVars
<1>19. ASSUME NEW w \in Worker, FinishCommit(w) PROVE DatabaseOK'
  <2>1. job[w] \in Message
    BY <1>19 DEF FinishCommit, TypeOK, PlacesOK
  <2>2. /\ status' \in [Shard -> ShardStatus]
        /\ expired' \in [Shard -> BOOLEAN]
        /\ backoff' \in [Shard -> BOOLEAN]
    BY <1>19 DEF FinishCommit, TypeOK, TasksOK, ShardStatus
  <2>3. /\ results' \in [Shard -> SUBSET Nat]
        /\ candidates' \in [Shard -> SUBSET Nat]
        /\ artifact' \in [Shard -> Nat]
    BY <1>19, <2>1 DEF FinishCommit, Message
  <2>4. /\ runStatus' \in RunStatus
        /\ inventory' \in [fromRun : BOOLEAN, rows : [Shard -> SUBSET Nat]]
    <3>1. CASE final[w]
      BY <1>19, <2>3, <3>1, FinalizeType DEF FinishCommit
    <3>2. CASE ~final[w]
      BY <1>19, <3>2 DEF FinishCommit, runVars
    <3> QED
      BY <3>1, <3>2
  <2> QED
    BY <1>19, <2>2, <2>3, <2>4 DEF FinishCommit, queueVars
<1>20. ASSUME NEW w \in Worker, DuplicateCandidate(w) PROVE DatabaseOK'
  BY <1>20 DEF DuplicateCandidate, leaseVars, rowVars, runVars, queueVars
<1>21. ASSUME RecoverSelect PROVE DatabaseOK'
  BY <1>21 DEF RecoverSelect, leaseVars, rowVars, runVars, queueVars
<1>22. ASSUME RecoverCommit PROVE DatabaseOK'
  BY <1>22 DEF RecoverCommit, ShardStatus, leaseVars, rowVars, runVars, queueVars
<1>23. ASSUME ReconcileRead PROVE DatabaseOK'
  BY <1>23 DEF ReconcileRead, leaseVars, rowVars, runVars, queueVars
<1>24. ASSUME ReconcileCommit PROVE DatabaseOK'
  <2>1. /\ runStatus' \in RunStatus
        /\ inventory' \in [fromRun : BOOLEAN, rows : [Shard -> SUBSET Nat]]
    <3>1. results' \in [Shard -> SUBSET Nat]
      BY <1>24 DEF ReconcileCommit, rowVars
    <3>2. CASE Finalize
      BY <3>1, <3>2, FinalizeType
    <3>3. CASE UNCHANGED runVars
      BY <3>3 DEF runVars
    <3> QED
      BY <1>24, <3>2, <3>3 DEF ReconcileCommit
  <2> QED
    BY <1>24, <2>1 DEF ReconcileCommit, leaseVars, rowVars, queueVars
<1>25. ASSUME DispatchReady PROVE DatabaseOK'
  BY <1>25 DEF DispatchReady, leaseVars, rowVars, runVars, queueVars
<1>26. ASSUME CancelRead PROVE DatabaseOK'
  BY <1>26 DEF CancelRead, leaseVars, rowVars, runVars, queueVars
<1>27. ASSUME CancelCommit PROVE DatabaseOK'
  BY <1>27
     DEF CancelCommit, ShardStatus, RunStatus, leaseVars, rowVars, runVars, queueVars
<1>28. ASSUME NEW w \in Worker, CrashWorker(w) PROVE DatabaseOK'
  BY <1>28 DEF CrashWorker, leaseVars, rowVars, runVars, queueVars
<1>29. ASSUME NEW a \in {"api", "scheduler"}, RestartService(a) PROVE DatabaseOK'
  BY <1>29 DEF RestartService, leaseVars, rowVars, runVars, queueVars
<1>30. ASSUME NEW s \in Shard, LeaseExpires(s) PROVE DatabaseOK'
  BY <1>30 DEF LeaseExpires, leaseVars, rowVars, runVars, queueVars
<1>31. ASSUME NEW s \in Shard, HeartbeatLate(s) PROVE DatabaseOK'
  BY <1>31 DEF HeartbeatLate, leaseVars, rowVars, runVars, queueVars
<1>32. ASSUME NEW s \in Shard, OrphanExpires(s) PROVE DatabaseOK'
  BY <1>32 DEF OrphanExpires, leaseVars, rowVars, runVars, queueVars
<1>33. ASSUME NEW s \in Shard, BackoffElapses(s) PROVE DatabaseOK'
  BY <1>33 DEF BackoffElapses, leaseVars, rowVars, runVars, queueVars
<1>34. ASSUME UNCHANGED vars PROVE DatabaseOK'
  BY <1>34 DEF vars, leaseVars, rowVars, runVars, queueVars
<1> QED
  BY <1>1, <1>2, <1>3, <1>4, <1>5, <1>6, <1>7, <1>8, <1>9, <1>10, <1>11, <1>12,
     <1>13, <1>14, <1>15, <1>16, <1>17, <1>18, <1>19, <1>20, <1>21, <1>22, <1>23,
     <1>24, <1>25, <1>26, <1>27, <1>28, <1>29, <1>30, <1>31, <1>32, <1>33, <1>34
     DEF Next, WorkerStep, Take, Execute, ScanEnds, Dispatch, Actor, Service

\* Every step keeps the types of the tasks.
LEMMA TasksStep == TypeOK /\ [Next]_vars => TasksOK'
<1> SUFFICES ASSUME TypeOK, [Next]_vars PROVE TasksOK'
  OBVIOUS
<1> USE DEF TasksOK
<1> TasksOK
  BY DEF TypeOK
<1>1. ASSUME NEW a \in Actor, DispatchNothing(a) PROVE TasksOK'
  <2>1. broker' = broker
    BY <1>1 DEF DispatchNothing, queueVars
  <2> QED
    BY <1>1, <2>1, LeaveDispatchType DEF DispatchNothing
<1>2. ASSUME NEW a \in Actor, DispatchCount(a) PROVE TasksOK'
  BY <1>2 DEF DispatchCount, taskVars, queueVars
<1>3. ASSUME NEW a \in Actor, DispatchLease(a) PROVE TasksOK'
  BY <1>3, LeaveDispatchType DEF DispatchLease
<1>4. ASSUME NEW m \in outbox, Publish(m) PROVE TasksOK'
  BY <1>4 DEF Publish, TypeOK, DatabaseOK, taskVars
<1>5. ASSUME NEW m \in outbox, PublishUnmarked(m) PROVE TasksOK'
  BY <1>5 DEF PublishUnmarked, TypeOK, DatabaseOK, taskVars
<1>6. ASSUME NEW w \in Worker, NEW m \in broker, ClaimLease(w, m) PROVE TasksOK'
  BY <1>6, SettingsAssumption DEF ClaimLease
<1>7. ASSUME NEW w \in Worker, NEW m \in broker, DiscardTask(w, m) PROVE TasksOK'
  BY <1>7 DEF DiscardTask, taskVars, queueVars
<1>8. ASSUME NEW w \in Worker, LoadRun(w) PROVE TasksOK'
  BY <1>8 DEF LoadRun, TypeOK, DatabaseOK, RunStatus, Actor, taskVars, queueVars
<1>9. ASSUME NEW w \in Worker, LoadCancelledRun(w) PROVE TasksOK'
  <2>1. CloseTask(w) /\ broker' \subseteq Message
    BY <1>9 DEF LoadCancelledRun, queueVars
  <2> QED
    BY <2>1, CloseTaskType
<1>10. ASSUME NEW w \in Worker, StartRun(w) PROVE TasksOK'
  BY <1>10 DEF StartRun, TypeOK, DatabaseOK, RunStatus, Actor, taskVars, queueVars
<1>11. ASSUME NEW w \in Worker, CheckLease(w) PROVE TasksOK'
  BY <1>11 DEF CheckLease, TypeOK, DatabaseOK, RunStatus, Actor, taskVars, queueVars
<1>12. ASSUME NEW w \in Worker, Heartbeat(w) PROVE TasksOK'
  BY <1>12 DEF Heartbeat, taskVars, queueVars
<1>13. ASSUME NEW w \in Worker, Superseded(w) PROVE TasksOK'
  <2>1. CloseTask(w) /\ broker' \subseteq Message
    BY <1>13 DEF Superseded, queueVars
  <2> QED
    BY <2>1, CloseTaskType
<1>14. ASSUME NEW w \in Worker, MasscanFound(w) PROVE TasksOK'
  BY <1>14 DEF MasscanFound, taskVars, queueVars
<1>15. ASSUME NEW w \in Worker, MasscanEmpty(w) PROVE TasksOK'
  BY <1>15 DEF MasscanEmpty, FinishLease, taskVars, queueVars
<1>16. ASSUME NEW w \in Worker, NmapDone(w) PROVE TasksOK'
  BY <1>16 DEF NmapDone, FinishLease, taskVars, queueVars
<1>17. ASSUME NEW w \in Worker, ScanFails(w) PROVE TasksOK'
  <2>1. PICK added \in {{}, {IF stage[w] = "discover" THEN "candidates" ELSE "results"}} :
          FinishLease(w, FailureStatus(job[w].shard), added)
    BY <1>17 DEF ScanFails
  <2>2. FailureStatus(job[w].shard) \in {"dead_letter", "queued"}
    BY DEF FailureStatus
  <2>3. added \subseteq {"candidates", "results"}
    BY <2>1
  <2> QED
    BY <2>1, <2>2, <2>3 DEF FinishLease, queueVars
<1>18. ASSUME NEW w \in Worker, ScanCancelled(w) PROVE TasksOK'
  BY <1>18 DEF ScanCancelled, FinishLease, taskVars, queueVars
<1>19. ASSUME NEW w \in Worker, FinishCommit(w) PROVE TasksOK'
  <2>1. runStatus' \in RunStatus
    BY <1>19, DatabaseStep DEF DatabaseOK
  <2>2. seenRun' \in [Actor -> RunStatus]
    BY <1>19, <2>1 DEF FinishCommit
  <2> QED
    BY <1>19, <2>2 DEF FinishCommit, queueVars
<1>20. ASSUME NEW w \in Worker, DuplicateCandidate(w) PROVE TasksOK'
  <2>1. CloseTask(w) /\ broker' \subseteq Message
    BY <1>20 DEF DuplicateCandidate, queueVars
  <2> QED
    BY <2>1, CloseTaskType
<1>21. ASSUME RecoverSelect PROVE TasksOK'
  BY <1>21 DEF RecoverSelect, taskVars, queueVars
<1>22. ASSUME RecoverCommit PROVE TasksOK'
  BY <1>22 DEF RecoverCommit, taskVars, queueVars
<1>23. ASSUME ReconcileRead PROVE TasksOK'
  BY <1>23 DEF ReconcileRead, taskVars, queueVars
<1>24. ASSUME ReconcileCommit PROVE TasksOK'
  BY <1>24 DEF ReconcileCommit, taskVars, queueVars
<1>25. ASSUME DispatchReady PROVE TasksOK'
  BY <1>25 DEF DispatchReady, taskVars, queueVars
<1>26. ASSUME CancelRead PROVE TasksOK'
  BY <1>26 DEF CancelRead, taskVars, queueVars
<1>27. ASSUME CancelCommit PROVE TasksOK'
  BY <1>27 DEF CancelCommit, taskVars, queueVars
<1>28. ASSUME NEW w \in Worker, CrashWorker(w) PROVE TasksOK'
  <2>1. CloseTask(w) /\ broker' \subseteq Message
    BY <1>28 DEF CrashWorker, TypeOK, PlacesOK
  <2> QED
    BY <2>1, CloseTaskType
<1>29. ASSUME NEW a \in {"api", "scheduler"}, RestartService(a) PROVE TasksOK'
  BY <1>29 DEF RestartService, taskVars, queueVars
<1>30. ASSUME NEW s \in Shard, LeaseExpires(s) PROVE TasksOK'
  BY <1>30 DEF LeaseExpires, taskVars, queueVars
<1>31. ASSUME NEW s \in Shard, HeartbeatLate(s) PROVE TasksOK'
  BY <1>31 DEF HeartbeatLate, taskVars, queueVars
<1>32. ASSUME NEW s \in Shard, OrphanExpires(s) PROVE TasksOK'
  BY <1>32 DEF OrphanExpires, taskVars, queueVars
<1>33. ASSUME NEW s \in Shard, BackoffElapses(s) PROVE TasksOK'
  BY <1>33 DEF BackoffElapses, taskVars, queueVars
<1>34. ASSUME UNCHANGED vars PROVE TasksOK'
  BY <1>34 DEF vars, taskVars, queueVars
<1> QED
  BY <1>1, <1>2, <1>3, <1>4, <1>5, <1>6, <1>7, <1>8, <1>9, <1>10, <1>11, <1>12,
     <1>13, <1>14, <1>15, <1>16, <1>17, <1>18, <1>19, <1>20, <1>21, <1>22, <1>23,
     <1>24, <1>25, <1>26, <1>27, <1>28, <1>29, <1>30, <1>31, <1>32, <1>33, <1>34
     DEF Next, WorkerStep, Take, Execute, ScanEnds, Dispatch, Actor, Service

\* Every step leaves each actor at one of its places.
LEMMA ActorsStep == TypeOK /\ [Next]_vars => ActorsOK'
<1> SUFFICES ASSUME TypeOK, [Next]_vars PROVE ActorsOK'
  OBVIOUS
<1> USE DEF ActorsOK
<1> ActorsOK
  BY DEF TypeOK
<1>1. ASSUME NEW a \in Actor, DispatchNothing(a) PROVE ActorsOK'
  <2>1. broker' = broker
    BY <1>1 DEF DispatchNothing, queueVars
  <2> QED
    BY <1>1, <2>1, LeaveDispatchType DEF DispatchNothing
<1>2. ASSUME NEW a \in Actor, DispatchCount(a) PROVE ActorsOK'
  <2>1. Capacity \in Nat
    BY <1>2, CapacityType DEF DispatchCount, TypeOK
  <2> QED
    BY <1>2, <2>1 DEF DispatchCount, Place
<1>3. ASSUME NEW a \in Actor, DispatchLease(a) PROVE ActorsOK'
  BY <1>3, LeaveDispatchType DEF DispatchLease
<1>4. ASSUME NEW m \in outbox, Publish(m) PROVE ActorsOK'
  BY <1>4 DEF Publish, callVars, Actor, Service, Place
<1>5. ASSUME NEW m \in outbox, PublishUnmarked(m) PROVE ActorsOK'
  BY <1>5, DisturbanceAssumption
     DEF PublishUnmarked, Disturb, callVars, Actor, Service, Place
<1>6. ASSUME NEW w \in Worker, NEW m \in broker, ClaimLease(w, m) PROVE ActorsOK'
  BY <1>6 DEF ClaimLease, callVars, Actor, Service, Place
<1>7. ASSUME NEW w \in Worker, NEW m \in broker, DiscardTask(w, m) PROVE ActorsOK'
  BY <1>7 DEF DiscardTask, callVars, Actor, Service, Place
<1>8. ASSUME NEW w \in Worker, LoadRun(w) PROVE ActorsOK'
  BY <1>8 DEF LoadRun, callVars, Actor, Service, Place
<1>9. ASSUME NEW w \in Worker, LoadCancelledRun(w) PROVE ActorsOK'
  <2>1. CloseTask(w) /\ broker' \subseteq Message
    BY <1>9 DEF LoadCancelledRun, queueVars, TypeOK, TasksOK
  <2> QED
    BY <1>9, <2>1, CloseTaskType DEF LoadCancelledRun, callVars
<1>10. ASSUME NEW w \in Worker, StartRun(w) PROVE ActorsOK'
  BY <1>10 DEF StartRun, callVars, Actor, Service, Place
<1>11. ASSUME NEW w \in Worker, CheckLease(w) PROVE ActorsOK'
  BY <1>11 DEF CheckLease, callVars, Actor, Service, Place
<1>12. ASSUME NEW w \in Worker, Heartbeat(w) PROVE ActorsOK'
  BY <1>12 DEF Heartbeat, callVars, Actor, Service, Place
<1>13. ASSUME NEW w \in Worker, Superseded(w) PROVE ActorsOK'
  <2>1. CloseTask(w) /\ broker' \subseteq Message
    BY <1>13 DEF Superseded, queueVars, TypeOK, TasksOK
  <2> QED
    BY <1>13, <2>1, CloseTaskType DEF Superseded, callVars
<1>14. ASSUME NEW w \in Worker, MasscanFound(w) PROVE ActorsOK'
  BY <1>14 DEF MasscanFound, callVars, Actor, Service, Place
<1>15. ASSUME NEW w \in Worker, MasscanEmpty(w) PROVE ActorsOK'
  BY <1>15 DEF MasscanEmpty, FinishLease, callVars, Actor, Service, Place
<1>16. ASSUME NEW w \in Worker, NmapDone(w) PROVE ActorsOK'
  BY <1>16 DEF NmapDone, FinishLease, callVars, Actor, Service, Place
<1>17. ASSUME NEW w \in Worker, ScanFails(w) PROVE ActorsOK'
  BY <1>17 DEF ScanFails, FinishLease, callVars, Actor, Service, Place
<1>18. ASSUME NEW w \in Worker, ScanCancelled(w) PROVE ActorsOK'
  BY <1>18 DEF ScanCancelled, FinishLease, callVars, Actor, Service, Place
<1>19. ASSUME NEW w \in Worker, FinishCommit(w) PROVE ActorsOK'
  BY <1>19 DEF FinishCommit, callVars, Actor, Service, Place
<1>20. ASSUME NEW w \in Worker, DuplicateCandidate(w) PROVE ActorsOK'
  <2>1. CloseTask(w) /\ broker' \subseteq Message
    BY <1>20 DEF DuplicateCandidate, queueVars, TypeOK, TasksOK
  <2> QED
    BY <1>20, <2>1, CloseTaskType DEF DuplicateCandidate, callVars
<1>21. ASSUME RecoverSelect PROVE ActorsOK'
  BY <1>21 DEF RecoverSelect, Stale, Active, callVars, Actor, Service, Place
<1>22. ASSUME RecoverCommit PROVE ActorsOK'
  BY <1>22 DEF RecoverCommit, callVars, Actor, Service, Place
<1>23. ASSUME ReconcileRead PROVE ActorsOK'
  BY <1>23 DEF ReconcileRead, callVars, Actor, Service, Place
<1>24. ASSUME ReconcileCommit PROVE ActorsOK'
  BY <1>24 DEF ReconcileCommit, callVars, Actor, Service, Place
<1>25. ASSUME DispatchReady PROVE ActorsOK'
  BY <1>25 DEF DispatchReady, callVars, Actor, Service, Place
<1>26. ASSUME CancelRead PROVE ActorsOK'
  BY <1>26, DisturbanceAssumption
     DEF CancelRead, Disturb, callVars, Actor, Service, Place
<1>27. ASSUME CancelCommit PROVE ActorsOK'
  BY <1>27 DEF CancelCommit, callVars, Actor, Service, Place
<1>28. ASSUME NEW w \in Worker, CrashWorker(w) PROVE ActorsOK'
  <2>1. CloseTask(w) /\ broker' \subseteq Message
    BY <1>28 DEF CrashWorker, TypeOK, TasksOK, PlacesOK
  <2>2. pc' \in [Actor -> Place]
    BY <2>1, CloseTaskType
  <2>3. room' \in [Actor -> Nat] /\ selected' \in [Service -> SUBSET Shard]
    BY <1>28 DEF CrashWorker
  <2>4. disturbances' \in 0..MaxDisturbances
    BY <1>28, DisturbanceAssumption DEF CrashWorker, Disturb
  <2> QED
    BY <2>2, <2>3, <2>4
<1>29. ASSUME NEW a \in {"api", "scheduler"}, RestartService(a) PROVE ActorsOK'
  BY <1>29, DisturbanceAssumption
     DEF RestartService, Disturb, callVars, Actor, Service, Place
<1>30. ASSUME NEW s \in Shard, LeaseExpires(s) PROVE ActorsOK'
  BY <1>30, DisturbanceAssumption
     DEF LeaseExpires, Disturb, callVars, Actor, Service, Place
<1>31. ASSUME NEW s \in Shard, HeartbeatLate(s) PROVE ActorsOK'
  BY <1>31, DisturbanceAssumption
     DEF HeartbeatLate, Disturb, callVars, Actor, Service, Place
<1>32. ASSUME NEW s \in Shard, OrphanExpires(s) PROVE ActorsOK'
  BY <1>32 DEF OrphanExpires, callVars, Actor, Service, Place
<1>33. ASSUME NEW s \in Shard, BackoffElapses(s) PROVE ActorsOK'
  BY <1>33 DEF BackoffElapses, callVars, Actor, Service, Place
<1>34. ASSUME UNCHANGED vars PROVE ActorsOK'
  BY <1>34 DEF vars, callVars, Actor, Service, Place
<1> QED
  BY <1>1, <1>2, <1>3, <1>4, <1>5, <1>6, <1>7, <1>8, <1>9, <1>10, <1>11, <1>12,
     <1>13, <1>14, <1>15, <1>16, <1>17, <1>18, <1>19, <1>20, <1>21, <1>22, <1>23,
     <1>24, <1>25, <1>26, <1>27, <1>28, <1>29, <1>30, <1>31, <1>32, <1>33, <1>34
     DEF Next, WorkerStep, Take, Execute, ScanEnds, Dispatch, Actor, Service

\* Every step keeps a worker's place, stage and task together.
LEMMA PlacesStep == TypeOK /\ [Next]_vars => PlacesOK'
<1> SUFFICES ASSUME TypeOK, [Next]_vars PROVE PlacesOK'
  OBVIOUS
<1> USE DEF PlacesOK
<1> PlacesOK
  BY DEF TypeOK
<1>1. ASSUME NEW a \in Actor, DispatchNothing(a) PROVE PlacesOK'
  <2>1. broker' = broker
    BY <1>1 DEF DispatchNothing, queueVars
  <2> QED
    BY <1>1, <2>1, LeaveDispatchType DEF DispatchNothing
<1>2. ASSUME NEW a \in Actor, DispatchCount(a) PROVE PlacesOK'
  BY <1>2 DEF DispatchCount, TypeOK, TasksOK, ActorsOK, taskVars, Actor, Service
<1>3. ASSUME NEW a \in Actor, DispatchLease(a) PROVE PlacesOK'
  BY <1>3, LeaveDispatchType DEF DispatchLease
<1>4. ASSUME NEW m \in outbox, Publish(m) PROVE PlacesOK'
  BY <1>4 DEF Publish, TypeOK, TasksOK, ActorsOK, taskVars, Actor, Service
<1>5. ASSUME NEW m \in outbox, PublishUnmarked(m) PROVE PlacesOK'
  BY <1>5 DEF PublishUnmarked, TypeOK, TasksOK, ActorsOK, taskVars, Actor, Service
<1>6. ASSUME NEW w \in Worker, NEW m \in broker, ClaimLease(w, m) PROVE PlacesOK'
  BY <1>6 DEF ClaimLease, TypeOK, TasksOK, ActorsOK, taskVars, Actor, Service
<1>7. ASSUME NEW w \in Worker, NEW m \in broker, DiscardTask(w, m) PROVE PlacesOK'
  BY <1>7 DEF DiscardTask, TypeOK, TasksOK, ActorsOK, taskVars, Actor, Service
<1>8. ASSUME NEW w \in Worker, LoadRun(w) PROVE PlacesOK'
  BY <1>8 DEF LoadRun, TypeOK, TasksOK, ActorsOK, taskVars, Actor, Service
<1>9. ASSUME NEW w \in Worker, LoadCancelledRun(w) PROVE PlacesOK'
  <2>1. CloseTask(w) /\ broker' \subseteq Message
    BY <1>9 DEF LoadCancelledRun, queueVars, TypeOK, TasksOK
  <2> QED
    BY <2>1, CloseTaskType
<1>10. ASSUME NEW w \in Worker, StartRun(w) PROVE PlacesOK'
  BY <1>10 DEF StartRun, TypeOK, TasksOK, ActorsOK, taskVars, Actor, Service
<1>11. ASSUME NEW w \in Worker, CheckLease(w) PROVE PlacesOK'
  BY <1>11 DEF CheckLease, TypeOK, TasksOK, ActorsOK, taskVars, Actor, Service
<1>12. ASSUME NEW w \in Worker, Heartbeat(w) PROVE PlacesOK'
  BY <1>12 DEF Heartbeat, TypeOK, TasksOK, ActorsOK, taskVars, Actor, Service
<1>13. ASSUME NEW w \in Worker, Superseded(w) PROVE PlacesOK'
  <2>1. CloseTask(w) /\ broker' \subseteq Message
    BY <1>13 DEF Superseded, queueVars, TypeOK, TasksOK
  <2> QED
    BY <2>1, CloseTaskType
<1>14. ASSUME NEW w \in Worker, MasscanFound(w) PROVE PlacesOK'
  BY <1>14 DEF MasscanFound, TypeOK, TasksOK, ActorsOK, taskVars, Actor, Service
<1>15. ASSUME NEW w \in Worker, MasscanEmpty(w) PROVE PlacesOK'
  BY <1>15
     DEF MasscanEmpty, FinishLease, TypeOK, TasksOK, ActorsOK, taskVars, Actor,
         Service
<1>16. ASSUME NEW w \in Worker, NmapDone(w) PROVE PlacesOK'
  BY <1>16
     DEF NmapDone, FinishLease, TypeOK, TasksOK, ActorsOK, taskVars, Actor, Service
<1>17. ASSUME NEW w \in Worker, ScanFails(w) PROVE PlacesOK'
  BY <1>17
     DEF ScanFails, FinishLease, TypeOK, TasksOK, ActorsOK, taskVars, Actor, Service
<1>18. ASSUME NEW w \in Worker, ScanCancelled(w) PROVE PlacesOK'
  BY <1>18
     DEF ScanCancelled, FinishLease, TypeOK, TasksOK, ActorsOK, taskVars, Actor,
         Service
<1>19. ASSUME NEW w \in Worker, FinishCommit(w) PROVE PlacesOK'
  BY <1>19 DEF FinishCommit, TypeOK, TasksOK, ActorsOK, taskVars, Actor, Service
<1>20. ASSUME NEW w \in Worker, DuplicateCandidate(w) PROVE PlacesOK'
  <2>1. CloseTask(w) /\ broker' \subseteq Message
    BY <1>20 DEF DuplicateCandidate, queueVars, TypeOK, TasksOK
  <2> QED
    BY <2>1, CloseTaskType
<1>21. ASSUME RecoverSelect PROVE PlacesOK'
  BY <1>21, WorkerAssumption
     DEF RecoverSelect, TypeOK, ActorsOK, taskVars, Actor, Service
<1>22. ASSUME RecoverCommit PROVE PlacesOK'
  BY <1>22, WorkerAssumption
     DEF RecoverCommit, TypeOK, ActorsOK, taskVars, Actor, Service
<1>23. ASSUME ReconcileRead PROVE PlacesOK'
  BY <1>23, WorkerAssumption
     DEF ReconcileRead, TypeOK, ActorsOK, taskVars, Actor, Service
<1>24. ASSUME ReconcileCommit PROVE PlacesOK'
  BY <1>24, WorkerAssumption
     DEF ReconcileCommit, TypeOK, ActorsOK, taskVars, Actor, Service
<1>25. ASSUME DispatchReady PROVE PlacesOK'
  BY <1>25, WorkerAssumption
     DEF DispatchReady, TypeOK, ActorsOK, taskVars, Actor, Service
<1>26. ASSUME CancelRead PROVE PlacesOK'
  BY <1>26, WorkerAssumption DEF CancelRead, TypeOK, ActorsOK, taskVars, Actor, Service
<1>27. ASSUME CancelCommit PROVE PlacesOK'
  BY <1>27, WorkerAssumption
     DEF CancelCommit, TypeOK, ActorsOK, taskVars, Actor, Service
<1>28. ASSUME NEW w \in Worker, CrashWorker(w) PROVE PlacesOK'
  <2>1. CloseTask(w) /\ broker' \subseteq Message
    BY <1>28 DEF CrashWorker, TypeOK, TasksOK
  <2> QED
    BY <2>1, CloseTaskType
<1>29. ASSUME NEW a \in {"api", "scheduler"}, RestartService(a) PROVE PlacesOK'
  BY <1>29, WorkerAssumption
     DEF RestartService, TypeOK, ActorsOK, taskVars, Actor, Service
<1>30. ASSUME NEW s \in Shard, LeaseExpires(s) PROVE PlacesOK'
  BY <1>30 DEF LeaseExpires, TypeOK, TasksOK, ActorsOK, taskVars, Actor, Service
<1>31. ASSUME NEW s \in Shard, HeartbeatLate(s) PROVE PlacesOK'
  BY <1>31 DEF HeartbeatLate, TypeOK, TasksOK, ActorsOK, taskVars, Actor, Service
<1>32. ASSUME NEW s \in Shard, OrphanExpires(s) PROVE PlacesOK'
  BY <1>32 DEF OrphanExpires, TypeOK, TasksOK, ActorsOK, taskVars, Actor, Service
<1>33. ASSUME NEW s \in Shard, BackoffElapses(s) PROVE PlacesOK'
  BY <1>33 DEF BackoffElapses, TypeOK, TasksOK, ActorsOK, taskVars, Actor, Service
<1>34. ASSUME UNCHANGED vars PROVE PlacesOK'
  BY <1>34 DEF vars, taskVars, Actor, Service
<1> QED
  BY <1>1, <1>2, <1>3, <1>4, <1>5, <1>6, <1>7, <1>8, <1>9, <1>10, <1>11, <1>12,
     <1>13, <1>14, <1>15, <1>16, <1>17, <1>18, <1>19, <1>20, <1>21, <1>22, <1>23,
     <1>24, <1>25, <1>26, <1>27, <1>28, <1>29, <1>30, <1>31, <1>32, <1>33, <1>34
     DEF Next, WorkerStep, Take, Execute, ScanEnds, Dispatch, Actor, Service

-----------------------------------------------------------------------------
\* The initial state is well typed.
LEMMA InitType == Init => TypeOK
<1> SUFFICES ASSUME Init PROVE TypeOK
  OBVIOUS
<1>1. DatabaseOK
  BY DEF Init, DatabaseOK, RunStatus, ShardStatus
<1>2. TasksOK
  BY DEF Init, TasksOK, RunStatus
<1>3. ActorsOK
  BY DisturbanceAssumption DEF Init, ActorsOK, Place
<1>4. PlacesOK
  BY WorkerAssumption DEF Init, PlacesOK, Service, Actor
<1> QED
  BY <1>1, <1>2, <1>3, <1>4 DEF TypeOK

\* Every step keeps the types.
LEMMA TypeStep == TypeOK /\ [Next]_vars => TypeOK'
  BY DatabaseStep, TasksStep, ActorsStep, PlacesStep DEF TypeOK

\* Every variable keeps its type in every reachable state, for any number of
\* shards and workers, whatever crashes, restarts or is delivered twice.
THEOREM TypeCorrect == Spec => []TypeOK
  BY InitType, TypeStep, PTL DEF Spec

-----------------------------------------------------------------------------
\* A worker past StartRun of its execution.
Started(w) == Executing(w) /\ pc[w] \notin {"claimed", "loaded"}

\* No lease, message or task has a token that was not issued.
TokensIssued ==
  /\ \A s \in Shard : /\ leaseToken[s] <= lastToken[s]
                      /\ s \in Active => leaseToken[s] > 0
  /\ \A m \in outbox \cup broker : m.token <= lastToken[m.shard]
  /\ \A w \in Worker : job[w] \in Message => job[w].token <= lastToken[job[w].shard]

\* Nobody executes under a lease that waits for its worker.
FreshLease == \A s \in Shard : status[s] = "leased" => Orphan(s)

\* The row lock of finish_lease: until its commit the lease is the worker's.
CommitOwns == \A w \in Worker : pc[w] = "commit" => Owns(w)

\* The owner that has cleared the shard's results is alone to add to them.
CleanStart ==
  \A w \in Worker : Started(w) /\ Owns(w) => results[job[w].shard] = {}

IInv == /\ TypeOK
        /\ TokensIssued
        /\ FreshLease
        /\ SingleExecutor
        /\ CommitOwns
        /\ CleanStart
        /\ FencedResults
        /\ NoLostDispatch

-----------------------------------------------------------------------------
\* After the step a worker has the task it had or none, and starts nothing.
Kept(w) ==
  /\ job'[w] \in {job[w], NoMessage}
  /\ Executing(w)' => Executing(w) /\ job'[w] = job[w]
  /\ Started(w)' => Started(w)
  /\ pc'[w] = "commit" => job'[w] = job[w] /\ (pc[w] = "commit" \/ Owns(w))

AllKept == \A w \in Worker : Kept(w)

\* No message appears but a task that was put back.
NoNewMessage ==
  \A m \in outbox' \cup broker' :
    m \in outbox \cup broker \/ \E w \in Worker : job[w] \in Message /\ m = job[w]

\* The message of a lease that waits is not lost.
LeasesCarried ==
  \A s \in Shard :
    /\ status[s] = "leased"
    /\ [shard |-> s, token |-> leaseToken[s]] \in outbox \cup broker
    => [shard |-> s, token |-> leaseToken[s]] \in outbox' \cup broker'

\* A step that touches no lease, no token and no result.
Quiet ==
  /\ UNCHANGED <<status, leaseToken, lastToken, results>>
  /\ AllKept
  /\ NoNewMessage
  /\ LeasesCarried

\* Closing a session ends a worker's execution and leaves the others alone.
LEMMA CloseTaskKeeps ==
  ASSUME TypeOK, NEW w \in Worker, CloseTask(w)
  PROVE  AllKept
<1> SUFFICES ASSUME NEW v \in Worker PROVE Kept(v)
  BY DEF AllKept
<1>1. CASE v = w
  BY <1>1 DEF TypeOK, TasksOK, ActorsOK, CloseTask, Kept, Executing, Started, Actor
<1>2. CASE v # w
  BY <1>2 DEF TypeOK, TasksOK, ActorsOK, CloseTask, Kept, Executing, Started, Actor
<1> QED
  BY <1>1, <1>2

\* So does the end of a dispatch: a worker that executes goes on.
LEMMA LeaveDispatchKeeps ==
  ASSUME TypeOK, NEW a \in Actor, pc[a] \in {"dispatch", "lease"}, LeaveDispatch(a)
  PROVE  AllKept
<1>1. CASE a \in Worker /\ stage[a] # "end"
  BY <1>1
     DEF TypeOK, TasksOK, ActorsOK, LeaveDispatch, AllKept, Kept, Executing, Started,
         Actor, taskVars
<1>2. CASE a \in Worker /\ stage[a] = "end"
  BY <1>2, CloseTaskKeeps DEF LeaveDispatch
<1>3. CASE a \notin Worker
  BY <1>3
     DEF TypeOK, TasksOK, ActorsOK, LeaveDispatch, AllKept, Kept, Executing, Started,
         Actor, taskVars
<1> QED
  BY <1>1, <1>2, <1>3

\* A step that changes no queue loses no message and adds none.
LEMMA QueuesKept ==
  ASSUME outbox' = outbox, broker' = broker
  PROVE  NoNewMessage /\ LeasesCarried
  BY DEF NoNewMessage, LeasesCarried

\* The steps that do change leases, tokens or results.
Loud ==
  \/ \E a \in Actor : DispatchLease(a)
  \/ \E w \in Worker : \E m \in broker : ClaimLease(w, m)
  \/ \E w \in Worker : LoadCancelledRun(w) \/ StartRun(w) \/ FinishCommit(w)
  \/ RecoverCommit \/ CancelCommit

\* Every other step is quiet: one proof step per action.
LEMMA StepKinds == TypeOK /\ [Next]_vars => Quiet \/ Loud
<1> SUFFICES ASSUME TypeOK, [Next]_vars PROVE Quiet \/ Loud
  OBVIOUS
<1>1. ASSUME NEW a \in Actor, DispatchNothing(a) PROVE Quiet \/ Loud
  <2>1. UNCHANGED <<status, leaseToken, lastToken, results>>
    BY <1>1 DEF DispatchNothing, leaseVars, rowVars
  <2>2. AllKept
    BY <1>1, LeaveDispatchKeeps DEF DispatchNothing
  <2>3. NoNewMessage /\ LeasesCarried
    BY <1>1, QueuesKept DEF DispatchNothing, queueVars
  <2> QED
    BY <2>1, <2>2, <2>3 DEF Quiet
<1>2. ASSUME NEW a \in Actor, DispatchCount(a) PROVE Quiet \/ Loud
  <2>1. UNCHANGED <<status, leaseToken, lastToken, results>>
    BY <1>2 DEF DispatchCount, leaseVars, rowVars
  <2>2. AllKept
    BY <1>2, WorkerAssumption
       DEF DispatchCount, TypeOK, TasksOK, ActorsOK, PlacesOK, AllKept, Kept,
           Executing, Started, Actor, Service, taskVars
  <2>3. NoNewMessage /\ LeasesCarried
    BY <1>2, QueuesKept DEF DispatchCount, queueVars
  <2> QED
    BY <2>1, <2>2, <2>3 DEF Quiet
<1>3. ASSUME NEW a \in Actor, DispatchLease(a) PROVE Quiet \/ Loud
  BY <1>3 DEF Loud
<1>4. ASSUME NEW m \in outbox, Publish(m) PROVE Quiet \/ Loud
  <2>1. UNCHANGED <<status, leaseToken, lastToken, results>>
    BY <1>4 DEF Publish, leaseVars, rowVars
  <2>2. AllKept
    BY <1>4, WorkerAssumption
       DEF Publish, TypeOK, TasksOK, ActorsOK, PlacesOK, AllKept, Kept, Executing,
           Started, Actor, Service, taskVars
  <2>3. NoNewMessage /\ LeasesCarried
    BY <1>4 DEF Publish, NoNewMessage, LeasesCarried
  <2> QED
    BY <2>1, <2>2, <2>3 DEF Quiet
<1>5. ASSUME NEW m \in outbox, PublishUnmarked(m) PROVE Quiet \/ Loud
  <2>1. UNCHANGED <<status, leaseToken, lastToken, results>>
    BY <1>5 DEF PublishUnmarked, leaseVars, rowVars
  <2>2. AllKept
    BY <1>5, WorkerAssumption
       DEF PublishUnmarked, TypeOK, TasksOK, ActorsOK, PlacesOK, AllKept, Kept,
           Executing, Started, Actor, Service, taskVars
  <2>3. NoNewMessage /\ LeasesCarried
    BY <1>5 DEF PublishUnmarked, NoNewMessage, LeasesCarried
  <2> QED
    BY <2>1, <2>2, <2>3 DEF Quiet
<1>6. ASSUME NEW w \in Worker, NEW m \in broker, ClaimLease(w, m) PROVE Quiet \/ Loud
  BY <1>6 DEF Loud
<1>7. ASSUME NEW w \in Worker, NEW m \in broker, DiscardTask(w, m) PROVE Quiet \/ Loud
  <2>1. UNCHANGED <<status, leaseToken, lastToken, results>>
    BY <1>7 DEF DiscardTask, leaseVars, rowVars
  <2>2. AllKept
    BY <1>7, WorkerAssumption
       DEF DiscardTask, TypeOK, TasksOK, ActorsOK, PlacesOK, AllKept, Kept, Executing,
           Started, Actor, Service, taskVars
  <2>3. NoNewMessage /\ LeasesCarried
    BY <1>7
       DEF DiscardTask, Claimable, TypeOK, TasksOK, ActorsOK, PlacesOK, Message,
           NoNewMessage, LeasesCarried
  <2> QED
    BY <2>1, <2>2, <2>3 DEF Quiet
<1>8. ASSUME NEW w \in Worker, LoadRun(w) PROVE Quiet \/ Loud
  <2>1. UNCHANGED <<status, leaseToken, lastToken, results>>
    BY <1>8 DEF LoadRun, leaseVars, rowVars
  <2>2. AllKept
    BY <1>8, WorkerAssumption
       DEF LoadRun, TypeOK, TasksOK, ActorsOK, PlacesOK, AllKept, Kept, Executing,
           Started, Actor, Service, taskVars
  <2>3. NoNewMessage /\ LeasesCarried
    BY <1>8, QueuesKept DEF LoadRun, queueVars
  <2> QED
    BY <2>1, <2>2, <2>3 DEF Quiet
<1>9. ASSUME NEW w \in Worker, LoadCancelledRun(w) PROVE Quiet \/ Loud
  BY <1>9 DEF Loud
<1>10. ASSUME NEW w \in Worker, StartRun(w) PROVE Quiet \/ Loud
  BY <1>10 DEF Loud
<1>11. ASSUME NEW w \in Worker, CheckLease(w) PROVE Quiet \/ Loud
  <2>1. UNCHANGED <<status, leaseToken, lastToken, results>>
    BY <1>11 DEF CheckLease, leaseVars, rowVars
  <2>2. AllKept
    BY <1>11, WorkerAssumption
       DEF CheckLease, TypeOK, TasksOK, ActorsOK, PlacesOK, AllKept, Kept, Executing,
           Started, Actor, Service, taskVars
  <2>3. NoNewMessage /\ LeasesCarried
    BY <1>11, QueuesKept DEF CheckLease, queueVars
  <2> QED
    BY <2>1, <2>2, <2>3 DEF Quiet
<1>12. ASSUME NEW w \in Worker, Heartbeat(w) PROVE Quiet \/ Loud
  <2>1. UNCHANGED <<status, leaseToken, lastToken, results>>
    BY <1>12 DEF Heartbeat, leaseVars, rowVars
  <2>2. AllKept
    BY <1>12, WorkerAssumption
       DEF Heartbeat, TypeOK, TasksOK, ActorsOK, PlacesOK, AllKept, Kept, Executing,
           Started, Actor, Service, taskVars
  <2>3. NoNewMessage /\ LeasesCarried
    BY <1>12, QueuesKept DEF Heartbeat, queueVars
  <2> QED
    BY <2>1, <2>2, <2>3 DEF Quiet
<1>13. ASSUME NEW w \in Worker, Superseded(w) PROVE Quiet \/ Loud
  <2>1. UNCHANGED <<status, leaseToken, lastToken, results>>
    BY <1>13 DEF Superseded, leaseVars, rowVars
  <2>2. AllKept
    BY <1>13, CloseTaskKeeps DEF Superseded
  <2>3. NoNewMessage /\ LeasesCarried
    BY <1>13, QueuesKept DEF Superseded, queueVars
  <2> QED
    BY <2>1, <2>2, <2>3 DEF Quiet
<1>14. ASSUME NEW w \in Worker, MasscanFound(w) PROVE Quiet \/ Loud
  <2>1. UNCHANGED <<status, leaseToken, lastToken, results>>
    BY <1>14 DEF MasscanFound, leaseVars, rowVars
  <2>2. AllKept
    BY <1>14, WorkerAssumption
       DEF MasscanFound, TypeOK, TasksOK, ActorsOK, PlacesOK, AllKept, Kept,
           Executing, Started, Actor, Service, taskVars
  <2>3. NoNewMessage /\ LeasesCarried
    BY <1>14, QueuesKept DEF MasscanFound, queueVars
  <2> QED
    BY <2>1, <2>2, <2>3 DEF Quiet
<1>15. ASSUME NEW w \in Worker, MasscanEmpty(w) PROVE Quiet \/ Loud
  <2>1. UNCHANGED <<status, leaseToken, lastToken, results>>
    BY <1>15 DEF MasscanEmpty, FinishLease, leaseVars, rowVars
  <2>2. AllKept
    BY <1>15
       DEF MasscanEmpty, FinishLease, TypeOK, TasksOK, ActorsOK, PlacesOK, AllKept,
           Kept, Executing, Started, Actor
  <2>3. NoNewMessage /\ LeasesCarried
    BY <1>15, QueuesKept DEF MasscanEmpty, FinishLease, queueVars
  <2> QED
    BY <2>1, <2>2, <2>3 DEF Quiet
<1>16. ASSUME NEW w \in Worker, NmapDone(w) PROVE Quiet \/ Loud
  <2>1. UNCHANGED <<status, leaseToken, lastToken, results>>
    BY <1>16 DEF NmapDone, FinishLease, leaseVars, rowVars
  <2>2. AllKept
    BY <1>16
       DEF NmapDone, FinishLease, TypeOK, TasksOK, ActorsOK, PlacesOK, AllKept, Kept,
           Executing, Started, Actor
  <2>3. NoNewMessage /\ LeasesCarried
    BY <1>16, QueuesKept DEF NmapDone, FinishLease, queueVars
  <2> QED
    BY <2>1, <2>2, <2>3 DEF Quiet
<1>17. ASSUME NEW w \in Worker, ScanFails(w) PROVE Quiet \/ Loud
  <2>1. UNCHANGED <<status, leaseToken, lastToken, results>>
    BY <1>17 DEF ScanFails, FinishLease, leaseVars, rowVars
  <2>2. AllKept
    BY <1>17
       DEF ScanFails, FinishLease, TypeOK, TasksOK, ActorsOK, PlacesOK, AllKept, Kept,
           Executing, Started, Actor
  <2>3. NoNewMessage /\ LeasesCarried
    BY <1>17, QueuesKept DEF ScanFails, FinishLease, queueVars
  <2> QED
    BY <2>1, <2>2, <2>3 DEF Quiet
<1>18. ASSUME NEW w \in Worker, ScanCancelled(w) PROVE Quiet \/ Loud
  <2>1. UNCHANGED <<status, leaseToken, lastToken, results>>
    BY <1>18 DEF ScanCancelled, FinishLease, leaseVars, rowVars
  <2>2. AllKept
    BY <1>18
       DEF ScanCancelled, FinishLease, TypeOK, TasksOK, ActorsOK, PlacesOK, AllKept,
           Kept, Executing, Started, Actor
  <2>3. NoNewMessage /\ LeasesCarried
    BY <1>18, QueuesKept DEF ScanCancelled, FinishLease, queueVars
  <2> QED
    BY <2>1, <2>2, <2>3 DEF Quiet
<1>19. ASSUME NEW w \in Worker, FinishCommit(w) PROVE Quiet \/ Loud
  BY <1>19 DEF Loud
<1>20. ASSUME NEW w \in Worker, DuplicateCandidate(w) PROVE Quiet \/ Loud
  <2>1. UNCHANGED <<status, leaseToken, lastToken, results>>
    BY <1>20 DEF DuplicateCandidate, leaseVars, rowVars
  <2>2. AllKept
    BY <1>20, CloseTaskKeeps DEF DuplicateCandidate
  <2>3. NoNewMessage /\ LeasesCarried
    BY <1>20, QueuesKept DEF DuplicateCandidate, queueVars
  <2> QED
    BY <2>1, <2>2, <2>3 DEF Quiet
<1>21. ASSUME RecoverSelect PROVE Quiet \/ Loud
  <2>1. UNCHANGED <<status, leaseToken, lastToken, results>>
    BY <1>21 DEF RecoverSelect, leaseVars, rowVars
  <2>2. AllKept
    BY <1>21, WorkerAssumption
       DEF RecoverSelect, TypeOK, TasksOK, ActorsOK, PlacesOK, AllKept, Kept,
           Executing, Started, Actor, Service, taskVars
  <2>3. NoNewMessage /\ LeasesCarried
    BY <1>21, QueuesKept DEF RecoverSelect, queueVars
  <2> QED
    BY <2>1, <2>2, <2>3 DEF Quiet
<1>22. ASSUME RecoverCommit PROVE Quiet \/ Loud
  BY <1>22 DEF Loud
<1>23. ASSUME ReconcileRead PROVE Quiet \/ Loud
  <2>1. UNCHANGED <<status, leaseToken, lastToken, results>>
    BY <1>23 DEF ReconcileRead, leaseVars, rowVars
  <2>2. AllKept
    BY <1>23, WorkerAssumption
       DEF ReconcileRead, TypeOK, TasksOK, ActorsOK, PlacesOK, AllKept, Kept,
           Executing, Started, Actor, Service, taskVars
  <2>3. NoNewMessage /\ LeasesCarried
    BY <1>23, QueuesKept DEF ReconcileRead, queueVars
  <2> QED
    BY <2>1, <2>2, <2>3 DEF Quiet
<1>24. ASSUME ReconcileCommit PROVE Quiet \/ Loud
  <2>1. UNCHANGED <<status, leaseToken, lastToken, results>>
    BY <1>24 DEF ReconcileCommit, leaseVars, rowVars
  <2>2. AllKept
    BY <1>24, WorkerAssumption
       DEF ReconcileCommit, TypeOK, TasksOK, ActorsOK, PlacesOK, AllKept, Kept,
           Executing, Started, Actor, Service, taskVars
  <2>3. NoNewMessage /\ LeasesCarried
    BY <1>24, QueuesKept DEF ReconcileCommit, queueVars
  <2> QED
    BY <2>1, <2>2, <2>3 DEF Quiet
<1>25. ASSUME DispatchReady PROVE Quiet \/ Loud
  <2>1. UNCHANGED <<status, leaseToken, lastToken, results>>
    BY <1>25 DEF DispatchReady, leaseVars, rowVars
  <2>2. AllKept
    BY <1>25, WorkerAssumption
       DEF DispatchReady, TypeOK, TasksOK, ActorsOK, PlacesOK, AllKept, Kept,
           Executing, Started, Actor, Service, taskVars
  <2>3. NoNewMessage /\ LeasesCarried
    BY <1>25, QueuesKept DEF DispatchReady, queueVars
  <2> QED
    BY <2>1, <2>2, <2>3 DEF Quiet
<1>26. ASSUME CancelRead PROVE Quiet \/ Loud
  <2>1. UNCHANGED <<status, leaseToken, lastToken, results>>
    BY <1>26 DEF CancelRead, leaseVars, rowVars
  <2>2. AllKept
    BY <1>26, WorkerAssumption
       DEF CancelRead, TypeOK, TasksOK, ActorsOK, PlacesOK, AllKept, Kept, Executing,
           Started, Actor, Service, taskVars
  <2>3. NoNewMessage /\ LeasesCarried
    BY <1>26, QueuesKept DEF CancelRead, queueVars
  <2> QED
    BY <2>1, <2>2, <2>3 DEF Quiet
<1>27. ASSUME CancelCommit PROVE Quiet \/ Loud
  BY <1>27 DEF Loud
<1>28. ASSUME NEW w \in Worker, CrashWorker(w) PROVE Quiet \/ Loud
  <2>1. UNCHANGED <<status, leaseToken, lastToken, results>>
    BY <1>28 DEF CrashWorker, leaseVars, rowVars
  <2>2. AllKept
    BY <1>28, CloseTaskKeeps DEF CrashWorker
  <2>3. NoNewMessage /\ LeasesCarried
    BY <1>28
       DEF CrashWorker, TypeOK, TasksOK, ActorsOK, PlacesOK, NoNewMessage,
           LeasesCarried
  <2> QED
    BY <2>1, <2>2, <2>3 DEF Quiet
<1>29. ASSUME NEW a \in {"api", "scheduler"}, RestartService(a) PROVE Quiet \/ Loud
  <2>1. UNCHANGED <<status, leaseToken, lastToken, results>>
    BY <1>29 DEF RestartService, leaseVars, rowVars
  <2>2. AllKept
    BY <1>29, WorkerAssumption
       DEF RestartService, TypeOK, TasksOK, ActorsOK, PlacesOK, AllKept, Kept,
           Executing, Started, Actor, Service, taskVars
  <2>3. NoNewMessage /\ LeasesCarried
    BY <1>29, QueuesKept DEF RestartService, queueVars
  <2> QED
    BY <2>1, <2>2, <2>3 DEF Quiet
<1>30. ASSUME NEW s \in Shard, LeaseExpires(s) PROVE Quiet \/ Loud
  <2>1. UNCHANGED <<status, leaseToken, lastToken, results>>
    BY <1>30 DEF LeaseExpires, leaseVars, rowVars
  <2>2. AllKept
    BY <1>30, WorkerAssumption
       DEF LeaseExpires, TypeOK, TasksOK, ActorsOK, PlacesOK, AllKept, Kept,
           Executing, Started, Actor, Service, taskVars
  <2>3. NoNewMessage /\ LeasesCarried
    BY <1>30, QueuesKept DEF LeaseExpires, queueVars
  <2> QED
    BY <2>1, <2>2, <2>3 DEF Quiet
<1>31. ASSUME NEW s \in Shard, HeartbeatLate(s) PROVE Quiet \/ Loud
  <2>1. UNCHANGED <<status, leaseToken, lastToken, results>>
    BY <1>31 DEF HeartbeatLate, leaseVars, rowVars
  <2>2. AllKept
    BY <1>31, WorkerAssumption
       DEF HeartbeatLate, TypeOK, TasksOK, ActorsOK, PlacesOK, AllKept, Kept,
           Executing, Started, Actor, Service, taskVars
  <2>3. NoNewMessage /\ LeasesCarried
    BY <1>31, QueuesKept DEF HeartbeatLate, queueVars
  <2> QED
    BY <2>1, <2>2, <2>3 DEF Quiet
<1>32. ASSUME NEW s \in Shard, OrphanExpires(s) PROVE Quiet \/ Loud
  <2>1. UNCHANGED <<status, leaseToken, lastToken, results>>
    BY <1>32 DEF OrphanExpires, leaseVars, rowVars
  <2>2. AllKept
    BY <1>32, WorkerAssumption
       DEF OrphanExpires, TypeOK, TasksOK, ActorsOK, PlacesOK, AllKept, Kept,
           Executing, Started, Actor, Service, taskVars
  <2>3. NoNewMessage /\ LeasesCarried
    BY <1>32, QueuesKept DEF OrphanExpires, queueVars
  <2> QED
    BY <2>1, <2>2, <2>3 DEF Quiet
<1>33. ASSUME NEW s \in Shard, BackoffElapses(s) PROVE Quiet \/ Loud
  <2>1. UNCHANGED <<status, leaseToken, lastToken, results>>
    BY <1>33 DEF BackoffElapses, leaseVars, rowVars
  <2>2. AllKept
    BY <1>33, WorkerAssumption
       DEF BackoffElapses, TypeOK, TasksOK, ActorsOK, PlacesOK, AllKept, Kept,
           Executing, Started, Actor, Service, taskVars
  <2>3. NoNewMessage /\ LeasesCarried
    BY <1>33, QueuesKept DEF BackoffElapses, queueVars
  <2> QED
    BY <2>1, <2>2, <2>3 DEF Quiet
<1>34. ASSUME UNCHANGED vars PROVE Quiet \/ Loud
  BY <1>34, QueuesKept
     DEF vars, Quiet, AllKept, Kept, Executing, Started, Actor, leaseVars, rowVars,
         queueVars, taskVars
<1> QED
  BY <1>1, <1>2, <1>3, <1>4, <1>5, <1>6, <1>7, <1>8, <1>9, <1>10, <1>11, <1>12,
     <1>13, <1>14, <1>15, <1>16, <1>17, <1>18, <1>19, <1>20, <1>21, <1>22, <1>23,
     <1>24, <1>25, <1>26, <1>27, <1>28, <1>29, <1>30, <1>31, <1>32, <1>33, <1>34
     DEF Next, WorkerStep, Take, Execute, ScanEnds, Dispatch, Actor, Service

-----------------------------------------------------------------------------
\* Only a claim and the start of a scan give a worker something new.
LEMMA TasksKept ==
  ASSUME TypeOK, [Next]_vars
  PROVE  \/ AllKept
         \/ \E w \in Worker : \E m \in broker : ClaimLease(w, m)
         \/ \E w \in Worker : StartRun(w)
<1>1. ASSUME NEW a \in Actor, DispatchLease(a) PROVE AllKept
  BY <1>1, LeaveDispatchKeeps DEF DispatchLease
<1>2. ASSUME NEW w \in Worker, LoadCancelledRun(w) PROVE AllKept
  BY <1>2, CloseTaskKeeps DEF LoadCancelledRun
<1>3. ASSUME NEW w \in Worker, FinishCommit(w) PROVE AllKept
  BY <1>3
     DEF FinishCommit, TypeOK, TasksOK, ActorsOK, AllKept, Kept, Executing, Started,
         Actor
<1>4. ASSUME RecoverCommit PROVE AllKept
  BY <1>4, WorkerAssumption
     DEF RecoverCommit, TypeOK, ActorsOK, AllKept, Kept, Executing, Started, Actor,
         Service, taskVars
<1>5. ASSUME CancelCommit PROVE AllKept
  BY <1>5, WorkerAssumption
     DEF CancelCommit, TypeOK, ActorsOK, AllKept, Kept, Executing, Started, Actor,
         Service, taskVars
<1> QED
  BY <1>1, <1>2, <1>3, <1>4, <1>5, StepKinds DEF Loud, Quiet

\* Only a dispatch adds messages and issues tokens.
LEMMA MessagesKept ==
  ASSUME TypeOK, [Next]_vars
  PROVE  \/ NoNewMessage /\ lastToken' = lastToken
         \/ \E a \in Actor : DispatchLease(a)
<1> DEFINE Goal == NoNewMessage /\ lastToken' = lastToken
<1>1. ASSUME NEW w \in Worker, NEW m \in broker, ClaimLease(w, m) PROVE Goal
  BY <1>1 DEF ClaimLease, NoNewMessage
<1>2. ASSUME NEW w \in Worker, LoadCancelledRun(w) PROVE Goal
  BY <1>2, QueuesKept DEF LoadCancelledRun, queueVars
<1>3. ASSUME NEW w \in Worker, StartRun(w) PROVE Goal
  BY <1>3, QueuesKept DEF StartRun, queueVars, leaseVars
<1>4. ASSUME NEW w \in Worker, FinishCommit(w) PROVE Goal
  BY <1>4, QueuesKept DEF FinishCommit, queueVars
<1>5. ASSUME RecoverCommit PROVE Goal
  BY <1>5, QueuesKept DEF RecoverCommit, queueVars
<1>6. ASSUME CancelCommit PROVE Goal
  BY <1>6, QueuesKept DEF CancelCommit, queueVars
<1> QED
  BY <1>1, <1>2, <1>3, <1>4, <1>5, <1>6, StepKinds DEF Loud, Quiet

\* A shard is found leased, running or completed after a step only if that is
\* what the step made it, or what it was, under the same token.
LEMMA LeasesKept ==
  ASSUME TypeOK, [Next]_vars, NEW s \in Shard
  PROVE  \/ status'[s] = status[s] /\ leaseToken'[s] = leaseToken[s]
         \/ /\ status'[s] \in {"queued", "cancelled", "dead_letter"}
            /\ leaseToken'[s] \in {leaseToken[s], 0}
         \/ \E a \in Actor : /\ DispatchLease(a)
                             /\ status[s] = "queued" /\ status'[s] = "leased"
                             /\ leaseToken'[s] = lastToken[s] + 1
                             /\ lastToken'[s] = lastToken[s] + 1
         \/ \E w \in Worker : \E m \in broker :
              /\ ClaimLease(w, m)
              /\ m = [shard |-> s, token |-> leaseToken[s]]
              /\ status[s] = "leased" /\ status'[s] = "running"
              /\ leaseToken'[s] = leaseToken[s]
         \/ \E w \in Worker : /\ FinishCommit(w)
                              /\ s = job[w].shard
                              /\ status'[s] = "completed"
                              /\ leaseToken'[s] = leaseToken[s]
<1> DEFINE Goal == \/ status'[s] = status[s] /\ leaseToken'[s] = leaseToken[s]
                   \/ /\ status'[s] \in {"queued", "cancelled", "dead_letter"}
                      /\ leaseToken'[s] \in {leaseToken[s], 0}
<1>1. CASE Quiet
  BY <1>1 DEF Quiet
<1>2. ASSUME NEW a \in Actor, DispatchLease(a)
      PROVE  \/ Goal
             \/ /\ status[s] = "queued" /\ status'[s] = "leased"
                /\ leaseToken'[s] = lastToken[s] + 1
                /\ lastToken'[s] = lastToken[s] + 1
  BY <1>2 DEF DispatchLease, FirstOf, Ready
<1>3. ASSUME NEW w \in Worker, NEW m \in broker, ClaimLease(w, m)
      PROVE  \/ Goal
             \/ /\ m = [shard |-> s, token |-> leaseToken[s]]
                /\ status[s] = "leased" /\ status'[s] = "running"
                /\ leaseToken'[s] = leaseToken[s]
  <2>1. m \in Message
    BY DEF TypeOK, TasksOK
  <2>2. CASE m.shard = s
    BY <1>3, <2>1, <2>2 DEF ClaimLease, Claimable, Message, TypeOK, DatabaseOK
  <2>3. CASE m.shard # s
    BY <1>3, <2>1, <2>3 DEF ClaimLease, Message, TypeOK, DatabaseOK
  <2> QED
    BY <2>2, <2>3
<1>4. ASSUME NEW w \in Worker, LoadCancelledRun(w) PROVE Goal
  BY <1>4 DEF LoadCancelledRun, TypeOK, DatabaseOK
<1>5. ASSUME NEW w \in Worker, StartRun(w) PROVE Goal
  BY <1>5 DEF StartRun, leaseVars
<1>6. ASSUME NEW w \in Worker, FinishCommit(w)
      PROVE  \/ Goal
             \/ /\ s = job[w].shard
                /\ status'[s] = "completed" /\ leaseToken'[s] = leaseToken[s]
  BY <1>6 DEF FinishCommit, TypeOK, DatabaseOK, TasksOK
<1>7. ASSUME RecoverCommit PROVE Goal
  BY <1>7 DEF RecoverCommit
<1>8. ASSUME CancelCommit PROVE Goal
  BY <1>8 DEF CancelCommit
<1> QED
  BY <1>1, <1>2, <1>3, <1>4, <1>5, <1>6, <1>7, <1>8, StepKinds DEF Loud

-----------------------------------------------------------------------------
\* The dispatch issues tokens that no message and no task has yet.
LEMMA TokensStep == IInv /\ [Next]_vars => TokensIssued'
<1> SUFFICES ASSUME IInv, [Next]_vars PROVE TokensIssued'
  OBVIOUS
<1>1. TypeOK /\ TokensIssued
  BY DEF IInv
<1>2. ASSUME NEW s \in Shard PROVE lastToken'[s] \in Nat /\ lastToken[s] <= lastToken'[s]
  <2>1. CASE lastToken' = lastToken
    BY <1>1, <2>1 DEF TypeOK, DatabaseOK
  <2>2. ASSUME NEW a \in Actor, DispatchLease(a)
        PROVE  lastToken'[s] \in Nat /\ lastToken[s] <= lastToken'[s]
    BY <1>1, <2>2 DEF DispatchLease, TypeOK, DatabaseOK
  <2> QED
    BY <1>1, <2>1, <2>2, MessagesKept
<1>3. ASSUME NEW s \in Shard
      PROVE  leaseToken'[s] <= lastToken'[s] /\ (s \in Active' => leaseToken'[s] > 0)
  BY <1>1, <1>2, <1>3, LeasesKept DEF TokensIssued, Active, TypeOK, DatabaseOK
<1>4. ASSUME NEW w \in Worker, job[w] \in Message
      PROVE  job[w].token <= lastToken'[job[w].shard]
  BY <1>1, <1>2, <1>4 DEF TokensIssued, Message, TypeOK, DatabaseOK
<1>5. ASSUME NEW m \in outbox \cup broker
      PROVE  m \in Message /\ m.token <= lastToken'[m.shard]
  BY <1>1, <1>2, <1>5 DEF TokensIssued, Message, TypeOK, DatabaseOK, TasksOK
<1>6. ASSUME NEW m \in outbox' \cup broker' PROVE m.token <= lastToken'[m.shard]
  <2>1. CASE NoNewMessage
    BY <1>4, <1>5, <1>6, <2>1 DEF NoNewMessage
  <2>2. ASSUME NEW a \in Actor, DispatchLease(a) PROVE m.token <= lastToken'[m.shard]
    <3>1. CASE m \in outbox \cup broker
      BY <1>5, <3>1
    <3>2. CASE m \in Events(FirstOf(Ready, room[a]))
      <4>1. PICK s \in FirstOf(Ready, room[a]) : m = [shard |-> s, token |-> lastToken[s] + 1]
        BY <3>2 DEF Events
      <4>2. s \in Shard
        BY DEF FirstOf, Ready
      <4> QED
        BY <1>1, <2>2, <4>1, <4>2 DEF DispatchLease, TypeOK, DatabaseOK
    <3> QED
      BY <1>6, <2>2, <3>1, <3>2 DEF DispatchLease
  <2> QED
    BY <1>1, <2>1, <2>2, MessagesKept
<1>7. ASSUME NEW w \in Worker, job'[w] \in Message
      PROVE  job'[w].token <= lastToken'[job'[w].shard]
  <2>1. NoMessage \notin Message
    BY ShardAssumption DEF NoMessage, Message
  <2>2. CASE AllKept
    BY <1>4, <1>7, <2>1, <2>2 DEF AllKept, Kept
  <2>3. ASSUME NEW v \in Worker, NEW m \in broker, ClaimLease(v, m)
        PROVE  job'[w].token <= lastToken'[job'[w].shard]
    BY <1>1, <1>4, <1>5, <1>7, <2>3 DEF ClaimLease, TypeOK, TasksOK
  <2>4. ASSUME NEW v \in Worker, StartRun(v)
        PROVE  job'[w].token <= lastToken'[job'[w].shard]
    BY <1>4, <1>7, <2>4 DEF StartRun
  <2> QED
    BY <1>1, <2>2, <2>3, <2>4, TasksKept
<1> QED
  BY <1>3, <1>6, <1>7 DEF TokensIssued

\* A worker that executes under the token of a claimed message cannot exist.
LEMMA ClaimIsFirst ==
  ASSUME IInv, NEW w \in Worker, NEW m \in broker, ClaimLease(w, m),
         NEW v \in Worker, Executing(v)
  PROVE  job[v] # m
<1>1. m \in Message
  BY DEF IInv, TypeOK, TasksOK
<1>2. status[m.shard] = "leased" /\ m = [shard |-> m.shard, token |-> leaseToken[m.shard]]
  BY <1>1 DEF ClaimLease, Claimable, Message
<1> QED
  BY <1>1, <1>2 DEF IInv, FreshLease, Orphan, Message

\* A new lease has a new token, and a lease that waits stays unclaimed.
LEMMA FreshLeaseStep == IInv /\ [Next]_vars => FreshLease'
<1> SUFFICES ASSUME IInv, [Next]_vars,
                    NEW s \in Shard, status'[s] = "leased",
                    NEW w \in Worker, Executing(w)',
                    job'[w] = [shard |-> s, token |-> leaseToken'[s]]
             PROVE  FALSE
  BY DEF FreshLease, Orphan, Executing
<1>1. TypeOK /\ TokensIssued /\ FreshLease
  BY DEF IInv
<1>2. \/ status[s] = "leased" /\ leaseToken'[s] = leaseToken[s]
      \/ \E a \in Actor : DispatchLease(a) /\ leaseToken'[s] = lastToken[s] + 1
  BY <1>1, LeasesKept
<1>3. CASE AllKept
  <2>1. Executing(w) /\ job[w] = [shard |-> s, token |-> leaseToken'[s]]
    BY <1>3 DEF AllKept, Kept
  <2>2. leaseToken'[s] # lastToken[s] + 1
    <3>1. leaseToken'[s] = lastToken[s] + 1 => job[w] \in Message
      BY <1>1, <2>1 DEF TypeOK, DatabaseOK, Message
    <3> QED
      BY <1>1, <2>1, <3>1 DEF TokensIssued, TypeOK, DatabaseOK
  <2> QED
    BY <1>1, <1>2, <2>1, <2>2 DEF FreshLease, Orphan
<1>4. ASSUME NEW v \in Worker, NEW m \in broker, ClaimLease(v, m) PROVE FALSE
  <2>1. m \in Message
    BY <1>1 DEF TypeOK, TasksOK
  <2>2. s # m.shard /\ leaseToken' = leaseToken /\ status[s] = "leased"
    BY <1>1, <1>4, <2>1 DEF ClaimLease, Message, TypeOK, DatabaseOK
  <2>3. w # v
    BY <1>1, <1>4, <2>2 DEF ClaimLease, TypeOK, TasksOK
  <2>4. Executing(w) /\ job'[w] = job[w]
    BY <1>1, <1>4, <2>3 DEF ClaimLease, Executing, TypeOK, TasksOK
  <2> QED
    BY <1>1, <2>2, <2>4 DEF FreshLease, Orphan
<1>5. ASSUME NEW v \in Worker, StartRun(v) PROVE FALSE
  BY <1>1, <1>5 DEF StartRun, leaseVars, FreshLease, Orphan, Executing
<1> QED
  BY <1>1, <1>3, <1>4, <1>5, TasksKept

\* The only new execution is that of a claim, under a token nobody executes.
LEMMA SingleExecutorStep == IInv /\ [Next]_vars => SingleExecutor'
<1> SUFFICES ASSUME IInv, [Next]_vars PROVE SingleExecutor'
  OBVIOUS
<1>1. TypeOK /\ SingleExecutor
  BY DEF IInv
<1>2. CASE AllKept
  BY <1>1, <1>2 DEF AllKept, Kept, SingleExecutor, Executing
<1>3. ASSUME NEW w \in Worker, NEW m \in broker, ClaimLease(w, m) PROVE SingleExecutor'
  <2>1. \A v \in Worker : v # w => job'[v] = job[v] /\ (Executing(v)' <=> Executing(v))
    BY <1>1, <1>3 DEF ClaimLease, Executing, TypeOK, TasksOK
  <2>2. job'[w] = m
    BY <1>1, <1>3 DEF ClaimLease, TypeOK, TasksOK
  <2>3. \A v \in Worker : v # w /\ Executing(v)' => job'[v] # m
    BY <1>3, <2>1, ClaimIsFirst
  <2> QED
    BY <1>1, <2>1, <2>2, <2>3 DEF SingleExecutor, Executing
<1>4. ASSUME NEW w \in Worker, StartRun(w) PROVE SingleExecutor'
  BY <1>1, <1>4 DEF StartRun, SingleExecutor, Executing
<1> QED
  BY <1>1, <1>2, <1>3, <1>4, TasksKept

\* Of the workers that execute, one at most owns a shard.
LEMMA OwnerUnique ==
  ASSUME IInv, NEW v \in Worker, NEW w \in Worker, Executing(v), Executing(w),
         Owns(v), Owns(w), job[v].shard = job[w].shard
  PROVE  v = w
<1>1. job[v] \in Message /\ job[w] \in Message
  BY ShardAssumption DEF IInv, TypeOK, TasksOK, Owns, NoMessage
<1>2. job[v] = job[w]
  BY <1>1 DEF Owns, Message
<1> QED
  BY <1>2 DEF IInv, SingleExecutor

\* A step that is not the worker's own leaves it the lease it is to commit:
\* nobody claims it, recovers it or cancels it, and no other worker owns it.
LEMMA CommitOwnsStep == IInv /\ [Next]_vars => CommitOwns'
<1> SUFFICES ASSUME IInv, [Next]_vars, NEW v \in Worker, pc'[v] = "commit"
             PROVE  Owns(v)'
  BY DEF CommitOwns
<1>1. TypeOK /\ CommitOwns
  BY DEF IInv
<1>2. job'[v] = job[v] /\ (pc[v] = "commit" \/ Owns(v))
  <2>1. CASE AllKept
    BY <2>1 DEF AllKept, Kept
  <2>2. ASSUME NEW w \in Worker, NEW m \in broker, ClaimLease(w, m)
        PROVE  job'[v] = job[v] /\ pc[v] = "commit"
    BY <1>1, <2>2 DEF ClaimLease, TypeOK, TasksOK, ActorsOK, Actor
  <2>3. ASSUME NEW w \in Worker, StartRun(w)
        PROVE  job'[v] = job[v] /\ pc[v] = "commit"
    BY <1>1, <2>3 DEF StartRun, TypeOK, TasksOK, ActorsOK, Actor
  <2> QED
    BY <1>1, <2>1, <2>2, <2>3, TasksKept
<1>3. Owns(v)
  BY <1>1, <1>2 DEF CommitOwns
<1>4. job[v].shard \in Shard
  BY <1>3 DEF Owns
<1> DEFINE s == job[v].shard
           Unchanged == status'[s] = "running" /\ leaseToken'[s] = leaseToken[s]
<1>5. CASE Quiet
  BY <1>2, <1>3, <1>5 DEF Quiet, Owns
<1>6. ASSUME NEW a \in Actor, DispatchLease(a) PROVE Unchanged
  BY <1>3, <1>4, <1>6 DEF Owns, DispatchLease, FirstOf, Ready
<1>7. ASSUME NEW w \in Worker, NEW m \in broker, ClaimLease(w, m) PROVE Unchanged
  BY <1>1, <1>3, <1>4, <1>7
     DEF Owns, ClaimLease, Claimable, TypeOK, DatabaseOK, TasksOK, Message
<1>8. ASSUME NEW w \in Worker, LoadCancelledRun(w) PROVE Unchanged
  <2>1. pc[w] = "claimed" /\ pc'[w] = "idle"
    BY <1>1, <1>8 DEF LoadCancelledRun, CloseTask, TypeOK, ActorsOK, Actor
  <2>2. v # w /\ pc[v] = "commit"
    BY <1>1, <1>8, <2>1 DEF LoadCancelledRun, CloseTask, TypeOK, ActorsOK, Actor
  <2>3. Executing(v) /\ Executing(w)
    BY <1>1, <2>1, <2>2 DEF TypeOK, PlacesOK, Executing
  <2>4. ~ (Owns(w) /\ job[w].shard = s)
    BY <1>3, <2>2, <2>3, OwnerUnique
  <2> QED
    BY <1>1, <1>3, <1>4, <1>8, <2>4 DEF LoadCancelledRun, Owns, TypeOK, DatabaseOK
<1>9. ASSUME NEW w \in Worker, StartRun(w) PROVE Unchanged
  BY <1>3, <1>9 DEF StartRun, Owns, leaseVars
<1>10. ASSUME NEW w \in Worker, FinishCommit(w) PROVE Unchanged
  <2>1. pc[w] = "commit" /\ pc'[w] = "dispatch"
    BY <1>1, <1>10 DEF FinishCommit, TypeOK, ActorsOK, Actor
  <2>2. v # w /\ pc[v] = "commit"
    BY <1>1, <1>10, <2>1 DEF FinishCommit, TypeOK, ActorsOK, Actor
  <2>3. Executing(v) /\ Executing(w) /\ Owns(w)
    BY <1>1, <2>1, <2>2 DEF TypeOK, PlacesOK, Executing, CommitOwns
  <2>4. job[w].shard # s
    BY <1>3, <2>2, <2>3, OwnerUnique
  <2> QED
    BY <1>1, <1>3, <1>4, <1>10, <2>4 DEF FinishCommit, Owns, TypeOK, DatabaseOK
<1>11. ASSUME RecoverCommit PROVE Unchanged
  <2>1. pc[v] = "commit"
    BY <1>1, <1>11 DEF RecoverCommit, TypeOK, ActorsOK, Actor
  <2> QED
    BY <1>3, <1>4, <1>11, <2>1 DEF RecoverCommit, Locked, Owns
<1>12. ASSUME CancelCommit PROVE Unchanged
  <2>1. pc[v] = "commit"
    BY <1>1, <1>12 DEF CancelCommit, TypeOK, ActorsOK, Actor
  <2> QED
    BY <1>3, <1>4, <1>12, <2>1 DEF CancelCommit, Locked, Owns
<1>13. Quiet \/ Unchanged
  BY <1>1, <1>5, <1>6, <1>7, <1>8, <1>9, <1>10, <1>11, <1>12, StepKinds DEF Loud
<1> QED
  BY <1>2, <1>3, <1>4, <1>5, <1>13 DEF Owns

\* Whoever owns the shard after the step, past the start of its scan, did so
\* before it or has started in this step.
LEMMA OwnerKept ==
  ASSUME IInv, [Next]_vars, NEW v \in Worker, Started(v)', Owns(v)'
  PROVE  /\ job'[v] = job[v]
         /\ Executing(v) /\ Owns(v)
         /\ Started(v) \/ StartRun(v)
<1>1. TypeOK
  BY DEF IInv
<1>2. /\ job'[v] = job[v] /\ Executing(v)
      /\ Started(v) \/ StartRun(v)
  <2>1. CASE AllKept
    BY <2>1 DEF AllKept, Kept, Started, Executing
  <2>2. ASSUME NEW w \in Worker, NEW m \in broker, ClaimLease(w, m)
        PROVE  job'[v] = job[v] /\ Executing(v) /\ Started(v)
    BY <1>1, <2>2 DEF ClaimLease, TypeOK, TasksOK, ActorsOK, Actor, Started, Executing
  <2>3. ASSUME NEW w \in Worker, StartRun(w)
        PROVE  job'[v] = job[v] /\ Executing(v) /\ (Started(v) \/ StartRun(v))
    BY <1>1, <2>3 DEF StartRun, TypeOK, ActorsOK, Actor, Started, Executing
  <2> QED
    BY <1>1, <2>1, <2>2, <2>3, TasksKept
<1>3. PICK s \in Shard : /\ s = job[v].shard
                         /\ status'[s] = "running" /\ leaseToken'[s] = job[v].token
  BY <1>2 DEF Owns
<1>4. ASSUME NEW w \in Worker, NEW m \in broker, ClaimLease(w, m),
             m = [shard |-> s, token |-> leaseToken[s]], leaseToken'[s] = leaseToken[s]
      PROVE  FALSE
  <2>1. job[v] # m
    BY <1>2, <1>4, ClaimIsFirst
  <2>2. job[v] \in Message
    BY <1>1, <1>3, ShardAssumption DEF TypeOK, TasksOK, NoMessage
  <2> QED
    BY <1>3, <1>4, <2>1, <2>2 DEF Message
<1>5. status[s] = "running" /\ leaseToken[s] = job[v].token
  BY <1>1, <1>3, <1>4, LeasesKept
<1> QED
  BY <1>2, <1>3, <1>5 DEF Owns

\* No step stores results under a shard whose present owner has cleared them.
LEMMA CleanStartStep == IInv /\ [Next]_vars => CleanStart'
<1> SUFFICES ASSUME IInv, [Next]_vars, NEW v \in Worker, Started(v)', Owns(v)'
             PROVE  results'[job[v].shard] = {}
  BY OwnerKept DEF CleanStart
<1>1. TypeOK /\ CleanStart
  BY DEF IInv
<1>2. /\ job'[v] = job[v] /\ Executing(v) /\ Owns(v)
      /\ Started(v) \/ StartRun(v)
  BY OwnerKept
<1>3. job[v].shard \in Shard
  BY <1>2 DEF Owns
<1>4. CASE StartRun(v)
  BY <1>1, <1>3, <1>4 DEF StartRun, TypeOK, DatabaseOK
<1>5. CASE Started(v)
  <2>1. results[job[v].shard] = {}
    BY <1>1, <1>2, <1>5 DEF CleanStart
  <2>2. CASE results' = results
    BY <2>1, <2>2
  <2>3. ASSUME NEW w \in Worker, StartRun(w) PROVE results'[job[v].shard] = {}
    BY <1>1, <1>3, <2>1, <2>3 DEF StartRun, TypeOK, DatabaseOK
  <2>4. ASSUME NEW w \in Worker, FinishCommit(w) PROVE results'[job[v].shard] = {}
    <3>1. job[v].shard # job[w].shard
      BY <1>1, <1>2, <1>3, <2>4 DEF FinishCommit, Owns, TypeOK, DatabaseOK, TasksOK
    <3> QED
      BY <1>1, <1>3, <2>1, <2>4, <3>1 DEF FinishCommit, TypeOK, DatabaseOK
  <2> QED
    BY <1>1, <2>2, <2>3, <2>4, StepKinds
       DEF Loud, Quiet, DispatchLease, ClaimLease, LoadCancelledRun, RecoverCommit,
           CancelCommit, rowVars
<1> QED
  BY <1>2, <1>4, <1>5

\* What an owner commits is stored under its token, next to nothing.
LEMMA FencedResultsStep == IInv /\ [Next]_vars => FencedResults'
<1> SUFFICES ASSUME IInv, [Next]_vars, NEW s \in Shard, status'[s] = "completed"
             PROVE  results'[s] \subseteq {leaseToken'[s]}
  BY DEF FencedResults
<1>1. TypeOK /\ CommitOwns /\ CleanStart /\ FencedResults
  BY DEF IInv
<1>2. ASSUME NEW w \in Worker, FinishCommit(w), s = job[w].shard
      PROVE  results'[s] \subseteq {leaseToken'[s]}
  <2>1. Owns(w) /\ Started(w)
    BY <1>1, <1>2 DEF FinishCommit, CommitOwns, TypeOK, PlacesOK, Started, Executing
  <2>2. results[s] = {} /\ leaseToken[s] = job[w].token
    BY <1>1, <1>2, <2>1 DEF CleanStart, Owns
  <2> QED
    BY <1>1, <1>2, <2>2 DEF FinishCommit, TypeOK, DatabaseOK
<1>3. CASE ~ \E w \in Worker : FinishCommit(w) /\ s = job[w].shard
  <2>1. status[s] = "completed" /\ leaseToken'[s] = leaseToken[s]
    BY <1>1, <1>3, LeasesKept
  <2>2. results'[s] \subseteq results[s]
    <3>1. ASSUME NEW w \in Worker, StartRun(w) PROVE results'[s] \subseteq results[s]
      BY <1>1, <3>1 DEF StartRun, TypeOK, DatabaseOK
    <3>2. ASSUME NEW w \in Worker, FinishCommit(w) PROVE results'[s] \subseteq results[s]
      BY <1>1, <1>3, <3>2 DEF FinishCommit, TypeOK, DatabaseOK
    <3> QED
      BY <1>1, <3>1, <3>2, StepKinds
         DEF Loud, Quiet, DispatchLease, ClaimLease, LoadCancelledRun, RecoverCommit,
             CancelCommit, rowVars
  <2> QED
    BY <1>1, <2>1, <2>2 DEF FencedResults
<1> QED
  BY <1>2, <1>3

\* A message leaves outbox and broker only when its lease is claimed or is no
\* longer the shard's.
LEMMA NoLostDispatchStep == IInv /\ [Next]_vars => NoLostDispatch'
<1> SUFFICES ASSUME IInv, [Next]_vars, NEW s \in Shard, status'[s] = "leased"
             PROVE  [shard |-> s, token |-> leaseToken'[s]] \in outbox' \cup broker'
  BY DEF NoLostDispatch
<1>1. TypeOK /\ NoLostDispatch
  BY DEF IInv
<1> DEFINE Carried == [shard |-> s, token |-> leaseToken'[s]] \in outbox' \cup broker'
<1>2. ASSUME NEW a \in Actor, DispatchLease(a) PROVE Carried
  <2>1. CASE s \in FirstOf(Ready, room[a])
    BY <1>1, <1>2, <2>1 DEF DispatchLease, Events
  <2>2. CASE s \notin FirstOf(Ready, room[a])
    BY <1>1, <1>2, <2>2 DEF DispatchLease, NoLostDispatch
  <2> QED
    BY <2>1, <2>2
<1>3. ASSUME NEW w \in Worker, NEW m \in broker, ClaimLease(w, m) PROVE Carried
  <2>1. s # m.shard /\ status[s] = "leased"
    BY <1>1, <1>3 DEF ClaimLease, TypeOK, DatabaseOK, TasksOK, Message
  <2> QED
    BY <1>1, <1>3, <2>1 DEF ClaimLease, NoLostDispatch
<1>4. CASE ~ (\/ \E a \in Actor : DispatchLease(a)
              \/ \E w \in Worker : \E m \in broker : ClaimLease(w, m))
  <2>1. status[s] = "leased" /\ leaseToken'[s] = leaseToken[s]
    BY <1>1, <1>4, LeasesKept
  <2>2. [shard |-> s, token |-> leaseToken[s]] \in outbox \cup broker
    BY <1>1, <2>1 DEF NoLostDispatch
  <2>3. CASE Quiet
    BY <2>1, <2>2, <2>3 DEF Quiet, LeasesCarried
  <2>4. CASE ~Quiet
    BY <1>1, <1>4, <2>1, <2>2, <2>4, StepKinds
       DEF Loud, LoadCancelledRun, StartRun, FinishCommit, RecoverCommit, CancelCommit,
           queueVars
  <2> QED
    BY <2>3, <2>4
<1> QED
  BY <1>2, <1>3, <1>4

-----------------------------------------------------------------------------
\* The inductive invariant: tokens are issued once and never reused, a lease
\* that waits has its message and nobody executing under it, and an owner is
\* alone and starts from cleared results.
THEOREM Invariance == Spec => []IInv
<1>1. Init => IInv
  <2> SUFFICES ASSUME Init PROVE IInv
    OBVIOUS
  <2>1. TypeOK
    BY InitType
  <2>2. TokensIssued
    BY ShardAssumption DEF Init, TokensIssued, Active, NoMessage, Message
  <2>3. FreshLease /\ FencedResults /\ NoLostDispatch
    BY DEF Init, FreshLease, FencedResults, NoLostDispatch
  <2>4. SingleExecutor /\ CleanStart
    BY DEF Init, SingleExecutor, CleanStart, Started, Executing
  <2>5. CommitOwns
    BY WorkerAssumption DEF Init, CommitOwns, Actor, Service
  <2> QED
    BY <2>1, <2>2, <2>3, <2>4, <2>5 DEF IInv
<1>2. IInv /\ [Next]_vars => IInv'
  BY TypeStep, TokensStep, FreshLeaseStep, SingleExecutorStep, CommitOwnsStep,
     CleanStartStep, FencedResultsStep, NoLostDispatchStep
     DEF IInv
<1> QED
  BY <1>1, <1>2, PTL DEF Spec

\* Two workers never execute under the same token of the same shard: a message
\* delivered twice, or put back by a crash, is claimed once (claim_lease).
THEOREM ExclusiveExecution == Spec => []SingleExecutor
<1>1. IInv => SingleExecutor
  BY DEF IInv
<1> QED
  BY <1>1, Invariance, PTL

\* The results of a completed shard are those of the attempt that holds its
\* token; a superseded worker never adds its own (finish_lease).
THEOREM ResultsAreFenced == Spec => []FencedResults
<1>1. IInv => FencedResults
  BY DEF IInv
<1> QED
  BY <1>1, Invariance, PTL

\* A leased shard has its task in the outbox or in the broker: the lease and
\* its event are committed together, and no later step drops the last copy.
THEOREM DispatchIsNotLost == Spec => []NoLostDispatch
<1>1. IInv => NoLostDispatch
  BY DEF IInv
<1> QED
  BY <1>1, Invariance, PTL

-----------------------------------------------------------------------------
\* What is seen of the leases: the refinement mapping of Fencing.
open == [s \in Shard |-> IF status[s] = "leased" THEN leaseToken[s] ELSE 0]
holder == [s \in Shard |-> IF status[s] = "running" THEN leaseToken[s] ELSE 0]

\* A step that leaves leases, tokens and results alone is a stutter.
LEMMA QuietStutters == Quiet => UNCHANGED Fencing!vars
  BY DEF Quiet, Fencing!vars

\* Shards that stop being leased or running, and nothing else: a withdrawal.
LEMMA WithdrawSteps ==
  ASSUME NEW S \in SUBSET Shard,
         UNCHANGED <<lastToken, results>>,
         \A s \in S : status'[s] \notin {"leased", "running"},
         \A s \in Shard \ S : status'[s] = status[s] /\ leaseToken'[s] = leaseToken[s]
  PROVE  Fencing!Withdraw(S)
  BY DEF Fencing!Withdraw

\* Leasing grants a new token to each shard taken, all of them free.
LEMMA DispatchGrants ==
  ASSUME TypeOK, NEW a \in Actor, DispatchLease(a)
  PROVE  \E S \in SUBSET Shard : Fencing!Grant(S)
<1> DEFINE T == FirstOf(Ready, room[a])
<1>1. T \in SUBSET Shard /\ \A s \in T : status[s] = "queued"
  BY DEF FirstOf, Ready
<1>2. \A s \in T : Fencing!Free(s)
  BY <1>1 DEF Fencing!Free
<1>3. UNCHANGED results
  BY DEF DispatchLease, rowVars
<1>4. lastToken' = [s \in Shard |-> IF s \in T THEN lastToken[s] + 1 ELSE lastToken[s]]
  BY DEF DispatchLease
<1>5. open' = [s \in Shard |-> IF s \in T THEN lastToken[s] + 1 ELSE open[s]]
  BY <1>1 DEF DispatchLease, open
<1>6. UNCHANGED holder
  BY <1>1 DEF DispatchLease, holder
<1>7. Fencing!Grant(T)
  BY <1>2, <1>3, <1>4, <1>5, <1>6 DEF Fencing!Grant, open, holder
<1> QED
  BY <1>1, <1>7 DEF Fencing!Grant

\* A claim acquires the lease under the token granted.
LEMMA ClaimAcquires ==
  ASSUME TypeOK, TokensIssued, NEW w \in Worker, NEW m \in broker, ClaimLease(w, m)
  PROVE  \E s \in Shard : Fencing!Acquire(s)
<1>1. m \in Message /\ m.shard \in Shard
  BY DEF TypeOK, TasksOK, Message
<1>2. status[m.shard] = "leased" /\ leaseToken[m.shard] > 0
  BY <1>1 DEF ClaimLease, Claimable, TokensIssued, Active
<1>3. /\ status' = [status EXCEPT ![m.shard] = "running"]
      /\ UNCHANGED <<leaseToken, lastToken, results>>
  BY DEF ClaimLease, rowVars
<1>4. open[m.shard] # 0
  BY <1>1, <1>2 DEF open, TypeOK, DatabaseOK
<1>5. holder' = [holder EXCEPT ![m.shard] = open[m.shard]]
  BY <1>1, <1>2, <1>3 DEF open, holder, TypeOK, DatabaseOK
<1>6. open' = [open EXCEPT ![m.shard] = 0]
  BY <1>1, <1>2, <1>3 DEF open, TypeOK, DatabaseOK
<1>7. Fencing!Acquire(m.shard)
  BY <1>3, <1>4, <1>5, <1>6 DEF Fencing!Acquire, open, holder
<1> QED
  BY <1>1, <1>7 DEF Fencing!Acquire

\* The task of a cancelled run withdraws its lease, if it still holds it.
LEMMA LoadCancelledWithdraws ==
  ASSUME TypeOK, NEW w \in Worker, LoadCancelledRun(w)
  PROVE  \E S \in SUBSET Shard : Fencing!Withdraw(S)
<1>1. UNCHANGED <<leaseToken, lastToken, results>>
  BY DEF LoadCancelledRun, rowVars
<1>2. CASE Owns(w)
  <2>1. job[w].shard \in Shard
    BY <1>2 DEF Owns
  <2>2. status' = [status EXCEPT ![job[w].shard] = "cancelled"]
    BY <1>2 DEF LoadCancelledRun
  <2>3. /\ \A s \in {job[w].shard} : status'[s] \notin {"leased", "running"}
        /\ \A s \in Shard \ {job[w].shard} :
             status'[s] = status[s] /\ leaseToken'[s] = leaseToken[s]
    BY <1>1, <2>1, <2>2 DEF TypeOK, DatabaseOK
  <2>4. Fencing!Withdraw({job[w].shard})
    BY <1>1, <2>1, <2>3, WithdrawSteps DEF Fencing!Withdraw
  <2> QED
    BY <2>1, <2>4 DEF Fencing!Withdraw
<1>3. CASE ~Owns(w)
  <2>1. Fencing!Withdraw({})
    BY <1>1, <1>3, WithdrawSteps DEF LoadCancelledRun
  <2> QED
    BY <2>1
<1> QED
  BY <1>2, <1>3

\* A commit that stores results is accepted from the holder; any other one
\* withdraws the lease.
LEMMA FinishAccepts ==
  ASSUME IInv, NEW w \in Worker, FinishCommit(w)
  PROVE  \/ \E s \in Shard : Fencing!Accept(s)
         \/ \E S \in SUBSET Shard : Fencing!Withdraw(S)
<1> DEFINE s == job[w].shard
           t == job[w].token
<1>1. Owns(w) /\ TypeOK /\ TokensIssued
  BY DEF IInv, CommitOwns, FinishCommit
<1>2. /\ s \in Shard /\ status[s] = "running"
      /\ leaseToken[s] = t /\ t > 0
  BY <1>1 DEF Owns, TokensIssued, Active
<1>3. status' = [status EXCEPT ![s] = verdict[w]] /\ verdict[w] \notin {"leased", "running"}
  BY <1>1 DEF FinishCommit, TypeOK, TasksOK
<1>4. UNCHANGED <<leaseToken, lastToken>>
  BY DEF FinishCommit
<1>5. CASE "results" \in pending[w]
  <2>1. results' = [results EXCEPT ![s] = @ \cup {t}]
    BY <1>5 DEF FinishCommit
  <2>2. holder[s] = t /\ holder[s] # 0
    BY <1>1, <1>2 DEF holder, TypeOK, DatabaseOK
  <2>3. holder' = [holder EXCEPT ![s] = 0]
    BY <1>1, <1>2, <1>3, <1>4 DEF holder, TypeOK, DatabaseOK
  <2>4. UNCHANGED open
    BY <1>1, <1>2, <1>3, <1>4 DEF open, TypeOK, DatabaseOK
  <2>5. Fencing!Accept(s)
    BY <1>4, <2>1, <2>2, <2>3, <2>4 DEF Fencing!Accept, open, holder
  <2> QED
    BY <1>2, <2>5 DEF Fencing!Accept
<1>6. CASE "results" \notin pending[w]
  <2>1. UNCHANGED results
    BY <1>6 DEF FinishCommit
  <2>2. /\ \A r \in {s} : status'[r] \notin {"leased", "running"}
        /\ \A r \in Shard \ {s} : status'[r] = status[r] /\ leaseToken'[r] = leaseToken[r]
    BY <1>1, <1>2, <1>3, <1>4 DEF TypeOK, DatabaseOK
  <2>3. Fencing!Withdraw({s})
    BY <1>2, <1>4, <2>1, <2>2, WithdrawSteps DEF Fencing!Withdraw
  <2> QED
    BY <1>2, <2>3 DEF Fencing!Withdraw
<1> QED
  BY <1>5, <1>6

\* The start of a scan clears what former attempts have stored.
LEMMA StartClears ==
  ASSUME TypeOK, NEW w \in Worker, StartRun(w)
  PROVE  (\E s \in Shard : Fencing!Clear(s)) \/ UNCHANGED Fencing!vars
<1>1. UNCHANGED <<status, leaseToken, lastToken>>
  BY DEF StartRun, leaseVars
<1>2. results' = [results EXCEPT ![job[w].shard] = {}]
  BY DEF StartRun
<1>3. job[w].shard \in Shard
  BY DEF StartRun, TypeOK, PlacesOK, Message
<1>4. Fencing!Clear(job[w].shard)
  BY <1>1, <1>2 DEF Fencing!Clear
<1> QED
  BY <1>3, <1>4

\* Recovery withdraws stale leases, claimed or not.
LEMMA RecoverWithdraws ==
  ASSUME TypeOK, RecoverCommit
  PROVE  \E S \in SUBSET Shard : Fencing!Withdraw(S)
<1> DEFINE S == selected["scheduler"]
<1>1. S \in SUBSET Shard
  BY DEF TypeOK, ActorsOK, Service
<1>2. Fencing!Withdraw(S)
  BY <1>1, WithdrawSteps DEF RecoverCommit, rowVars, Fencing!Withdraw
<1> QED
  BY <1>1, <1>2 DEF Fencing!Withdraw

\* So does cancellation.
LEMMA CancelWithdraws ==
  ASSUME TypeOK, CancelCommit
  PROVE  \E S \in SUBSET Shard : Fencing!Withdraw(S)
<1> DEFINE S == selected["operator"]
<1>1. S \in SUBSET Shard
  BY DEF TypeOK, ActorsOK, Service
<1>2. Fencing!Withdraw(S)
  BY <1>1, WithdrawSteps DEF CancelCommit, rowVars, Fencing!Withdraw
<1> QED
  BY <1>1, <1>2 DEF Fencing!Withdraw

-----------------------------------------------------------------------------
\* The scan run keeps the promise of execution-token fencing: results are
\* accepted from the current token only, and a token is granted and acquired
\* once, whatever is delivered twice, recovered early, cancelled or crashed.
THEOREM LeaseFencingImplemented == Spec => ImplementsLeaseFencing
<1>1. Init => Fencing!Init
  BY DEF Init, Fencing!Init
<1>2. IInv /\ [Next]_vars => [Fencing!Next]_(Fencing!vars)
  <2> SUFFICES ASSUME IInv, [Next]_vars PROVE [Fencing!Next]_(Fencing!vars)
    OBVIOUS
  <2>1. TypeOK /\ TokensIssued
    BY DEF IInv
  <2>2. CASE Quiet
    BY <2>2, QuietStutters
  <2>3. CASE Loud
    BY <2>1, <2>3, DispatchGrants, ClaimAcquires, LoadCancelledWithdraws, StartClears,
       FinishAccepts, RecoverWithdraws, CancelWithdraws
       DEF Loud, Fencing!Next
  <2> QED
    BY <2>1, <2>2, <2>3, StepKinds
<1> QED
  BY <1>1, <1>2, Invariance, PTL DEF Spec, ImplementsLeaseFencing, Fencing!Spec

-----------------------------------------------------------------------------
\* StaleWritesNothing is violated, but only so far, for any number of shards and
\* workers and any disturbances (execute_shard, finish_lease, lease_is_current).
THEOREM StaleWritesAreBounded == Spec => SupersededOnlyDeletes
<1> DEFINE Harmless(w, s) ==
             /\ status'[s] = status[s] /\ artifact'[s] = artifact[s]
             /\ inventory' = inventory
             /\ results'[s] = results[s] \/ (pc[w] = "loaded" /\ results'[s] = {})
             /\ candidates'[s] \subseteq candidates[s] \cup {job[w].token}
<1>1. ASSUME IInv, NEW w \in Worker, NEW s \in Shard, Execute(w),
             job[w].shard = s, job[w].token # leaseToken[s]
      PROVE  Harmless(w, s)
  <2>1. ~ Owns(w) /\ TypeOK /\ pc[w] # "commit"
    BY <1>1 DEF IInv, CommitOwns, Owns
  <2>2. ASSUME LoadRun(w) PROVE Harmless(w, s)
    BY <2>2 DEF LoadRun, leaseVars, rowVars, runVars
  <2>3. ASSUME LoadCancelledRun(w) PROVE Harmless(w, s)
    BY <2>1, <2>3 DEF LoadCancelledRun, rowVars, runVars
  <2>4. ASSUME StartRun(w) PROVE Harmless(w, s)
    BY <1>1, <2>1, <2>4 DEF StartRun, leaseVars, TypeOK, DatabaseOK
  <2>5. ASSUME CheckLease(w) \/ Superseded(w) \/ DuplicateCandidate(w) PROVE Harmless(w, s)
    BY <2>5 DEF CheckLease, Superseded, DuplicateCandidate, leaseVars, rowVars, runVars
  <2>6. ASSUME Heartbeat(w) PROVE Harmless(w, s)
    BY <1>1, <2>1, <2>6 DEF Heartbeat, runVars, TypeOK, DatabaseOK
  <2>7. ASSUME ScanEnds(w) PROVE Harmless(w, s)
    BY <2>1, <2>7 DEF ScanEnds, MasscanFound, MasscanEmpty, NmapDone, ScanFails, ScanCancelled,
                      FinishLease, leaseVars, rowVars, runVars
  <2>8. ~ FinishCommit(w)
    BY <2>1 DEF FinishCommit
  <2> HIDE DEF Harmless
  <2> QED
    BY <1>1, <2>2, <2>3, <2>4, <2>5, <2>6, <2>7, <2>8 DEF Execute
<1>2. IInv /\ [Next]_vars =>
        [\A w \in Worker : \A s \in Shard :
           Execute(w) /\ job[w].shard = s /\ job[w].token # leaseToken[s] =>
             Harmless(w, s)]_vars
  BY <1>1
<1> QED
  BY <1>2, Invariance, PTL DEF Spec, SupersededOnlyDeletes

=============================================================================
