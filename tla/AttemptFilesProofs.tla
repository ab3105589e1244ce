------------------------- MODULE AttemptFilesProofs -------------------------
(***************************************************************************)
(* Proofs about AttemptFiles, for any workers, hosts and bounds.           *)
(*                                                                         *)
(* A token is run at most once (Fresh, Unstarted, Alone).  A worker whose  *)
(* path nobody else has used since it began to scan (PathIsOwn) is the     *)
(* only one whose scanner can reach the file there, so the file is its own *)
(* (FileIsOwn), and so is what it parses and stores (StoreIsOwn).          *)
(* Observations are committed by the owner of the lease alone, over none   *)
(* (NoRowsYet, Completed).                                                 *)
(***************************************************************************)
EXTENDS AttemptFiles, TLAPS

\* Tokens in use have been issued.
Issued ==
  /\ leaseToken <= lastToken
  /\ \A t \in broker : t <= lastToken
  /\ \A w \in Worker : task[w] <= lastToken /\ (Executing(w) => task[w] # 0)
  /\ \A n \in scanner : n.token <= lastToken
  /\ \A a \in stored : a.token <= lastToken
  /\ \A t \in shared : t <= lastToken

\* Nothing bears a token that is still to be claimed.
Fresh ==
  status = "leased" =>
    /\ leaseToken # 0
    /\ \A w \in Worker : task[w] # leaseToken
    /\ \A n \in scanner : n.token # leaseToken
    /\ \A a \in stored : a.token # leaseToken
    /\ leaseToken \notin shared

\* A worker that has not started to scan has left no trace.
Unstarted ==
  \A w \in Worker : pc[w] = "claimed" =>
    (\A n \in scanner : n.token # task[w]) /\ task[w] \notin shared

\* Two workers never run the same token.
Alone ==
  \A v, w \in Worker : Executing(v) /\ task[v] = task[w] => v = w

\* Two workers that use one path have both been told.
PathIsOwn ==
  \A v, w \in Worker :
    v # w /\ UsesPath(v) /\ UsesPath(w) /\ HostOf[v] = HostOf[w] => task[w] \in shared

\* What a worker that shares its path with nobody finds there.
Reached(w) ==
  /\ path[HostOf[w]] # 0
  /\ content[HostOf[w]] \subseteq {task[w]}
  /\ \A n \in scanner : n.host = HostOf[w] /\ n.file = path[HostOf[w]] => n.token = task[w]
  /\ \A n \in scanner : n.token = task[w] => n.host = HostOf[w] /\ n.file = path[HostOf[w]]

FileIsOwn ==
  \A w \in Worker : task[w] \notin shared =>
    /\ pc[w] \in {"scanning", "scanned", "parsed"} => Reached(w)
    /\ pc[w] = "scanning" =>
         (\E n \in scanner : n.token = task[w]) \/ content[HostOf[w]] = {task[w]}
    /\ pc[w] \in {"scanned", "parsed"} =>
         content[HostOf[w]] = {task[w]} /\ \A n \in scanner : n.token # task[w]

\* What it has parsed and stored.
StoreIsOwn ==
  \A w \in Worker : task[w] \notin shared =>
    /\ pc[w] \in {"parsed", "stored"} => parsed[w] = {task[w]}
    /\ pc[w] = "stored" => \A a \in stored : a.token = task[w] => a.content = {task[w]}

HasStored ==
  \A w \in Worker : pc[w] = "stored" => \E a \in stored : a.token = task[w]

NoRowsYet == \A w \in Worker : UsesPath(w) /\ Owns(w) => rows = {}

\* The completed shard is nobody's task any more.
Completed ==
  status = "completed" =>
    /\ leaseToken = artifact
    /\ \A w \in Worker : Executing(w) => task[w] # artifact
    /\ \E a \in stored : a.token = artifact
    /\ artifact \notin shared =>
         /\ \A r \in rows : r = [token |-> artifact, content |-> {artifact}]
         /\ \A a \in stored :
              a.token = artifact => a = [token |-> artifact, content |-> {artifact}]

IInv == /\ TypeOK /\ Issued /\ Fresh /\ Unstarted /\ Alone /\ StoredOnce /\ PathIsOwn
        /\ FileIsOwn /\ StoreIsOwn /\ HasStored /\ NoRowsYet /\ Completed

-----------------------------------------------------------------------------
\* Every step keeps the types.
LEMMA TypeKept ==
  ASSUME TypeOK, [Next]_vars
  PROVE  TypeOK'
<1>1. ASSUME Dispatch PROVE TypeOK'
  BY <1>1
     DEF Dispatch, workerVars, fileVars, TypeOK, ShardOK, WorkersOK, FilesOK, Output
<1>2. ASSUME SendAgain PROVE TypeOK'
  BY <1>2, DisturbanceAssumption
     DEF SendAgain, shardVars, workerVars, fileVars, TypeOK, ShardOK, WorkersOK,
         FilesOK, Disturb
<1>3. ASSUME NEW w \in Worker, NEW t \in broker, ClaimLease(w, t) PROVE TypeOK'
  BY <1>3 DEF ClaimLease, fileVars, TypeOK, ShardOK, WorkersOK, FilesOK
<1>4. ASSUME NEW w \in Worker, NEW t \in broker, DiscardTask(w, t) PROVE TypeOK'
  BY <1>4
     DEF DiscardTask, shardVars, workerVars, fileVars, TypeOK, ShardOK, WorkersOK,
         FilesOK
<1>5. ASSUME NEW w \in Worker, StartScan(w) PROVE TypeOK'
  <2> DEFINE h == HostOf[w]
             f == OpenedFile(w)
  <2>1. h \in Host /\ task[w] \in Nat
    BY HostAssumption DEF TypeOK, WorkersOK
  <2>2. f \in Nat
    BY <2>1 DEF OpenedFile, TypeOK, FilesOK
  <2>3. Neighbours(w) \subseteq Nat
    BY DEF Neighbours, Process, TypeOK, WorkersOK, FilesOK
  <2>4. [token |-> task[w], file |-> f, host |-> h] \in Process
    BY <2>1, <2>2 DEF Process
  <2>5. path' \in [Host -> Nat] /\ content' \in [Host -> SUBSET Nat] /\ scanner' \subseteq Process
    BY <1>5, <2>1, <2>2, <2>4 DEF StartScan, TypeOK, FilesOK
  <2>6. shared' \subseteq Nat
    BY <1>5, <2>1, <2>3 DEF StartScan, TypeOK, FilesOK
  <2> QED
    BY <1>5, <2>5, <2>6 DEF StartScan, Cleared, TypeOK, ShardOK, WorkersOK, FilesOK
<1>6. ASSUME NEW w \in Worker, ScanDone(w) PROVE TypeOK'
  BY <1>6 DEF ScanDone, shardVars, fileVars, TypeOK, ShardOK, WorkersOK, FilesOK
<1>7. ASSUME NEW w \in Worker, ParseOutput(w) PROVE TypeOK'
  <2>1. content[HostOf[w]] \in SUBSET Nat
    BY HostAssumption DEF TypeOK, FilesOK
  <2>2. parsed' \in [Worker -> SUBSET Nat]
    BY <1>7, <2>1 DEF ParseOutput, TypeOK, WorkersOK
  <2> QED
    BY <1>7, <2>2 DEF ParseOutput, shardVars, fileVars, TypeOK, ShardOK, WorkersOK, FilesOK
<1>8. ASSUME NEW w \in Worker, StoreArtifact(w) PROVE TypeOK'
  <2>1. content[HostOf[w]] \in SUBSET Nat /\ task[w] \in Nat
    BY HostAssumption DEF TypeOK, FilesOK, WorkersOK
  <2>2. [token |-> task[w], content |-> content[HostOf[w]]] \in Output
    BY <2>1 DEF Output
  <2> QED
    BY <1>8, <2>2 DEF StoreArtifact, shardVars, TypeOK, ShardOK, WorkersOK, FilesOK
<1>9. ASSUME NEW w \in Worker, FinishLease(w) PROVE TypeOK'
  <2>1. parsed[w] \in SUBSET Nat /\ task[w] \in Nat
    BY DEF TypeOK, WorkersOK
  <2>2. [token |-> task[w], content |-> parsed[w]] \in Output
    BY <2>1 DEF Output
  <2> QED
    BY <1>9, <2>1, <2>2 DEF FinishLease, CloseTask, TypeOK, ShardOK, WorkersOK, FilesOK
<1>10. ASSUME NEW w \in Worker, Superseded(w) PROVE TypeOK'
  BY <1>10 DEF Superseded, CloseTask, shardVars, TypeOK, ShardOK, WorkersOK, FilesOK
<1>11. ASSUME NEW w \in Worker, AttemptFails(w) PROVE TypeOK'
  <2>1. /\ parsed[w] \in SUBSET Nat /\ task[w] \in Nat
        /\ content[HostOf[w]] \in SUBSET Nat
    BY HostAssumption DEF TypeOK, WorkersOK, FilesOK
  <2>2. Observed(w) \subseteq Output
    BY <2>1 DEF Observed, Output
  <2>3. /\ status' \in {"queued", "leased", "running", "completed", "dead_letter"}
        /\ rows' \subseteq Output
    BY <1>11, <2>2 DEF AttemptFails, FailureStatus, TypeOK, ShardOK
  <2> QED
    BY <1>11, <2>3 DEF AttemptFails, CloseTask, TypeOK, ShardOK, WorkersOK, FilesOK
<1>12. ASSUME NEW w \in Worker, CrashWorker(w) PROVE TypeOK'
  <2>1. task[w] \in Nat
    BY DEF TypeOK, WorkersOK
  <2>2. disturbances' \in 0..MaxDisturbances
    BY <1>12, DisturbanceAssumption DEF CrashWorker, Disturb, TypeOK, FilesOK
  <2>3. broker' \subseteq Nat
    BY <1>12, <2>1 DEF CrashWorker, TypeOK, ShardOK
  <2>4. WorkersOK'
    BY <1>12 DEF CrashWorker, TypeOK, WorkersOK
  <2> QED
    BY <1>12, <2>2, <2>3, <2>4 DEF CrashWorker, shardVars, fileVars, TypeOK, ShardOK, FilesOK
<1>13. ASSUME NEW n \in scanner, ScannerWrites(n) PROVE TypeOK'
  <2>1. n.token \in Nat /\ n.host \in Host
    BY DEF TypeOK, FilesOK, Process
  <2>2. content' \in [Host -> SUBSET Nat] /\ scanner' \subseteq Process
    BY <1>13, <2>1 DEF ScannerWrites, TypeOK, FilesOK
  <2> QED
    BY <1>13, <2>2 DEF ScannerWrites, shardVars, workerVars, TypeOK, ShardOK, WorkersOK, FilesOK
<1>14. ASSUME NEW n \in scanner, ScannerStops(n) PROVE TypeOK'
  BY <1>14
     DEF ScannerStops, shardVars, workerVars, TypeOK, ShardOK, WorkersOK, FilesOK
<1>15. ASSUME RecoverOrphan PROVE TypeOK'
  BY <1>15
     DEF RecoverOrphan, Requeue, workerVars, fileVars, TypeOK, ShardOK, WorkersOK,
         FilesOK
<1>16. ASSUME RecoverEarly PROVE TypeOK'
  BY <1>16, DisturbanceAssumption
     DEF RecoverEarly, Requeue, workerVars, fileVars, TypeOK, ShardOK, WorkersOK,
         FilesOK, Disturb
<1>17. CASE UNCHANGED vars
  BY <1>17
     DEF vars, shardVars, workerVars, fileVars, TypeOK, ShardOK, WorkersOK, FilesOK
<1> QED
  BY <1>1, <1>2, <1>3, <1>4, <1>5, <1>6, <1>7, <1>8, <1>9, <1>10, <1>11, <1>12,
     <1>13, <1>14, <1>15, <1>16, <1>17 DEF Next, WorkerStep

\* Tokens are used once they have been issued.
LEMMA IssuedKept ==
  ASSUME TypeOK, Issued, Fresh, [Next]_vars
  PROVE  Issued'
<1>1. ASSUME Dispatch PROVE Issued'
  BY <1>1
     DEF Dispatch, workerVars, fileVars, Issued, Executing, TypeOK, ShardOK,
         WorkersOK, FilesOK, Process, Output
<1>2. ASSUME SendAgain PROVE Issued'
  BY <1>2
     DEF SendAgain, shardVars, workerVars, fileVars, Issued, Executing, TypeOK,
         ShardOK, WorkersOK
<1>3. ASSUME NEW w \in Worker, NEW t \in broker, ClaimLease(w, t) PROVE Issued'
  BY <1>3
     DEF ClaimLease, fileVars, Issued, Executing, TypeOK, ShardOK, WorkersOK,
         Claimable, Fresh
<1>4. ASSUME NEW w \in Worker, NEW t \in broker, DiscardTask(w, t) PROVE Issued'
  BY <1>4
     DEF DiscardTask, shardVars, workerVars, fileVars, Issued, Executing, TypeOK,
         ShardOK, WorkersOK
<1>5. ASSUME NEW w \in Worker, StartScan(w) PROVE Issued'
  <2>1. \A x \in Neighbours(w) : x <= lastToken
    BY DEF Neighbours, Issued
  <2>2. \A x \in shared' : x <= lastToken
    BY <1>5, <2>1 DEF StartScan, Issued
  <2>3. \A n \in scanner' : n.token <= lastToken
    BY <1>5 DEF StartScan, Issued
  <2>4. \A v \in Worker : Executing(v)' => Executing(v)
    BY <1>5 DEF StartScan, Executing, TypeOK, WorkersOK
  <2> QED
    BY <1>5, <2>2, <2>3, <2>4 DEF StartScan, Issued
<1>6. ASSUME NEW w \in Worker, ScanDone(w) PROVE Issued'
  BY <1>6
     DEF ScanDone, shardVars, fileVars, Issued, Executing, TypeOK, ShardOK,
         WorkersOK
<1>7. ASSUME NEW w \in Worker, ParseOutput(w) PROVE Issued'
  BY <1>7
     DEF ParseOutput, shardVars, fileVars, Issued, Executing, TypeOK, ShardOK,
         WorkersOK
<1>8. ASSUME NEW w \in Worker, StoreArtifact(w) PROVE Issued'
  BY <1>8
     DEF StoreArtifact, shardVars, Issued, Executing, TypeOK, ShardOK, WorkersOK
<1>9. ASSUME NEW w \in Worker, FinishLease(w) PROVE Issued'
  BY <1>9 DEF FinishLease, CloseTask, Issued, Executing, TypeOK, ShardOK, WorkersOK
<1>10. ASSUME NEW w \in Worker, Superseded(w) PROVE Issued'
  BY <1>10
     DEF Superseded, CloseTask, shardVars, Issued, Executing, TypeOK, ShardOK,
         WorkersOK
<1>11. ASSUME NEW w \in Worker, AttemptFails(w) PROVE Issued'
  BY <1>11
     DEF AttemptFails, CloseTask, FailureStatus, Observed, Issued, Executing,
         TypeOK, ShardOK, WorkersOK
<1>12. ASSUME NEW w \in Worker, CrashWorker(w) PROVE Issued'
  BY <1>12
     DEF CrashWorker, shardVars, fileVars, Issued, Executing, TypeOK, ShardOK,
         WorkersOK
<1>13. ASSUME NEW n \in scanner, ScannerWrites(n) PROVE Issued'
  BY <1>13
     DEF ScannerWrites, shardVars, workerVars, Issued, Executing, TypeOK, ShardOK,
         WorkersOK
<1>14. ASSUME NEW n \in scanner, ScannerStops(n) PROVE Issued'
  BY <1>14
     DEF ScannerStops, shardVars, workerVars, Issued, Executing, TypeOK, ShardOK,
         WorkersOK
<1>15. ASSUME RecoverOrphan PROVE Issued'
  BY <1>15
     DEF RecoverOrphan, Requeue, workerVars, fileVars, Issued, Executing, TypeOK,
         ShardOK, WorkersOK
<1>16. ASSUME RecoverEarly PROVE Issued'
  BY <1>16
     DEF RecoverEarly, Requeue, workerVars, fileVars, Issued, Executing, TypeOK,
         ShardOK, WorkersOK
<1>17. CASE UNCHANGED vars
  BY <1>17 DEF vars, shardVars, workerVars, fileVars, Issued, Executing
<1> QED
  BY <1>1, <1>2, <1>3, <1>4, <1>5, <1>6, <1>7, <1>8, <1>9, <1>10, <1>11, <1>12,
     <1>13, <1>14, <1>15, <1>16, <1>17 DEF Next, WorkerStep

\* A leased token is new: it was issued by the dispatch, and a claim ends it.
LEMMA FreshKept ==
  ASSUME TypeOK, Issued, Fresh, [Next]_vars
  PROVE  Fresh'
<1>1. ASSUME Dispatch PROVE Fresh'
  BY <1>1
     DEF Dispatch, workerVars, fileVars, Fresh, TypeOK, ShardOK, WorkersOK, FilesOK,
         Issued, Process, Output
<1>2. ASSUME SendAgain PROVE Fresh'
  BY <1>2
     DEF SendAgain, shardVars, workerVars, fileVars, Fresh, TypeOK, ShardOK,
         WorkersOK, FilesOK
<1>3. ASSUME NEW w \in Worker, NEW t \in broker, ClaimLease(w, t) PROVE Fresh'
  BY <1>3 DEF ClaimLease, fileVars, Fresh, TypeOK, ShardOK, WorkersOK, FilesOK
<1>4. ASSUME NEW w \in Worker, NEW t \in broker, DiscardTask(w, t) PROVE Fresh'
  BY <1>4
     DEF DiscardTask, shardVars, workerVars, fileVars, Fresh, TypeOK, ShardOK,
         WorkersOK, FilesOK
<1>5. ASSUME NEW w \in Worker, StartScan(w) PROVE Fresh'
  BY <1>5
     DEF StartScan, OpenedFile, Cleared, Fresh, TypeOK, ShardOK, WorkersOK, FilesOK,
         Neighbours, UsesPath, Executing
<1>6. ASSUME NEW w \in Worker, ScanDone(w) PROVE Fresh'
  BY <1>6
     DEF ScanDone, shardVars, fileVars, Fresh, TypeOK, ShardOK, WorkersOK, FilesOK
<1>7. ASSUME NEW w \in Worker, ParseOutput(w) PROVE Fresh'
  BY <1>7
     DEF ParseOutput, shardVars, fileVars, Fresh, TypeOK, ShardOK, WorkersOK,
         FilesOK
<1>8. ASSUME NEW w \in Worker, StoreArtifact(w) PROVE Fresh'
  BY <1>8 DEF StoreArtifact, shardVars, Fresh, TypeOK, ShardOK, WorkersOK, FilesOK
<1>9. ASSUME NEW w \in Worker, FinishLease(w) PROVE Fresh'
  BY <1>9 DEF FinishLease, CloseTask, Fresh, TypeOK, ShardOK, WorkersOK, FilesOK
<1>10. ASSUME NEW w \in Worker, Superseded(w) PROVE Fresh'
  BY <1>10
     DEF Superseded, CloseTask, shardVars, Fresh, TypeOK, ShardOK, WorkersOK,
         FilesOK
<1>11. ASSUME NEW w \in Worker, AttemptFails(w) PROVE Fresh'
  BY <1>11
     DEF AttemptFails, CloseTask, FailureStatus, Observed, Fresh, TypeOK, ShardOK,
         WorkersOK, FilesOK
<1>12. ASSUME NEW w \in Worker, CrashWorker(w) PROVE Fresh'
  BY <1>12
     DEF CrashWorker, shardVars, fileVars, Fresh, TypeOK, ShardOK, WorkersOK,
         FilesOK, Executing
<1>13. ASSUME NEW n \in scanner, ScannerWrites(n) PROVE Fresh'
  BY <1>13
     DEF ScannerWrites, shardVars, workerVars, Fresh, TypeOK, ShardOK, WorkersOK,
         FilesOK
<1>14. ASSUME NEW n \in scanner, ScannerStops(n) PROVE Fresh'
  BY <1>14
     DEF ScannerStops, shardVars, workerVars, Fresh, TypeOK, ShardOK, WorkersOK,
         FilesOK
<1>15. ASSUME RecoverOrphan PROVE Fresh'
  BY <1>15
     DEF RecoverOrphan, Requeue, workerVars, fileVars, Fresh, TypeOK, ShardOK,
         WorkersOK, FilesOK
<1>16. ASSUME RecoverEarly PROVE Fresh'
  BY <1>16
     DEF RecoverEarly, Requeue, workerVars, fileVars, Fresh, TypeOK, ShardOK,
         WorkersOK, FilesOK
<1>17. CASE UNCHANGED vars
  BY <1>17 DEF vars, shardVars, workerVars, fileVars, Fresh
<1> QED
  BY <1>1, <1>2, <1>3, <1>4, <1>5, <1>6, <1>7, <1>8, <1>9, <1>10, <1>11, <1>12,
     <1>13, <1>14, <1>15, <1>16, <1>17 DEF Next, WorkerStep

\* A scanner, and an entry in shared, comes of a scan that was started.
LEMMA UnstartedKept ==
  ASSUME TypeOK, Fresh, Alone, Unstarted, [Next]_vars
  PROVE  Unstarted'
<1>1. ASSUME Dispatch PROVE Unstarted'
  BY <1>1 DEF Dispatch, workerVars, fileVars, Unstarted, TypeOK, WorkersOK
<1>2. ASSUME SendAgain PROVE Unstarted'
  BY <1>2
     DEF SendAgain, shardVars, workerVars, fileVars, Unstarted, TypeOK, WorkersOK
<1>3. ASSUME NEW w \in Worker, NEW t \in broker, ClaimLease(w, t) PROVE Unstarted'
  BY <1>3 DEF ClaimLease, fileVars, Unstarted, TypeOK, WorkersOK, Claimable, Fresh
<1>4. ASSUME NEW w \in Worker, NEW t \in broker, DiscardTask(w, t) PROVE Unstarted'
  BY <1>4
     DEF DiscardTask, shardVars, workerVars, fileVars, Unstarted, TypeOK, WorkersOK
<1>5. ASSUME NEW w \in Worker, StartScan(w) PROVE Unstarted'
  <2> SUFFICES ASSUME NEW v \in Worker, pc'[v] = "claimed"
               PROVE  /\ \A n \in scanner' : n.token # task[v]
                      /\ task[v] \notin shared'
    BY <1>5 DEF StartScan, Unstarted
  <2>1. v # w /\ pc[v] = "claimed"
    BY <1>5 DEF StartScan, TypeOK, WorkersOK
  <2>2. task[v] # task[w]
    BY <2>1 DEF Alone, Executing
  <2>3. task[v] \notin Neighbours(w)
    <3>1. \A u \in Worker : UsesPath(u) => task[u] # task[v]
      BY <2>1 DEF Alone, Executing, UsesPath
    <3>2. \A n \in scanner : n.token # task[v]
      BY <2>1 DEF Unstarted
    <3> QED
      BY <3>1, <3>2 DEF Neighbours
  <2> QED
    BY <1>5, <2>1, <2>2, <2>3 DEF StartScan, Unstarted
<1>6. ASSUME NEW w \in Worker, ScanDone(w) PROVE Unstarted'
  BY <1>6 DEF ScanDone, shardVars, fileVars, Unstarted, TypeOK, WorkersOK
<1>7. ASSUME NEW w \in Worker, ParseOutput(w) PROVE Unstarted'
  BY <1>7 DEF ParseOutput, shardVars, fileVars, Unstarted, TypeOK, WorkersOK
<1>8. ASSUME NEW w \in Worker, StoreArtifact(w) PROVE Unstarted'
  BY <1>8 DEF StoreArtifact, shardVars, Unstarted, TypeOK, WorkersOK
<1>9. ASSUME NEW w \in Worker, FinishLease(w) PROVE Unstarted'
  BY <1>9 DEF FinishLease, CloseTask, Unstarted, TypeOK, WorkersOK
<1>10. ASSUME NEW w \in Worker, Superseded(w) PROVE Unstarted'
  BY <1>10 DEF Superseded, CloseTask, shardVars, Unstarted, TypeOK, WorkersOK
<1>11. ASSUME NEW w \in Worker, AttemptFails(w) PROVE Unstarted'
  BY <1>11
     DEF AttemptFails, CloseTask, FailureStatus, Observed, Unstarted, TypeOK,
         WorkersOK
<1>12. ASSUME NEW w \in Worker, CrashWorker(w) PROVE Unstarted'
  BY <1>12 DEF CrashWorker, shardVars, fileVars, Unstarted, TypeOK, WorkersOK
<1>13. ASSUME NEW n \in scanner, ScannerWrites(n) PROVE Unstarted'
  BY <1>13 DEF ScannerWrites, shardVars, workerVars, Unstarted, TypeOK, WorkersOK
<1>14. ASSUME NEW n \in scanner, ScannerStops(n) PROVE Unstarted'
  BY <1>14 DEF ScannerStops, shardVars, workerVars, Unstarted, TypeOK, WorkersOK
<1>15. ASSUME RecoverOrphan PROVE Unstarted'
  BY <1>15
     DEF RecoverOrphan, Requeue, workerVars, fileVars, Unstarted, TypeOK, WorkersOK
<1>16. ASSUME RecoverEarly PROVE Unstarted'
  BY <1>16
     DEF RecoverEarly, Requeue, workerVars, fileVars, Unstarted, TypeOK, WorkersOK
<1>17. CASE UNCHANGED vars
  BY <1>17 DEF vars, shardVars, workerVars, fileVars, Unstarted
<1> QED
  BY <1>1, <1>2, <1>3, <1>4, <1>5, <1>6, <1>7, <1>8, <1>9, <1>10, <1>11, <1>12,
     <1>13, <1>14, <1>15, <1>16, <1>17 DEF Next, WorkerStep

\* Only a leased token is claimed, and no worker has it.
LEMMA AloneKept ==
  ASSUME TypeOK, Issued, Fresh, Alone, [Next]_vars
  PROVE  Alone'
<1>1. ASSUME Dispatch PROVE Alone'
  BY <1>1 DEF Dispatch, workerVars, fileVars, Alone, Executing, TypeOK, WorkersOK
<1>2. ASSUME SendAgain PROVE Alone'
  BY <1>2
     DEF SendAgain, shardVars, workerVars, fileVars, Alone, Executing, TypeOK,
         WorkersOK
<1>3. ASSUME NEW w \in Worker, NEW t \in broker, ClaimLease(w, t) PROVE Alone'
  BY <1>3
     DEF ClaimLease, fileVars, Alone, Executing, TypeOK, WorkersOK, Claimable, Fresh
<1>4. ASSUME NEW w \in Worker, NEW t \in broker, DiscardTask(w, t) PROVE Alone'
  BY <1>4
     DEF DiscardTask, shardVars, workerVars, fileVars, Alone, Executing, TypeOK,
         WorkersOK
<1>5. ASSUME NEW w \in Worker, StartScan(w) PROVE Alone'
  BY <1>5 DEF StartScan, OpenedFile, Cleared, Alone, Executing, TypeOK, WorkersOK
<1>6. ASSUME NEW w \in Worker, ScanDone(w) PROVE Alone'
  BY <1>6 DEF ScanDone, shardVars, fileVars, Alone, Executing, TypeOK, WorkersOK
<1>7. ASSUME NEW w \in Worker, ParseOutput(w) PROVE Alone'
  BY <1>7 DEF ParseOutput, shardVars, fileVars, Alone, Executing, TypeOK, WorkersOK
<1>8. ASSUME NEW w \in Worker, StoreArtifact(w) PROVE Alone'
  BY <1>8 DEF StoreArtifact, shardVars, Alone, Executing, TypeOK, WorkersOK
<1>9. ASSUME NEW w \in Worker, FinishLease(w) PROVE Alone'
  BY <1>9 DEF FinishLease, CloseTask, Alone, Executing, TypeOK, WorkersOK, Issued
<1>10. ASSUME NEW w \in Worker, Superseded(w) PROVE Alone'
  BY <1>10
     DEF Superseded, CloseTask, shardVars, Alone, Executing, TypeOK, WorkersOK,
         Issued
<1>11. ASSUME NEW w \in Worker, AttemptFails(w) PROVE Alone'
  BY <1>11
     DEF AttemptFails, CloseTask, FailureStatus, Observed, Alone, Executing, TypeOK,
         WorkersOK, Issued
<1>12. ASSUME NEW w \in Worker, CrashWorker(w) PROVE Alone'
  BY <1>12
     DEF CrashWorker, shardVars, fileVars, Alone, Executing, TypeOK, WorkersOK,
         Issued
<1>13. ASSUME NEW n \in scanner, ScannerWrites(n) PROVE Alone'
  BY <1>13
     DEF ScannerWrites, shardVars, workerVars, Alone, Executing, TypeOK, WorkersOK
<1>14. ASSUME NEW n \in scanner, ScannerStops(n) PROVE Alone'
  BY <1>14
     DEF ScannerStops, shardVars, workerVars, Alone, Executing, TypeOK, WorkersOK
<1>15. ASSUME RecoverOrphan PROVE Alone'
  BY <1>15
     DEF RecoverOrphan, Requeue, workerVars, fileVars, Alone, Executing, TypeOK,
         WorkersOK
<1>16. ASSUME RecoverEarly PROVE Alone'
  BY <1>16
     DEF RecoverEarly, Requeue, workerVars, fileVars, Alone, Executing, TypeOK,
         WorkersOK
<1>17. CASE UNCHANGED vars
  BY <1>17 DEF vars, shardVars, workerVars, fileVars, Alone, Executing
<1> QED
  BY <1>1, <1>2, <1>3, <1>4, <1>5, <1>6, <1>7, <1>8, <1>9, <1>10, <1>11, <1>12,
     <1>13, <1>14, <1>15, <1>16, <1>17 DEF Next, WorkerStep

\* A key is written by the one execution of its token.
LEMMA KeysAreNew ==
  ASSUME TypeOK, Fresh, Alone, StoredOnce, [Next]_vars
  PROVE  StoredOnce'
<1>1. ASSUME Dispatch PROVE StoredOnce'
  BY <1>1 DEF Dispatch, workerVars, fileVars, StoredOnce, TypeOK, WorkersOK
<1>2. ASSUME SendAgain PROVE StoredOnce'
  BY <1>2
     DEF SendAgain, shardVars, workerVars, fileVars, StoredOnce, TypeOK, WorkersOK
<1>3. ASSUME NEW w \in Worker, NEW t \in broker, ClaimLease(w, t) PROVE StoredOnce'
  BY <1>3 DEF ClaimLease, fileVars, StoredOnce, TypeOK, WorkersOK, Claimable, Fresh
<1>4. ASSUME NEW w \in Worker, NEW t \in broker, DiscardTask(w, t) PROVE StoredOnce'
  BY <1>4
     DEF DiscardTask, shardVars, workerVars, fileVars, StoredOnce, TypeOK, WorkersOK
<1>5. ASSUME NEW w \in Worker, StartScan(w) PROVE StoredOnce'
  BY <1>5 DEF StartScan, OpenedFile, Cleared, StoredOnce, TypeOK, WorkersOK
<1>6. ASSUME NEW w \in Worker, ScanDone(w) PROVE StoredOnce'
  BY <1>6 DEF ScanDone, shardVars, fileVars, StoredOnce, TypeOK, WorkersOK
<1>7. ASSUME NEW w \in Worker, ParseOutput(w) PROVE StoredOnce'
  BY <1>7 DEF ParseOutput, shardVars, fileVars, StoredOnce, TypeOK, WorkersOK
<1>8. ASSUME NEW w \in Worker, StoreArtifact(w) PROVE StoredOnce'
  BY <1>8
     DEF StoreArtifact, shardVars, StoredOnce, TypeOK, WorkersOK, Alone, Executing
<1>9. ASSUME NEW w \in Worker, FinishLease(w) PROVE StoredOnce'
  BY <1>9 DEF FinishLease, CloseTask, StoredOnce, TypeOK, WorkersOK
<1>10. ASSUME NEW w \in Worker, Superseded(w) PROVE StoredOnce'
  BY <1>10 DEF Superseded, CloseTask, shardVars, StoredOnce, TypeOK, WorkersOK
<1>11. ASSUME NEW w \in Worker, AttemptFails(w) PROVE StoredOnce'
  BY <1>11
     DEF AttemptFails, CloseTask, FailureStatus, Observed, StoredOnce, TypeOK,
         WorkersOK
<1>12. ASSUME NEW w \in Worker, CrashWorker(w) PROVE StoredOnce'
  BY <1>12 DEF CrashWorker, shardVars, fileVars, StoredOnce, TypeOK, WorkersOK
<1>13. ASSUME NEW n \in scanner, ScannerWrites(n) PROVE StoredOnce'
  BY <1>13 DEF ScannerWrites, shardVars, workerVars, StoredOnce, TypeOK, WorkersOK
<1>14. ASSUME NEW n \in scanner, ScannerStops(n) PROVE StoredOnce'
  BY <1>14 DEF ScannerStops, shardVars, workerVars, StoredOnce, TypeOK, WorkersOK
<1>15. ASSUME RecoverOrphan PROVE StoredOnce'
  BY <1>15
     DEF RecoverOrphan, Requeue, workerVars, fileVars, StoredOnce, TypeOK, WorkersOK
<1>16. ASSUME RecoverEarly PROVE StoredOnce'
  BY <1>16
     DEF RecoverEarly, Requeue, workerVars, fileVars, StoredOnce, TypeOK, WorkersOK
<1>17. CASE UNCHANGED vars
  BY <1>17 DEF vars, shardVars, workerVars, fileVars, StoredOnce
<1> QED
  BY <1>1, <1>2, <1>3, <1>4, <1>5, <1>6, <1>7, <1>8, <1>9, <1>10, <1>11, <1>12,
     <1>13, <1>14, <1>15, <1>16, <1>17 DEF Next, WorkerStep

\* A worker that starts where others are enters itself and them.
LEMMA PathKept ==
  ASSUME TypeOK, PathIsOwn, [Next]_vars
  PROVE  PathIsOwn'
<1>1. ASSUME Dispatch PROVE PathIsOwn'
  BY <1>1 DEF Dispatch, workerVars, fileVars, PathIsOwn, UsesPath, TypeOK, WorkersOK
<1>2. ASSUME SendAgain PROVE PathIsOwn'
  BY <1>2
     DEF SendAgain, shardVars, workerVars, fileVars, PathIsOwn, UsesPath, TypeOK,
         WorkersOK
<1>3. ASSUME NEW w \in Worker, NEW t \in broker, ClaimLease(w, t) PROVE PathIsOwn'
  BY <1>3 DEF ClaimLease, fileVars, PathIsOwn, UsesPath, TypeOK, WorkersOK
<1>4. ASSUME NEW w \in Worker, NEW t \in broker, DiscardTask(w, t) PROVE PathIsOwn'
  BY <1>4
     DEF DiscardTask, shardVars, workerVars, fileVars, PathIsOwn, UsesPath, TypeOK,
         WorkersOK
<1>5. ASSUME NEW w \in Worker, StartScan(w) PROVE PathIsOwn'
  <2> SUFFICES ASSUME NEW u \in Worker, NEW v \in Worker, u # v, HostOf[u] = HostOf[v],
                      UsesPath(u)', UsesPath(v)'
               PROVE  task[v] \in shared'
    BY <1>5 DEF StartScan, PathIsOwn
  <2>1. shared \subseteq shared'
    BY <1>5 DEF StartScan
  <2>2. \A x \in Worker \ {w} : UsesPath(x)' => UsesPath(x)
    BY <1>5 DEF StartScan, UsesPath, TypeOK, WorkersOK
  <2>3. CASE u # w /\ v # w
    BY <2>1, <2>2, <2>3 DEF PathIsOwn
  <2>4. CASE u = w
    <3>1. task[v] \in Neighbours(w)
      BY <2>2, <2>4 DEF Neighbours
    <3> QED
      BY <1>5, <3>1 DEF StartScan
  <2>5. CASE v = w
    <3>1. task[u] \in Neighbours(w)
      BY <2>2, <2>5 DEF Neighbours
    <3> QED
      BY <1>5, <3>1, <2>5 DEF StartScan
  <2> QED
    BY <2>3, <2>4, <2>5
<1>6. ASSUME NEW w \in Worker, ScanDone(w) PROVE PathIsOwn'
  BY <1>6 DEF ScanDone, shardVars, fileVars, PathIsOwn, UsesPath, TypeOK, WorkersOK
<1>7. ASSUME NEW w \in Worker, ParseOutput(w) PROVE PathIsOwn'
  BY <1>7
     DEF ParseOutput, shardVars, fileVars, PathIsOwn, UsesPath, TypeOK, WorkersOK
<1>8. ASSUME NEW w \in Worker, StoreArtifact(w) PROVE PathIsOwn'
  BY <1>8 DEF StoreArtifact, shardVars, PathIsOwn, UsesPath, TypeOK, WorkersOK
<1>9. ASSUME NEW w \in Worker, FinishLease(w) PROVE PathIsOwn'
  BY <1>9 DEF FinishLease, CloseTask, PathIsOwn, UsesPath, TypeOK, WorkersOK
<1>10. ASSUME NEW w \in Worker, Superseded(w) PROVE PathIsOwn'
  BY <1>10
     DEF Superseded, CloseTask, shardVars, PathIsOwn, UsesPath, TypeOK, WorkersOK
<1>11. ASSUME NEW w \in Worker, AttemptFails(w) PROVE PathIsOwn'
  BY <1>11
     DEF AttemptFails, CloseTask, FailureStatus, Observed, PathIsOwn, UsesPath,
         TypeOK, WorkersOK
<1>12. ASSUME NEW w \in Worker, CrashWorker(w) PROVE PathIsOwn'
  BY <1>12
     DEF CrashWorker, shardVars, fileVars, PathIsOwn, UsesPath, TypeOK, WorkersOK
<1>13. ASSUME NEW n \in scanner, ScannerWrites(n) PROVE PathIsOwn'
  BY <1>13
     DEF ScannerWrites, shardVars, workerVars, PathIsOwn, UsesPath, TypeOK,
         WorkersOK
<1>14. ASSUME NEW n \in scanner, ScannerStops(n) PROVE PathIsOwn'
  BY <1>14
     DEF ScannerStops, shardVars, workerVars, PathIsOwn, UsesPath, TypeOK, WorkersOK
<1>15. ASSUME RecoverOrphan PROVE PathIsOwn'
  BY <1>15
     DEF RecoverOrphan, Requeue, workerVars, fileVars, PathIsOwn, UsesPath, TypeOK,
         WorkersOK
<1>16. ASSUME RecoverEarly PROVE PathIsOwn'
  BY <1>16
     DEF RecoverEarly, Requeue, workerVars, fileVars, PathIsOwn, UsesPath, TypeOK,
         WorkersOK
<1>17. CASE UNCHANGED vars
  BY <1>17 DEF vars, shardVars, workerVars, fileVars, PathIsOwn, UsesPath
<1> QED
  BY <1>1, <1>2, <1>3, <1>4, <1>5, <1>6, <1>7, <1>8, <1>9, <1>10, <1>11, <1>12,
     <1>13, <1>14, <1>15, <1>16, <1>17 DEF Next, WorkerStep

\* A worker that leaves its path to nobody who still relies on it.
LEMMA LeavePath ==
  ASSUME TypeOK, PathIsOwn, FileIsOwn, NEW w \in Worker, UsesPath(w),
         UNCHANGED <<scanner, shared>>,
         \A v \in Worker \ {w} : pc'[v] = pc[v] /\ task'[v] = task[v],
         pc'[w] \notin {"scanning", "scanned", "parsed"},
         path' = [path EXCEPT ![HostOf[w]] = 0],
         content' = [content EXCEPT ![HostOf[w]] = {}]
  PROVE  FileIsOwn'
<1> SUFFICES ASSUME NEW v \in Worker, task'[v] \notin shared',
                    pc'[v] \in {"scanning", "scanned", "parsed"}
             PROVE  /\ Reached(v)'
                    /\ pc'[v] = "scanning" =>
                         (\E n \in scanner' : n.token = task'[v]) \/ content'[HostOf[v]] = {task'[v]}
                    /\ pc'[v] \in {"scanned", "parsed"} =>
                         /\ content'[HostOf[v]] = {task'[v]}
                         /\ \A n \in scanner' : n.token # task'[v]
  BY DEF FileIsOwn
<1>1. v # w /\ pc'[v] = pc[v] /\ task'[v] = task[v] /\ task[v] \notin shared
  OBVIOUS
<1>2. HostOf[v] # HostOf[w]
  BY <1>1 DEF PathIsOwn, UsesPath
<1>3. path'[HostOf[v]] = path[HostOf[v]] /\ content'[HostOf[v]] = content[HostOf[v]]
  BY <1>2, HostAssumption DEF TypeOK, FilesOK
<1>4. Reached(v)'
  BY <1>1, <1>3 DEF FileIsOwn, Reached
<1> QED
  BY <1>1, <1>3, <1>4 DEF FileIsOwn

\* The file of a worker that shares its path with nobody changes by its scanner alone.
LEMMA FileKept ==
  ASSUME TypeOK, Fresh, Issued, Unstarted, Alone, PathIsOwn, FileIsOwn, [Next]_vars
  PROVE  FileIsOwn'
<1>1. ASSUME Dispatch PROVE FileIsOwn'
  BY <1>1 DEF Dispatch, workerVars, fileVars, FileIsOwn, Reached, TypeOK, WorkersOK
<1>2. ASSUME SendAgain PROVE FileIsOwn'
  BY <1>2
     DEF SendAgain, shardVars, workerVars, fileVars, FileIsOwn, Reached, TypeOK,
         WorkersOK
<1>3. ASSUME NEW w \in Worker, NEW t \in broker, ClaimLease(w, t) PROVE FileIsOwn'
  BY <1>3 DEF ClaimLease, fileVars, FileIsOwn, Reached, TypeOK, WorkersOK
<1>4. ASSUME NEW w \in Worker, NEW t \in broker, DiscardTask(w, t) PROVE FileIsOwn'
  BY <1>4
     DEF DiscardTask, shardVars, workerVars, fileVars, FileIsOwn, Reached, TypeOK,
         WorkersOK
<1>5. ASSUME NEW w \in Worker, StartScan(w) PROVE FileIsOwn'
  <2> DEFINE h == HostOf[w]
             f == OpenedFile(w)
  <2> SUFFICES ASSUME NEW v \in Worker, task[v] \notin shared',
                      pc'[v] \in {"scanning", "scanned", "parsed"}
               PROVE  /\ Reached(v)'
                      /\ pc'[v] = "scanning" =>
                           (\E n \in scanner' : n.token = task[v]) \/ content'[HostOf[v]] = {task[v]}
                      /\ pc'[v] \in {"scanned", "parsed"} =>
                           /\ content'[HostOf[v]] = {task[v]}
                           /\ \A n \in scanner' : n.token # task[v]
    BY <1>5 DEF StartScan, FileIsOwn
  <2> DEFINE new == [token |-> task[w], file |-> f, host |-> h]
  <2>1. /\ scanner' = scanner \cup {new} /\ task' = task
        /\ path' = [path EXCEPT ![h] = f] /\ content' = [content EXCEPT ![h] = {}]
        /\ h \in Host /\ path \in [Host -> Nat] /\ content \in [Host -> SUBSET Nat]
    BY <1>5, HostAssumption DEF StartScan, TypeOK, FilesOK
  <2>2. CASE v = w
    <3>1. Neighbours(w) = {}
      BY <1>5, <2>2 DEF StartScan
    <3>2. \A n \in scanner : n.file # f
      BY <3>1 DEF Neighbours
    <3>3. \A n \in scanner : n.token # task[w]
      BY <1>5 DEF StartScan, Unstarted
    <3>4. f # 0
      BY <1>5 DEF StartScan, OpenedFile, Issued, Executing
    <3>5. pc'[w] = "scanning"
      BY <1>5 DEF StartScan, TypeOK, WorkersOK
    <3>6. path'[h] = f /\ content'[h] = {}
      BY <2>1
    <3>7. \A n \in scanner' : n.file = f \/ n.token = task[w] => n = new
      BY <2>1, <3>2, <3>3
    <3>8. Reached(w)'
      BY <2>1, <3>4, <3>6, <3>7 DEF Reached
    <3>9. new \in scanner' /\ new.token = task[w]
      BY <2>1
    <3>10. \E n \in scanner' : n.token = task[v]
      BY <2>2, <3>9
    <3> QED
      BY <2>2, <3>5, <3>8, <3>10
  <2>3. CASE v # w
    <3>1. pc'[v] = pc[v]
      BY <1>5, <2>3 DEF StartScan
    <3>2. HostOf[v] # h
      <4>1. ASSUME HostOf[v] = h PROVE FALSE
        <5>1. task[v] \in Neighbours(w)
          BY <2>3, <3>1, <4>1 DEF Neighbours, UsesPath
        <5> QED
          BY <1>5, <5>1 DEF StartScan
      <4> QED
        BY <4>1
    <3>3. task[v] # task[w]
      BY <1>5, <2>3, <3>1 DEF StartScan, Alone, Executing
    <3>4. task[v] \notin shared
      BY <1>5 DEF StartScan
    <3>5. path'[HostOf[v]] = path[HostOf[v]] /\ content'[HostOf[v]] = content[HostOf[v]]
      BY <2>1, <3>2
    <3>6. Reached(v)
      BY <3>1, <3>4 DEF FileIsOwn
    <3>7. Reached(v)'
      BY <2>1, <3>2, <3>3, <3>5, <3>6 DEF Reached
    <3> QED
      BY <2>1, <3>1, <3>3, <3>4, <3>5, <3>7 DEF FileIsOwn
  <2> QED
    BY <2>2, <2>3
<1>6. ASSUME NEW w \in Worker, ScanDone(w) PROVE FileIsOwn'
  BY <1>6 DEF ScanDone, shardVars, fileVars, FileIsOwn, Reached, TypeOK, WorkersOK
<1>7. ASSUME NEW w \in Worker, ParseOutput(w) PROVE FileIsOwn'
  <2>1. /\ task' = task /\ shared' = shared /\ scanner' = scanner
        /\ path' = path /\ content' = content
    BY <1>7 DEF ParseOutput, fileVars
  <2>2. pc[w] = "scanned" /\ pc' = [pc EXCEPT ![w] = "parsed"]
    BY <1>7 DEF ParseOutput
  <2>3. \A v \in Worker : Reached(v) => Reached(v)'
    BY <2>1 DEF Reached
  <2>4. \A v \in Worker : pc'[v] = pc[v] \/ (pc[v] = "scanned" /\ pc'[v] = "parsed")
    BY <2>2 DEF TypeOK, WorkersOK
  <2> QED
    BY <2>1, <2>3, <2>4 DEF FileIsOwn
<1>8. ASSUME NEW w \in Worker, StoreArtifact(w) PROVE FileIsOwn'
  <2>1. /\ UsesPath(w) /\ UNCHANGED <<scanner, shared>>
        /\ \A v \in Worker \ {w} : pc'[v] = pc[v] /\ task'[v] = task[v]
        /\ pc'[w] \notin {"scanning", "scanned", "parsed"}
        /\ path' = [path EXCEPT ![HostOf[w]] = 0]
        /\ content' = [content EXCEPT ![HostOf[w]] = {}]
    BY <1>8 DEF StoreArtifact, CloseTask, UsesPath, TypeOK, WorkersOK
  <2> QED
    BY <2>1, LeavePath
<1>9. ASSUME NEW w \in Worker, FinishLease(w) PROVE FileIsOwn'
  <2>1. /\ UsesPath(w) /\ UNCHANGED <<scanner, shared>>
        /\ \A v \in Worker \ {w} : pc'[v] = pc[v] /\ task'[v] = task[v]
        /\ pc'[w] \notin {"scanning", "scanned", "parsed"}
        /\ path' = [path EXCEPT ![HostOf[w]] = 0]
        /\ content' = [content EXCEPT ![HostOf[w]] = {}]
    BY <1>9 DEF FinishLease, CloseTask, UsesPath, TypeOK, WorkersOK
  <2> QED
    BY <2>1, LeavePath
<1>10. ASSUME NEW w \in Worker, Superseded(w) PROVE FileIsOwn'
  <2>1. /\ UsesPath(w) /\ UNCHANGED <<scanner, shared>>
        /\ \A v \in Worker \ {w} : pc'[v] = pc[v] /\ task'[v] = task[v]
        /\ pc'[w] \notin {"scanning", "scanned", "parsed"}
        /\ path' = [path EXCEPT ![HostOf[w]] = 0]
        /\ content' = [content EXCEPT ![HostOf[w]] = {}]
    BY <1>10 DEF Superseded, CloseTask, UsesPath, TypeOK, WorkersOK
  <2> QED
    BY <2>1, LeavePath
<1>11. ASSUME NEW w \in Worker, AttemptFails(w) PROVE FileIsOwn'
  <2>1. /\ UsesPath(w) /\ UNCHANGED <<scanner, shared>>
        /\ \A v \in Worker \ {w} : pc'[v] = pc[v] /\ task'[v] = task[v]
        /\ pc'[w] \notin {"scanning", "scanned", "parsed"}
        /\ path' = [path EXCEPT ![HostOf[w]] = 0]
        /\ content' = [content EXCEPT ![HostOf[w]] = {}]
    BY <1>11 DEF AttemptFails, CloseTask, UsesPath, TypeOK, WorkersOK
  <2> QED
    BY <2>1, LeavePath
<1>12. ASSUME NEW w \in Worker, CrashWorker(w) PROVE FileIsOwn'
  BY <1>12
     DEF CrashWorker, shardVars, fileVars, FileIsOwn, Reached, TypeOK, WorkersOK
<1>13. ASSUME NEW n \in scanner, ScannerWrites(n) PROVE FileIsOwn'
  <2> SUFFICES ASSUME NEW v \in Worker, task[v] \notin shared,
                      pc[v] \in {"scanning", "scanned", "parsed"}
               PROVE  /\ Reached(v)'
                      /\ pc[v] = "scanning" =>
                           (\E m \in scanner' : m.token = task[v]) \/ content'[HostOf[v]] = {task[v]}
                      /\ pc[v] \in {"scanned", "parsed"} =>
                           /\ content'[HostOf[v]] = {task[v]}
                           /\ \A m \in scanner' : m.token # task[v]
    BY <1>13 DEF ScannerWrites, workerVars, FileIsOwn
  <2> DEFINE h == HostOf[v]
  <2>1. /\ scanner' \in {scanner, scanner \ {n}} /\ path' = path /\ task' = task
        /\ h \in Host /\ n.host \in Host /\ content \in [Host -> SUBSET Nat]
    BY <1>13, HostAssumption DEF ScannerWrites, workerVars, TypeOK, FilesOK, Process
  <2>2. Reached(v)
    BY DEF FileIsOwn
  <2>3. CASE n.token = task[v]
    <3>1. n.host = h /\ n.file = path[h]
      BY <2>2, <2>3 DEF Reached
    <3>2. content' = [content EXCEPT ![h] = content[h] \cup {task[v]}]
      BY <1>13, <2>3, <3>1 DEF ScannerWrites
    <3>3. content'[h] = {task[v]}
      BY <2>1, <2>2, <3>2 DEF Reached
    <3>4. Reached(v)'
      BY <2>1, <2>2, <3>3 DEF Reached
    <3> QED
      BY <2>1, <2>3, <3>3, <3>4 DEF FileIsOwn
  <2>4. CASE n.token # task[v]
    <3>1. content'[h] = content[h]
      BY <1>13, <2>1, <2>2, <2>4 DEF ScannerWrites, Reached
    <3>2. Reached(v)'
      BY <2>1, <2>2, <3>1 DEF Reached
    <3> QED
      BY <2>1, <2>4, <3>1, <3>2 DEF FileIsOwn
  <2> QED
    BY <2>3, <2>4
<1>14. ASSUME NEW n \in scanner, ScannerStops(n) PROVE FileIsOwn'
  BY <1>14
     DEF ScannerStops, shardVars, workerVars, FileIsOwn, Reached, TypeOK, WorkersOK
<1>15. ASSUME RecoverOrphan PROVE FileIsOwn'
  BY <1>15
     DEF RecoverOrphan, Requeue, workerVars, fileVars, FileIsOwn, Reached, TypeOK,
         WorkersOK
<1>16. ASSUME RecoverEarly PROVE FileIsOwn'
  BY <1>16
     DEF RecoverEarly, Requeue, workerVars, fileVars, FileIsOwn, Reached, TypeOK,
         WorkersOK
<1>17. CASE UNCHANGED vars
  BY <1>17 DEF vars, shardVars, workerVars, fileVars, FileIsOwn, Reached
<1> QED
  BY <1>1, <1>2, <1>3, <1>4, <1>5, <1>6, <1>7, <1>8, <1>9, <1>10, <1>11, <1>12,
     <1>13, <1>14, <1>15, <1>16, <1>17 DEF Next, WorkerStep

\* It parses and stores its own output.
LEMMA StoreKept ==
  ASSUME TypeOK, Alone, StoredOnce, FileIsOwn, StoreIsOwn, [Next]_vars
  PROVE  StoreIsOwn'
<1>1. ASSUME Dispatch PROVE StoreIsOwn'
  BY <1>1
     DEF Dispatch, workerVars, fileVars, StoreIsOwn, TypeOK, ShardOK, WorkersOK,
         FilesOK
<1>2. ASSUME SendAgain PROVE StoreIsOwn'
  BY <1>2
     DEF SendAgain, shardVars, workerVars, fileVars, StoreIsOwn, TypeOK, ShardOK,
         WorkersOK, FilesOK
<1>3. ASSUME NEW w \in Worker, NEW t \in broker, ClaimLease(w, t) PROVE StoreIsOwn'
  BY <1>3 DEF ClaimLease, fileVars, StoreIsOwn, TypeOK, ShardOK, WorkersOK, FilesOK
<1>4. ASSUME NEW w \in Worker, NEW t \in broker, DiscardTask(w, t) PROVE StoreIsOwn'
  BY <1>4
     DEF DiscardTask, shardVars, workerVars, fileVars, StoreIsOwn, TypeOK, ShardOK,
         WorkersOK, FilesOK
<1>5. ASSUME NEW w \in Worker, StartScan(w) PROVE StoreIsOwn'
  BY <1>5
     DEF StartScan, OpenedFile, Cleared, StoreIsOwn, TypeOK, ShardOK, WorkersOK,
         FilesOK
<1>6. ASSUME NEW w \in Worker, ScanDone(w) PROVE StoreIsOwn'
  BY <1>6
     DEF ScanDone, shardVars, fileVars, StoreIsOwn, TypeOK, ShardOK, WorkersOK,
         FilesOK
<1>7. ASSUME NEW w \in Worker, ParseOutput(w) PROVE StoreIsOwn'
  BY <1>7
     DEF ParseOutput, shardVars, fileVars, StoreIsOwn, TypeOK, ShardOK, WorkersOK,
         FilesOK, FileIsOwn
<1>8. ASSUME NEW w \in Worker, StoreArtifact(w) PROVE StoreIsOwn'
  BY <1>8
     DEF StoreArtifact, shardVars, StoreIsOwn, TypeOK, ShardOK, WorkersOK, FilesOK,
         FileIsOwn, StoredOnce, Alone, Executing
<1>9. ASSUME NEW w \in Worker, FinishLease(w) PROVE StoreIsOwn'
  BY <1>9
     DEF FinishLease, CloseTask, StoreIsOwn, TypeOK, ShardOK, WorkersOK, FilesOK
<1>10. ASSUME NEW w \in Worker, Superseded(w) PROVE StoreIsOwn'
  BY <1>10
     DEF Superseded, CloseTask, shardVars, StoreIsOwn, TypeOK, ShardOK, WorkersOK,
         FilesOK
<1>11. ASSUME NEW w \in Worker, AttemptFails(w) PROVE StoreIsOwn'
  BY <1>11
     DEF AttemptFails, CloseTask, FailureStatus, Observed, StoreIsOwn, TypeOK,
         ShardOK, WorkersOK, FilesOK
<1>12. ASSUME NEW w \in Worker, CrashWorker(w) PROVE StoreIsOwn'
  BY <1>12
     DEF CrashWorker, shardVars, fileVars, StoreIsOwn, TypeOK, ShardOK, WorkersOK,
         FilesOK
<1>13. ASSUME NEW n \in scanner, ScannerWrites(n) PROVE StoreIsOwn'
  BY <1>13
     DEF ScannerWrites, shardVars, workerVars, StoreIsOwn, TypeOK, ShardOK,
         WorkersOK, FilesOK
<1>14. ASSUME NEW n \in scanner, ScannerStops(n) PROVE StoreIsOwn'
  BY <1>14
     DEF ScannerStops, shardVars, workerVars, StoreIsOwn, TypeOK, ShardOK,
         WorkersOK, FilesOK
<1>15. ASSUME RecoverOrphan PROVE StoreIsOwn'
  BY <1>15
     DEF RecoverOrphan, Requeue, workerVars, fileVars, StoreIsOwn, TypeOK, ShardOK,
         WorkersOK, FilesOK
<1>16. ASSUME RecoverEarly PROVE StoreIsOwn'
  BY <1>16
     DEF RecoverEarly, Requeue, workerVars, fileVars, StoreIsOwn, TypeOK, ShardOK,
         WorkersOK, FilesOK
<1>17. CASE UNCHANGED vars
  BY <1>17 DEF vars, shardVars, workerVars, fileVars, StoreIsOwn
<1> QED
  BY <1>1, <1>2, <1>3, <1>4, <1>5, <1>6, <1>7, <1>8, <1>9, <1>10, <1>11, <1>12,
     <1>13, <1>14, <1>15, <1>16, <1>17 DEF Next, WorkerStep

\* What is stored stays.
LEMMA StoredKept ==
  ASSUME TypeOK, HasStored, [Next]_vars
  PROVE  HasStored'
<1>1. ASSUME Dispatch PROVE HasStored'
  BY <1>1 DEF Dispatch, workerVars, fileVars, HasStored, TypeOK, WorkersOK
<1>2. ASSUME SendAgain PROVE HasStored'
  BY <1>2
     DEF SendAgain, shardVars, workerVars, fileVars, HasStored, TypeOK, WorkersOK
<1>3. ASSUME NEW w \in Worker, NEW t \in broker, ClaimLease(w, t) PROVE HasStored'
  BY <1>3 DEF ClaimLease, fileVars, HasStored, TypeOK, WorkersOK
<1>4. ASSUME NEW w \in Worker, NEW t \in broker, DiscardTask(w, t) PROVE HasStored'
  BY <1>4
     DEF DiscardTask, shardVars, workerVars, fileVars, HasStored, TypeOK, WorkersOK
<1>5. ASSUME NEW w \in Worker, StartScan(w) PROVE HasStored'
  BY <1>5 DEF StartScan, OpenedFile, Cleared, HasStored, TypeOK, WorkersOK
<1>6. ASSUME NEW w \in Worker, ScanDone(w) PROVE HasStored'
  BY <1>6 DEF ScanDone, shardVars, fileVars, HasStored, TypeOK, WorkersOK
<1>7. ASSUME NEW w \in Worker, ParseOutput(w) PROVE HasStored'
  BY <1>7 DEF ParseOutput, shardVars, fileVars, HasStored, TypeOK, WorkersOK
<1>8. ASSUME NEW w \in Worker, StoreArtifact(w) PROVE HasStored'
  <2> DEFINE new == [token |-> task[w], content |-> content[HostOf[w]]]
  <2>1. stored' = stored \cup {new} /\ new.token = task[w]
    BY <1>8 DEF StoreArtifact
  <2>2. task' = task /\ \A v \in Worker : pc'[v] = "stored" => v = w \/ pc[v] = "stored"
    BY <1>8 DEF StoreArtifact, TypeOK, WorkersOK
  <2> QED
    BY <2>1, <2>2 DEF HasStored
<1>9. ASSUME NEW w \in Worker, FinishLease(w) PROVE HasStored'
  BY <1>9 DEF FinishLease, CloseTask, HasStored, TypeOK, WorkersOK
<1>10. ASSUME NEW w \in Worker, Superseded(w) PROVE HasStored'
  BY <1>10 DEF Superseded, CloseTask, shardVars, HasStored, TypeOK, WorkersOK
<1>11. ASSUME NEW w \in Worker, AttemptFails(w) PROVE HasStored'
  BY <1>11
     DEF AttemptFails, CloseTask, FailureStatus, Observed, HasStored, TypeOK,
         WorkersOK
<1>12. ASSUME NEW w \in Worker, CrashWorker(w) PROVE HasStored'
  BY <1>12 DEF CrashWorker, shardVars, fileVars, HasStored, TypeOK, WorkersOK
<1>13. ASSUME NEW n \in scanner, ScannerWrites(n) PROVE HasStored'
  BY <1>13 DEF ScannerWrites, shardVars, workerVars, HasStored, TypeOK, WorkersOK
<1>14. ASSUME NEW n \in scanner, ScannerStops(n) PROVE HasStored'
  BY <1>14 DEF ScannerStops, shardVars, workerVars, HasStored, TypeOK, WorkersOK
<1>15. ASSUME RecoverOrphan PROVE HasStored'
  BY <1>15
     DEF RecoverOrphan, Requeue, workerVars, fileVars, HasStored, TypeOK, WorkersOK
<1>16. ASSUME RecoverEarly PROVE HasStored'
  BY <1>16
     DEF RecoverEarly, Requeue, workerVars, fileVars, HasStored, TypeOK, WorkersOK
<1>17. CASE UNCHANGED vars
  BY <1>17 DEF vars, shardVars, workerVars, fileVars, HasStored
<1> QED
  BY <1>1, <1>2, <1>3, <1>4, <1>5, <1>6, <1>7, <1>8, <1>9, <1>10, <1>11, <1>12,
     <1>13, <1>14, <1>15, <1>16, <1>17 DEF Next, WorkerStep

\* Rows are committed by the owner of the lease, who then gives it up.
LEMMA NoRowsKept ==
  ASSUME TypeOK, Fresh, Alone, NoRowsYet, [Next]_vars
  PROVE  NoRowsYet'
<1>1. ASSUME Dispatch PROVE NoRowsYet'
  BY <1>1
     DEF Dispatch, workerVars, fileVars, NoRowsYet, UsesPath, Owns, TypeOK, ShardOK,
         WorkersOK, FilesOK
<1>2. ASSUME SendAgain PROVE NoRowsYet'
  BY <1>2
     DEF SendAgain, shardVars, workerVars, fileVars, NoRowsYet, UsesPath, Owns,
         TypeOK, ShardOK, WorkersOK, FilesOK
<1>3. ASSUME NEW w \in Worker, NEW t \in broker, ClaimLease(w, t) PROVE NoRowsYet'
  BY <1>3
     DEF ClaimLease, fileVars, NoRowsYet, UsesPath, Owns, TypeOK, ShardOK,
         WorkersOK, FilesOK, Claimable, Fresh
<1>4. ASSUME NEW w \in Worker, NEW t \in broker, DiscardTask(w, t) PROVE NoRowsYet'
  BY <1>4
     DEF DiscardTask, shardVars, workerVars, fileVars, NoRowsYet, UsesPath, Owns,
         TypeOK, ShardOK, WorkersOK, FilesOK
<1>5. ASSUME NEW w \in Worker, StartScan(w) PROVE NoRowsYet'
  BY <1>5
     DEF StartScan, OpenedFile, Cleared, NoRowsYet, UsesPath, Owns, TypeOK, ShardOK,
         WorkersOK, FilesOK
<1>6. ASSUME NEW w \in Worker, ScanDone(w) PROVE NoRowsYet'
  BY <1>6
     DEF ScanDone, shardVars, fileVars, NoRowsYet, UsesPath, Owns, TypeOK, ShardOK,
         WorkersOK, FilesOK
<1>7. ASSUME NEW w \in Worker, ParseOutput(w) PROVE NoRowsYet'
  BY <1>7
     DEF ParseOutput, shardVars, fileVars, NoRowsYet, UsesPath, Owns, TypeOK,
         ShardOK, WorkersOK, FilesOK
<1>8. ASSUME NEW w \in Worker, StoreArtifact(w) PROVE NoRowsYet'
  BY <1>8
     DEF StoreArtifact, shardVars, NoRowsYet, UsesPath, Owns, TypeOK, ShardOK,
         WorkersOK, FilesOK
<1>9. ASSUME NEW w \in Worker, FinishLease(w) PROVE NoRowsYet'
  BY <1>9
     DEF FinishLease, CloseTask, NoRowsYet, UsesPath, Owns, TypeOK, ShardOK,
         WorkersOK, FilesOK, Alone, Executing
<1>10. ASSUME NEW w \in Worker, Superseded(w) PROVE NoRowsYet'
  BY <1>10
     DEF Superseded, CloseTask, shardVars, NoRowsYet, UsesPath, Owns, TypeOK,
         ShardOK, WorkersOK, FilesOK
<1>11. ASSUME NEW w \in Worker, AttemptFails(w) PROVE NoRowsYet'
  BY <1>11
     DEF AttemptFails, CloseTask, FailureStatus, Observed, NoRowsYet, UsesPath,
         Owns, TypeOK, ShardOK, WorkersOK, FilesOK, Alone, Executing
<1>12. ASSUME NEW w \in Worker, CrashWorker(w) PROVE NoRowsYet'
  BY <1>12
     DEF CrashWorker, shardVars, fileVars, NoRowsYet, UsesPath, Owns, TypeOK,
         ShardOK, WorkersOK, FilesOK
<1>13. ASSUME NEW n \in scanner, ScannerWrites(n) PROVE NoRowsYet'
  BY <1>13
     DEF ScannerWrites, shardVars, workerVars, NoRowsYet, UsesPath, Owns, TypeOK,
         ShardOK, WorkersOK, FilesOK
<1>14. ASSUME NEW n \in scanner, ScannerStops(n) PROVE NoRowsYet'
  BY <1>14
     DEF ScannerStops, shardVars, workerVars, NoRowsYet, UsesPath, Owns, TypeOK,
         ShardOK, WorkersOK, FilesOK
<1>15. ASSUME RecoverOrphan PROVE NoRowsYet'
  BY <1>15
     DEF RecoverOrphan, Requeue, workerVars, fileVars, NoRowsYet, UsesPath, Owns,
         TypeOK, ShardOK, WorkersOK, FilesOK
<1>16. ASSUME RecoverEarly PROVE NoRowsYet'
  BY <1>16
     DEF RecoverEarly, Requeue, workerVars, fileVars, NoRowsYet, UsesPath, Owns,
         TypeOK, ShardOK, WorkersOK, FilesOK
<1>17. CASE UNCHANGED vars
  BY <1>17 DEF vars, shardVars, workerVars, fileVars, NoRowsYet, UsesPath, Owns
<1> QED
  BY <1>1, <1>2, <1>3, <1>4, <1>5, <1>6, <1>7, <1>8, <1>9, <1>10, <1>11, <1>12,
     <1>13, <1>14, <1>15, <1>16, <1>17 DEF Next, WorkerStep

\* A shard is completed by its owner, with one artifact, and stays as it is.
LEMMA CompletedKept ==
  ASSUME TypeOK, Alone, HasStored, NoRowsYet, StoreIsOwn, Completed, [Next]_vars
  PROVE  Completed'
<1>1. ASSUME Dispatch PROVE Completed'
  BY <1>1
     DEF Dispatch, workerVars, fileVars, Completed, Executing, TypeOK, WorkersOK
<1>2. ASSUME SendAgain PROVE Completed'
  BY <1>2
     DEF SendAgain, shardVars, workerVars, fileVars, Completed, Executing, TypeOK,
         WorkersOK
<1>3. ASSUME NEW w \in Worker, NEW t \in broker, ClaimLease(w, t) PROVE Completed'
  BY <1>3
     DEF ClaimLease, fileVars, Completed, Executing, TypeOK, WorkersOK, Claimable
<1>4. ASSUME NEW w \in Worker, NEW t \in broker, DiscardTask(w, t) PROVE Completed'
  BY <1>4
     DEF DiscardTask, shardVars, workerVars, fileVars, Completed, Executing, TypeOK,
         WorkersOK
<1>5. ASSUME NEW w \in Worker, StartScan(w) PROVE Completed'
  BY <1>5
     DEF StartScan, OpenedFile, Cleared, Completed, Executing, TypeOK, WorkersOK
<1>6. ASSUME NEW w \in Worker, ScanDone(w) PROVE Completed'
  BY <1>6 DEF ScanDone, shardVars, fileVars, Completed, Executing, TypeOK, WorkersOK
<1>7. ASSUME NEW w \in Worker, ParseOutput(w) PROVE Completed'
  BY <1>7
     DEF ParseOutput, shardVars, fileVars, Completed, Executing, TypeOK, WorkersOK
<1>8. ASSUME NEW w \in Worker, StoreArtifact(w) PROVE Completed'
  BY <1>8 DEF StoreArtifact, shardVars, Completed, Executing, TypeOK, WorkersOK
<1>9. ASSUME NEW w \in Worker, FinishLease(w) PROVE Completed'
  BY <1>9
     DEF FinishLease, CloseTask, Completed, Executing, TypeOK, WorkersOK, Alone,
         Owns, HasStored, NoRowsYet, UsesPath, StoreIsOwn, FilesOK, Output
<1>10. ASSUME NEW w \in Worker, Superseded(w) PROVE Completed'
  BY <1>10
     DEF Superseded, CloseTask, shardVars, Completed, Executing, TypeOK, WorkersOK
<1>11. ASSUME NEW w \in Worker, AttemptFails(w) PROVE Completed'
  BY <1>11
     DEF AttemptFails, CloseTask, FailureStatus, Observed, Completed, Executing,
         TypeOK, WorkersOK, Owns
<1>12. ASSUME NEW w \in Worker, CrashWorker(w) PROVE Completed'
  BY <1>12
     DEF CrashWorker, shardVars, fileVars, Completed, Executing, TypeOK, WorkersOK
<1>13. ASSUME NEW n \in scanner, ScannerWrites(n) PROVE Completed'
  BY <1>13
     DEF ScannerWrites, shardVars, workerVars, Completed, Executing, TypeOK,
         WorkersOK
<1>14. ASSUME NEW n \in scanner, ScannerStops(n) PROVE Completed'
  BY <1>14
     DEF ScannerStops, shardVars, workerVars, Completed, Executing, TypeOK,
         WorkersOK
<1>15. ASSUME RecoverOrphan PROVE Completed'
  BY <1>15
     DEF RecoverOrphan, Requeue, workerVars, fileVars, Completed, Executing, TypeOK,
         WorkersOK
<1>16. ASSUME RecoverEarly PROVE Completed'
  BY <1>16
     DEF RecoverEarly, Requeue, workerVars, fileVars, Completed, Executing, TypeOK,
         WorkersOK
<1>17. CASE UNCHANGED vars
  BY <1>17 DEF vars, shardVars, workerVars, fileVars, Completed, Executing
<1> QED
  BY <1>1, <1>2, <1>3, <1>4, <1>5, <1>6, <1>7, <1>8, <1>9, <1>10, <1>11, <1>12,
     <1>13, <1>14, <1>15, <1>16, <1>17 DEF Next, WorkerStep

\* The first state.
LEMMA InitHolds == Init => IInv
BY SettingsAssumption, DisturbanceAssumption
   DEF Init, IInv, TypeOK, ShardOK, WorkersOK, FilesOK, Output, Process, Issued, Fresh,
       Unstarted, Alone, StoredOnce, PathIsOwn, FileIsOwn, StoreIsOwn, HasStored,
       NoRowsYet, Completed, Executing, UsesPath

\* The invariant is inductive.
LEMMA StepKeeps == IInv /\ [Next]_vars => IInv'
<1> SUFFICES ASSUME IInv, [Next]_vars PROVE IInv'
  OBVIOUS
<1> USE DEF IInv
<1>1. TypeOK' /\ Issued' /\ Fresh'
  BY TypeKept, IssuedKept, FreshKept
<1>2. Unstarted' /\ Alone' /\ StoredOnce'
  BY UnstartedKept, AloneKept, KeysAreNew
<1>3. PathIsOwn' /\ FileIsOwn' /\ StoreIsOwn'
  BY PathKept, FileKept, StoreKept
<1>4. HasStored' /\ NoRowsYet' /\ Completed'
  BY StoredKept, NoRowsKept, CompletedKept
<1> QED
  BY <1>1, <1>2, <1>3, <1>4

LEMMA Invariance == Spec => []IInv
<1>1. Init => IInv
  BY InitHolds
<1>2. IInv /\ [Next]_vars => IInv'
  BY StepKeeps
<1> QED
  BY <1>1, <1>2, PTL DEF Spec

\* Every variable keeps its type, whatever the workers, hosts and bounds.
THEOREM TypeCorrect == Spec => []TypeOK
<1>1. IInv => TypeOK
  BY DEF IInv
<1> QED
  BY <1>1, Invariance, PTL

\* No token stores a second artifact: a task that a crash puts back, or that is
\* sent twice, is not run again (claim_lease, artifact_key).
THEOREM ArtifactKeysAreNew == Spec => []StoredOnce
<1>1. IInv => StoredOnce
  BY DEF IInv
<1> QED
  BY <1>1, Invariance, PTL

\* What is recorded of a completed shard is the output of its own attempt, unless
\* another attempt met it on its host (execute_shard, store_artifact).
THEOREM OutputIsOwn == Spec => []OwnOutput
<1>1. IInv => OwnOutput
  BY DEF IInv, OwnOutput, FileIsOwn, Completed
<1> QED
  BY <1>1, Invariance, PTL
=============================================================================
