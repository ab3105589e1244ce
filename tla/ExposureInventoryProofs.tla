---------------------- MODULE ExposureInventoryProofs ----------------------
(***************************************************************************)
(* Four results about ExposureInventory, for every finite set of runs,     *)
(* every set of services and any number of overlaps and restarts: only     *)
(* covered runs are shown (IInv), no count exceeds the committed           *)
(* materializations that saw the service (Counting), a service that stays  *)
(* keeps its history while nothing disturbs the runs (HistoryIsKept), and  *)
(* then the inventory is that of the latest run (SerialInv).               *)
(*                                                                         *)
(* Counting needs what an open transaction has read and added to be backed *)
(* by the sightings so far and its own runs, each of which it shows once.  *)
(* The last one needs that such runs take turns: at most one of them runs, *)
(* it alone finalizes, and the table is the replacement of the last one.   *)
(***************************************************************************)
EXTENDS ExposureInventory, FiniteSetTheorems, TLAPS

\* Run r may be shown by process p, once p has committed.
Showable(p, r) ==
  /\ outcome[r] = "covered"
  /\ runStatus[r] = "completed" \/ r \in ClosedBy(p)

\* A run that is being materialized may be shown, what is to be inserted may be
\* shown, and what is finalized has started.
OpenIsShowable(p) ==
  pc[p] \in {"read", "delete", "deleting"} => tx[p].run \in Run /\ Showable(p, tx[p].run)
AddedIsShowable(p) ==
  \A a \in tx[p].added : Showable(p, a.run) /\ a.service \in found[a.run]
ListHasStarted(p) == \A r \in tx[p].todo \cup ClosedBy(p) : runStatus[r] # "none"

ProcessOK(p) == OpenIsShowable(p) /\ AddedIsShowable(p) /\ ListHasStarted(p)

IInv == TypeOK /\ GatedByCoverage /\ \A p \in Process : ProcessOK(p)

-----------------------------------------------------------------------------
\* The scheduler is a process of its own, and no run has the number of none.
LEMMA Ground == /\ NoRun = 0 /\ Scheduler = 0 /\ Scheduler \notin Run /\ Scheduler \in Process
                /\ Run \subseteq Process /\ Process = Run \cup {Scheduler}
BY RunAssumption DEF NoRun, Scheduler, Process

\* The rows that replace the old ones have the type of rows.
LEMMA ReplacementType ==
  ASSUME NEW r \in Run, NEW t \in Nat, NEW old \in SUBSET Row, TypeOK
  PROVE  Replacement(r, t, old) \in SUBSET Row
<1> SUFFICES ASSUME NEW x \in Replacement(r, t, old) PROVE x \in Row
  OBVIOUS
<1>1. PICK s \in found[r] :
        x = LET history == IF Remembered(old, s) = {} THEN [first |-> t, count |-> 0]
                           ELSE CHOOSE o \in Remembered(old, s) : TRUE
            IN  [service |-> s, run |-> r, last |-> t,
                 first |-> history.first, count |-> history.count + 1]
  BY DEF Replacement
<1>2. s \in Service
  BY DEF TypeOK
<1>3. CASE Remembered(old, s) = {}
  BY <1>1, <1>2, <1>3 DEF Row
<1>4. CASE Remembered(old, s) # {}
  <2> DEFINE o == CHOOSE o \in Remembered(old, s) : TRUE
  <2>1. o \in Row
    BY <1>4 DEF Remembered
  <2>2. o.first \in Nat /\ o.count \in Nat
    BY <2>1 DEF Row
  <2>3. x = [service |-> s, run |-> r, last |-> t, first |-> o.first, count |-> o.count + 1]
    BY <1>1, <1>4
  <2> HIDE DEF o
  <2> QED BY <1>2, <2>2, <2>3 DEF Row
<1> QED BY <1>3, <1>4

\* The rows of a run are services it found, under its name.
LEMMA ReplacementRows ==
  ASSUME NEW r \in Run, NEW t \in Nat, NEW old \in SUBSET Row, NEW x \in Replacement(r, t, old)
  PROVE  x.run = r /\ x.service \in found[r]
BY DEF Replacement

\* Every action but a commit changes the transaction of one process; the rest of
\* the types follow when that transaction keeps its own.
LEMMA OneTransaction ==
  ASSUME TypeOK, NEW p \in Process, NEW t \in Transaction, tx' = [tx EXCEPT ![p] = t],
         NEW k \in Nat, clock <= k,
         \A c \in t.closed : c[2] \in 1..k
  PROVE  /\ tx' \in [Process -> Transaction]
         /\ \A q \in Process : \A c \in tx'[q].closed : c[2] \in 1..k
<1>1. tx' \in [Process -> Transaction]
  BY DEF TypeOK
<1>2. ASSUME NEW q \in Process, NEW c \in tx'[q].closed PROVE c[2] \in 1..k
  <2>1. CASE q = p
    BY <2>1, <1>2 DEF TypeOK
  <2>2. CASE q # p
    <3>1. c \in tx[q].closed /\ c[2] \in 1..clock
      BY <2>2, <1>2 DEF TypeOK
    <3> QED BY <3>1 DEF TypeOK
  <2> QED BY <2>1, <2>2
<1> QED BY <1>1, <1>2

\* An empty transaction is of its type and finalizes nothing.
LEMMA EmptyTransaction == NoTransaction \in Transaction /\ NoTransaction.closed = {}
BY DEF NoTransaction, Transaction

\* A step that writes no table keeps the types when its transaction does.
LEMMA NoTableWritten ==
  ASSUME TypeOK, NEW p \in Process, NEW t \in Transaction, tx' = [tx EXCEPT ![p] = t],
         UNCHANGED <<runVars, rows, sightings>>,
         clock' \in Nat, clock <= clock', \A c \in t.closed : c[2] \in 1..clock',
         pc' \in [Process -> {"start", "idle", "list", "read", "delete", "deleting"}],
         disturbances' \in 0..MaxDisturbances
  PROVE  TypeOK'
<1>1. /\ tx' \in [Process -> Transaction]
      /\ \A q \in Process : \A c \in tx'[q].closed : c[2] \in 1..clock'
  BY OneTransaction
<1>2. completedAt' \in [Run -> 0..clock']
  BY DEF TypeOK, runVars
<1> QED BY <1>1, <1>2 DEF TypeOK, runVars

\* The same for a step that finalizes nothing and reads no clock.
LEMMA SessionType ==
  ASSUME TypeOK, NEW p \in Process, NEW t \in Transaction, t.closed = tx[p].closed,
         tx' = [tx EXCEPT ![p] = t],
         UNCHANGED <<runVars, rows, clock, sightings, disturbances>>,
         pc' = pc \/ \E place \in {"start", "idle", "list", "read", "delete", "deleting"} :
                       pc' = [pc EXCEPT ![p] = place]
  PROVE  TypeOK'
<1>1. pc' \in [Process -> {"start", "idle", "list", "read", "delete", "deleting"}]
  BY DEF TypeOK
<1>2. /\ clock' \in Nat /\ clock <= clock' /\ disturbances' \in 0..MaxDisturbances
      /\ \A c \in t.closed : c[2] \in 1..clock'
  BY DEF TypeOK
<1> QED BY <1>1, <1>2, NoTableWritten

\* Rolling back keeps the type.
LEMMA AbortType ==
  ASSUME TypeOK, NEW p \in Process, Abort(p), disturbances' \in 0..MaxDisturbances
  PROVE  TypeOK'
<1>1. pc' \in [Process -> {"start", "idle", "list", "read", "delete", "deleting"}]
  BY DEF Abort, TypeOK
<1>2. clock' \in Nat /\ clock <= clock'
  BY DEF Abort, TypeOK
<1> QED BY <1>1, <1>2, NoTableWritten, EmptyTransaction DEF Abort

\* So does finalizing a run in a transaction.
LEMMA CloseType ==
  ASSUME TypeOK, NEW p \in Process, NEW r \in Run, Close(p, r)
  PROVE  TypeOK'
<1> DEFINE c0 == [tx[p] EXCEPT !.todo = @ \ {r}, !.closed = @ \cup {<<r, clock + 1>>}]
           c1 == [c0 EXCEPT !.run = r, !.at = clock + 1]
<1>1. tx[p] \in Transaction /\ clock \in Nat /\ clock' = clock + 1
  BY DEF TypeOK, Close
<1>2. c0 \in Transaction /\ c0.closed = tx[p].closed \cup {<<r, clock + 1>>}
  <2> DEFINE todo == tx[p].todo \ {r}
             closed == tx[p].closed \cup {<<r, clock + 1>>}
  <2>1. todo \in SUBSET Run /\ closed \in SUBSET (Run \X Nat)
    BY <1>1 DEF Transaction
  <2>2. c0 = [tx[p] EXCEPT !.todo = todo, !.closed = closed]
    OBVIOUS
  <2> HIDE DEF todo, closed, c0
  <2>3. c0 \in Transaction /\ c0.closed = closed
    BY <1>1, <2>1, <2>2 DEF Transaction
  <2> QED BY <2>3 DEF closed
<1>3. c1 \in Transaction /\ c1.closed = c0.closed
  BY <1>1, <1>2 DEF Transaction
<1>4. \A c \in c0.closed : c[2] \in 1..clock'
  BY <1>1, <1>2 DEF TypeOK
<1>5. tx' = [tx EXCEPT ![p] = c0] \/ tx' = [tx EXCEPT ![p] = c1]
  BY DEF Close
<1>6. pc' \in [Process -> {"start", "idle", "list", "read", "delete", "deleting"}]
  BY DEF Close, TypeOK
<1>7. clock' \in Nat /\ clock <= clock' /\ disturbances' \in 0..MaxDisturbances
  BY <1>1 DEF Close, TypeOK
<1>8. UNCHANGED <<runVars, rows, sightings>>
  BY DEF Close
<1> HIDE DEF c0, c1
<1>9. CASE tx' = [tx EXCEPT ![p] = c0]
  BY <1>2, <1>4, <1>6, <1>7, <1>8, <1>9, NoTableWritten
<1>10. CASE tx' = [tx EXCEPT ![p] = c1]
  BY <1>3, <1>4, <1>6, <1>7, <1>8, <1>10, NoTableWritten
<1> QED BY <1>5, <1>9, <1>10

\* The steps of materialize_current_exposures before the commit.
LEMMA MaterializeType ==
  ASSUME TypeOK, NEW p \in Process, OpenIsShowable(p),
         ReadExisting(p) \/ DeleteBegins(p) \/ DeleteEnds(p)
  PROVE  TypeOK'
<1>1. tx[p] \in Transaction /\ clock \in Nat /\ rows \subseteq Row
  BY DEF TypeOK
<1>2. \A c \in tx[p].closed : c[2] \in 1..clock
  BY DEF TypeOK
<1>3. clock' \in Nat /\ clock <= clock' /\ disturbances' \in 0..MaxDisturbances
  BY DEF ReadExisting, DeleteBegins, DeleteEnds, TypeOK
<1>4. UNCHANGED <<runVars, rows, sightings, clock>>
  BY DEF ReadExisting, DeleteBegins, DeleteEnds
<1>5. pc' \in [Process -> {"start", "idle", "list", "read", "delete", "deleting"}]
  BY DEF ReadExisting, DeleteBegins, DeleteEnds, TypeOK
<1>6. CASE ReadExisting(p)
  <2> DEFINE t == [tx[p] EXCEPT !.existing = View(p)]
  <2>1. View(p) \in SUBSET Row
    BY <1>1 DEF View, Transaction
  <2>2. t \in Transaction /\ t.closed = tx[p].closed
    BY <1>1, <2>1 DEF Transaction
  <2>3. tx' = [tx EXCEPT ![p] = t]
    BY <1>6 DEF ReadExisting
  <2> HIDE DEF t
  <2> QED BY <1>2, <1>3, <1>4, <1>5, <2>2, <2>3, NoTableWritten
<1>7. CASE DeleteBegins(p)
  <2> DEFINE t == [tx[p] EXCEPT !.wanted = rows \ tx[p].gone]
  <2>1. t \in Transaction /\ t.closed = tx[p].closed
    BY <1>1 DEF Transaction
  <2>2. tx' = [tx EXCEPT ![p] = t]
    BY <1>7 DEF DeleteBegins
  <2> HIDE DEF t
  <2> QED BY <1>2, <1>3, <1>4, <1>5, <2>1, <2>2, NoTableWritten
<1>8. CASE DeleteEnds(p)
  <2> DEFINE new == Replacement(tx[p].run, tx[p].at, tx[p].existing)
             t == [tx[p] EXCEPT !.gone = @ \cup (tx[p].wanted \cap rows),
                                !.added = new, !.shown = @ \cup {tx[p].run}]
  <2>1. tx[p].run \in Run
    BY <1>8 DEF DeleteEnds, OpenIsShowable
  <2>2. new \in SUBSET Row
    BY <1>1, <2>1, ReplacementType DEF Transaction
  <2>3. tx' = [tx EXCEPT ![p] = t]
    BY <1>1, <1>8 DEF DeleteEnds, TypeOK
  <2> HIDE DEF new
  <2>4. t \in Transaction /\ t.closed = tx[p].closed
    BY <1>1, <2>1, <2>2 DEF Transaction
  <2> HIDE DEF t
  <2> QED BY <1>2, <1>3, <1>4, <1>5, <2>3, <2>4, NoTableWritten
<1> QED BY <1>6, <1>7, <1>8

\* And so does a commit.
LEMMA CommitType ==
  ASSUME TypeOK, NEW p \in Process, Commit(p)
  PROVE  TypeOK'
<1>1. tx[p] \in Transaction /\ clock \in Nat /\ rows \subseteq Row /\ clock' = clock
  BY DEF TypeOK, Commit
<1>2. rows' \subseteq Row
  BY <1>1 DEF Commit, View, Transaction
<1>3. runStatus' \in [Run -> {"none", "running", "completed", "failed"}]
  BY DEF Commit, TypeOK
<1>4. completedAt' \in [Run -> 0..clock]
  <2> SUFFICES ASSUME NEW r \in Run, r \in ClosedBy(p)
               PROVE  (CHOOSE t \in 1..clock : <<r, t>> \in tx[p].closed) \in 0..clock
    BY DEF Commit, TypeOK
  <2>1. PICK c \in tx[p].closed : c[1] = r
    BY DEF ClosedBy
  <2>2. c = <<r, c[2]>> /\ c[2] \in 1..clock
    BY <1>1, <2>1 DEF TypeOK, Transaction
  <2>3. \E t \in 1..clock : <<r, t>> \in tx[p].closed
    BY <2>1, <2>2
  <2> QED BY <1>1, <2>3
<1>5. shardsEnded' \in [Run -> BOOLEAN]
  BY DEF Commit, TypeOK
<1>6. sightings' \in [Service -> Nat]
  <2>1. ASSUME NEW s \in Service
        PROVE  Cardinality({r \in tx[p].shown : s \in found[r]}) \in Nat
    <3>1. IsFiniteSet({r \in tx[p].shown : s \in found[r]})
      BY <1>1, RunAssumption, FS_Subset DEF Transaction
    <3> QED BY <3>1, FS_CardinalityType
  <2> QED BY <2>1 DEF Commit, TypeOK
<1>7. /\ tx' \in [Process -> Transaction]
      /\ \A q \in Process : \A c \in tx'[q].closed : c[2] \in 1..clock
  <2>1. clock <= clock /\ tx' = [tx EXCEPT ![p] = NoTransaction]
    BY <1>1 DEF Commit
  <2>2. \A c \in NoTransaction.closed : c[2] \in 1..clock
    BY EmptyTransaction
  <2> QED BY <1>1, <2>1, <2>2, OneTransaction, EmptyTransaction
<1>8. pc' \in [Process -> {"start", "idle", "list", "read", "delete", "deleting"}]
  BY DEF Commit, TypeOK
<1> QED BY <1>1, <1>2, <1>3, <1>4, <1>5, <1>6, <1>7, <1>8 DEF Commit, TypeOK

\* Every step keeps the types.
LEMMA TypeKept ==
  ASSUME IInv, [Next]_vars
  PROVE  TypeOK'
<1> USE DEF IInv
<1>1. CASE UNCHANGED vars
  BY <1>1 DEF TypeOK, vars, runVars
<1>2. ASSUME NEW p \in Process, Finalize(p) PROVE TypeOK'
  <2>1. ASSUME NEW r \in Run, StillPending(p, r) PROVE TypeOK'
    <3> DEFINE t == [tx[p] EXCEPT !.todo = @ \ {r}]
    <3>1. tx[p] \in Transaction
      BY DEF TypeOK
    <3>2. t \in Transaction /\ t.closed = tx[p].closed
      BY ONLY <3>1 DEF Transaction
    <3>3. tx' = [tx EXCEPT ![p] = t]
      BY <2>1 DEF StillPending
    <3> HIDE DEF t
    <3> QED BY <2>1, <3>2, <3>3, SessionType DEF StillPending
  <2>2. ASSUME Reject(p) PROVE TypeOK'
    BY <2>2, AbortType DEF Reject, TypeOK
  <2>3. ASSUME NEW r \in Run, Close(p, r) PROVE TypeOK'
    BY <2>3, CloseType
  <2>4. ASSUME ReadExisting(p) \/ DeleteBegins(p) \/ DeleteEnds(p) PROVE TypeOK'
    BY <2>4, MaterializeType DEF ProcessOK
  <2>5. ASSUME Commit(p) PROVE TypeOK'
    BY <2>5, CommitType
  <2> QED BY <1>2, <2>1, <2>2, <2>3, <2>4, <2>5 DEF Finalize
<1>3. ASSUME NEW r \in Run, EndUnfinalized(r) PROVE TypeOK'
  BY <1>3 DEF EndUnfinalized, TypeOK
<1>4. ASSUME NEW r \in Run, EndFinalizing(r) PROVE TypeOK'
  <2> DEFINE t == [tx[r] EXCEPT !.todo = {r}]
  <2>1. r \in Process /\ tx[r] \in Transaction
    BY Ground DEF TypeOK
  <2>2. t \in Transaction /\ t.closed = tx[r].closed
    BY <2>1 DEF Transaction
  <2>3. tx' = [tx EXCEPT ![r] = t]
    BY <1>4 DEF EndFinalizing
  <2> HIDE DEF t
  <2> QED BY <1>4, <2>1, <2>2, <2>3, SessionType DEF EndFinalizing
<1>5. ASSUME NEW r \in Run, NEW services \in SUBSET Service,
             NEW result \in {"covered", "gap", "failed"}, StartRun(r, services, result)
      PROVE  TypeOK'
  <2>1. disturbances' \in 0..MaxDisturbances
    BY <1>5, DisturbanceAssumption DEF StartRun, Disturb, TypeOK
  <2> QED BY <1>5, <2>1 DEF StartRun, TypeOK
<1>6. ASSUME ReconcileRead PROVE TypeOK'
  <2> DEFINE t == [tx[Scheduler] EXCEPT !.todo = NotFinal]
  <2>1. Scheduler \in Process /\ tx[Scheduler] \in Transaction /\ NotFinal \subseteq Run
    BY Ground DEF TypeOK, NotFinal
  <2>2. t \in Transaction /\ t.closed = tx[Scheduler].closed
    BY <2>1 DEF Transaction
  <2>3. tx' = [tx EXCEPT ![Scheduler] = t]
    BY <1>6 DEF ReconcileRead
  <2> HIDE DEF t
  <2> QED BY <1>6, <2>1, <2>2, <2>3, SessionType DEF ReconcileRead
<1>7. ASSUME NEW r \in Run, Backfill(r) PROVE TypeOK'
  <2> DEFINE t == [tx[Scheduler] EXCEPT !.run = r, !.at = completedAt[r]]
  <2>1. Scheduler \in Process /\ tx[Scheduler] \in Transaction /\ completedAt[r] \in Nat
    BY Ground DEF TypeOK
  <2>2. t \in Transaction /\ t.closed = tx[Scheduler].closed
    BY <2>1 DEF Transaction
  <2>3. tx' = [tx EXCEPT ![Scheduler] = t]
    BY <1>7, <2>1 DEF Backfill, TypeOK
  <2> HIDE DEF t
  <2> QED BY <1>7, <2>1, <2>2, <2>3, SessionType DEF Backfill
<1>8. ASSUME NothingToBackfill PROVE TypeOK'
  BY <1>8 DEF NothingToBackfill, TypeOK, runVars
<1>9. ASSUME NEW p \in Process, Restart(p) PROVE TypeOK'
  <2>1. disturbances' \in 0..MaxDisturbances
    BY <1>9, DisturbanceAssumption DEF Restart, Disturb, TypeOK
  <2> QED BY <1>9, <2>1, AbortType DEF Restart
<1> QED BY <1>1, <1>2, <1>3, <1>4, <1>5, <1>6, <1>7, <1>8, <1>9, Ground
        DEF Next, WorkerStep, SchedulerStep

-----------------------------------------------------------------------------
\* A step of p that writes no table disturbs nothing but p's own transaction.
LEMMA OthersKept ==
  ASSUME IInv, NEW p \in Process, UNCHANGED <<runStatus, found, outcome, rows>>,
         \A q \in Process \ {p} : tx'[q] = tx[q] /\ pc'[q] = pc[q],
         ProcessOK(p)'
  PROVE  GatedByCoverage' /\ \A q \in Process : ProcessOK(q)'
<1>1. GatedByCoverage'
  BY DEF IInv, GatedByCoverage
<1>2. ASSUME NEW q \in Process \ {p} PROVE ProcessOK(q)'
  BY <1>2
  DEF IInv, ProcessOK, OpenIsShowable, AddedIsShowable, ListHasStarted, Showable, ClosedBy
<1> QED BY <1>1, <1>2

\* The fields of p's transaction, when it is replaced by t.
LEMMA OwnTransaction ==
  ASSUME TypeOK, NEW p \in Process, NEW t, tx' = [tx EXCEPT ![p] = t]
  PROVE  tx'[p] = t /\ \A q \in Process \ {p} : tx'[q] = tx[q]
BY DEF TypeOK

\* A process that rolls back shows nothing and has nothing open.
LEMMA AbortKeeps ==
  ASSUME IInv, NEW p \in Process, Abort(p)
  PROVE  GatedByCoverage' /\ \A q \in Process : ProcessOK(q)'
<1>1. tx'[p] = NoTransaction /\ \A q \in Process \ {p} : tx'[q] = tx[q]
  BY OwnTransaction DEF Abort, IInv
<1>2. pc'[p] \in {"start", "idle"} /\ \A q \in Process \ {p} : pc'[q] = pc[q]
  BY DEF Abort, IInv, TypeOK
<1>3. UNCHANGED <<runStatus, found, outcome, rows>>
  BY DEF Abort, runVars
<1>4. ProcessOK(p)'
  BY <1>1, <1>2
  DEF ProcessOK, OpenIsShowable, AddedIsShowable, ListHasStarted, ClosedBy, NoTransaction
<1> QED BY <1>1, <1>2, <1>3, <1>4, OthersKept

\* A run that is closed may be shown, if it is covered.
LEMMA CloseKeeps ==
  ASSUME IInv, NEW p \in Process, NEW r \in Run, Close(p, r)
  PROVE  GatedByCoverage' /\ \A q \in Process : ProcessOK(q)'
<1>1. tx[p] \in Transaction /\ ProcessOK(p) /\ pc[p] = "list" /\ r \in tx[p].todo
  BY DEF Close, IInv, TypeOK
<1>2. /\ tx'[p].todo = tx[p].todo \ {r}
      /\ tx'[p].added = tx[p].added
      /\ tx'[p].closed = tx[p].closed \cup {<<r, clock + 1>>}
      /\ Covered(r) => tx'[p].run = r
      /\ \A q \in Process \ {p} : tx'[q] = tx[q]
  <2> DEFINE c0 == [tx[p] EXCEPT !.todo = @ \ {r}, !.closed = @ \cup {<<r, clock + 1>>}]
             c1 == [c0 EXCEPT !.run = r, !.at = clock + 1]
  <2>1. tx' = [tx EXCEPT ![p] = IF Covered(r) THEN c1 ELSE c0]
    BY DEF Close
  <2>2. tx'[p] = (IF Covered(r) THEN c1 ELSE c0) /\ \A q \in Process \ {p} : tx'[q] = tx[q]
    <3> HIDE DEF c0, c1
    <3> QED BY <2>1, OwnTransaction DEF IInv
  <2>3. /\ c0.todo = tx[p].todo \ {r} /\ c0.added = tx[p].added
        /\ c0.closed = tx[p].closed \cup {<<r, clock + 1>>}
    BY <1>1 DEF Transaction
  <2>4. c1.todo = c0.todo /\ c1.added = c0.added /\ c1.closed = c0.closed /\ c1.run = r
    BY <1>1 DEF Transaction
  <2> HIDE DEF c0, c1
  <2> QED BY <2>2, <2>3, <2>4
<1>3. /\ ~Covered(r) => pc'[p] = "list"
      /\ \A q \in Process \ {p} : pc'[q] = pc[q]
  BY <1>1 DEF Close, IInv, TypeOK
<1>4. UNCHANGED <<runStatus, found, outcome, rows>>
  BY DEF Close, runVars
<1>5. \A s : s \in ClosedBy(p)' <=> s \in ClosedBy(p) \/ s = r
  <2>1. ClosedBy(p)' = {c[1] : c \in tx[p].closed \cup {<<r, clock + 1>>}}
    BY <1>2 DEF ClosedBy
  <2>2. <<r, clock + 1>>[1] = r
    OBVIOUS
  <2>3. ASSUME NEW s, s \in ClosedBy(p)' PROVE s \in ClosedBy(p) \/ s = r
    BY <2>1, <2>2, <2>3 DEF ClosedBy
  <2>4. ASSUME NEW s, s \in ClosedBy(p) \/ s = r PROVE s \in ClosedBy(p)'
    <3>1. CASE s = r
      BY <2>1, <2>2, <3>1
    <3>2. CASE s \in ClosedBy(p)
      BY <2>1, <3>2 DEF ClosedBy
    <3> QED BY <2>4, <3>1, <3>2
  <2> QED BY <2>3, <2>4
<1>6. OpenIsShowable(p)'
  BY <1>2, <1>3, <1>4, <1>5 DEF OpenIsShowable, Showable, Covered
<1>7. AddedIsShowable(p)' /\ ListHasStarted(p)'
  BY <1>1, <1>2, <1>4, <1>5 DEF ProcessOK, AddedIsShowable, ListHasStarted, Showable
<1> QED BY <1>2, <1>3, <1>4, <1>6, <1>7, OthersKept DEF ProcessOK

\* What materialization adds may be shown.
LEMMA MaterializeKeeps ==
  ASSUME IInv, NEW p \in Process, ReadExisting(p) \/ DeleteBegins(p) \/ DeleteEnds(p)
  PROVE  GatedByCoverage' /\ \A q \in Process : ProcessOK(q)'
<1>1. tx[p] \in Transaction /\ ProcessOK(p) /\ pc[p] \in {"read", "delete", "deleting"}
  BY DEF ReadExisting, DeleteBegins, DeleteEnds, IInv, TypeOK
<1>2. /\ tx'[p].todo = tx[p].todo /\ tx'[p].closed = tx[p].closed /\ tx'[p].run = tx[p].run
      /\ \/ tx'[p].added = tx[p].added
         \/ tx'[p].added = Replacement(tx[p].run, tx[p].at, tx[p].existing)
      /\ \A q \in Process \ {p} : tx'[q] = tx[q]
  BY <1>1 DEF ReadExisting, DeleteBegins, DeleteEnds, IInv, TypeOK, Transaction
<1>3. \A q \in Process \ {p} : pc'[q] = pc[q]
  BY DEF ReadExisting, DeleteBegins, DeleteEnds, IInv, TypeOK
<1>4. UNCHANGED <<runStatus, found, outcome, rows>>
  BY DEF ReadExisting, DeleteBegins, DeleteEnds, runVars
<1>5. ClosedBy(p)' = ClosedBy(p)
  BY <1>2 DEF ClosedBy
<1>6. OpenIsShowable(p)' /\ ListHasStarted(p)'
  BY <1>1, <1>2, <1>4, <1>5 DEF ProcessOK, OpenIsShowable, ListHasStarted, Showable
<1>7. AddedIsShowable(p)'
  <2>1. \A x \in Replacement(tx[p].run, tx[p].at, tx[p].existing) :
          x.run = tx[p].run /\ x.service \in found[tx[p].run]
    BY <1>1, ReplacementRows DEF ProcessOK, OpenIsShowable, Transaction
  <2> QED BY <1>1, <1>2, <1>4, <1>5, <2>1
          DEF ProcessOK, OpenIsShowable, AddedIsShowable, Showable
<1> QED BY <1>2, <1>3, <1>4, <1>6, <1>7, OthersKept DEF ProcessOK

\* A commit makes the runs it closes final, so that what it inserts is gated; what
\* other processes may show they still may.
LEMMA CommitKeeps ==
  ASSUME IInv, NEW p \in Process, Commit(p)
  PROVE  GatedByCoverage' /\ \A q \in Process : ProcessOK(q)'
<1>1. TypeOK /\ ProcessOK(p) /\ tx[p] \in Transaction
  BY DEF IInv, TypeOK
<1>2. ASSUME NEW r \in Run, outcome[r] = "covered",
             runStatus[r] = "completed" \/ r \in ClosedBy(p)
      PROVE  outcome'[r] = "covered" /\ runStatus'[r] = "completed" /\ found'[r] = found[r]
  BY <1>2 DEF Commit
<1>3. \A r \in Run : runStatus[r] # "none" => runStatus'[r] # "none"
  BY DEF Commit
<1>4. GatedByCoverage'
  <2> SUFFICES ASSUME NEW row \in rows'
               PROVE  /\ runStatus'[row.run] = "completed" /\ outcome'[row.run] = "covered"
                      /\ row.service \in found'[row.run]
    BY DEF GatedByCoverage
  <2>1. row \in rows \/ row \in tx[p].added
    BY DEF Commit, View
  <2>2. row.run \in Run
    BY <1>1, <2>1 DEF TypeOK, Transaction, Row
  <2>3. /\ outcome[row.run] = "covered" /\ row.service \in found[row.run]
        /\ runStatus[row.run] = "completed" \/ row.run \in ClosedBy(p)
    BY <1>1, <2>1 DEF IInv, GatedByCoverage, ProcessOK, AddedIsShowable, Showable
  <2> QED BY <1>2, <2>2, <2>3
<1>5. ASSUME NEW q \in Process \ {p} PROVE ProcessOK(q)'
  <2>1. tx'[q] = tx[q] /\ pc'[q] = pc[q] /\ tx[q] \in Transaction /\ ProcessOK(q)
    BY <1>1, <1>5 DEF Commit, TypeOK, IInv
  <2>2. ClosedBy(q)' = ClosedBy(q) /\ ClosedBy(q) \subseteq Run
    BY <2>1 DEF ClosedBy, Transaction
  <2>3. \A r \in Run : Showable(q, r) => Showable(q, r)' /\ found'[r] = found[r]
    BY <1>2, <2>2 DEF Showable, Commit
  <2>4. OpenIsShowable(q)'
    BY <2>1, <2>3 DEF ProcessOK, OpenIsShowable
  <2>5. AddedIsShowable(q)'
    <3>1. \A a \in tx[q].added : a.run \in Run
      BY <2>1 DEF Transaction, Row
    <3> QED BY <2>1, <2>3, <3>1 DEF ProcessOK, AddedIsShowable
  <2>6. ListHasStarted(q)'
    <3>1. tx[q].todo \subseteq Run
      BY <2>1 DEF Transaction
    <3> QED BY <1>3, <2>1, <2>2, <3>1 DEF ProcessOK, ListHasStarted
  <2> QED BY <2>4, <2>5, <2>6 DEF ProcessOK
<1>6. ProcessOK(p)'
  <2>1. tx'[p] = NoTransaction /\ pc'[p] = "idle"
    BY <1>1 DEF Commit, TypeOK
  <2> QED BY <2>1
      DEF ProcessOK, OpenIsShowable, AddedIsShowable, ListHasStarted, ClosedBy, NoTransaction
<1> QED BY <1>4, <1>5, <1>6

\* A run that starts is not shown by anybody.
LEMMA StartKeeps ==
  ASSUME IInv, NEW r \in Run, NEW services \in SUBSET Service,
         NEW result \in {"covered", "gap", "failed"}, StartRun(r, services, result)
  PROVE  GatedByCoverage' /\ \A q \in Process : ProcessOK(q)'
<1>1. TypeOK /\ runStatus[r] = "none"
  BY DEF IInv, StartRun
<1>2. ASSUME NEW s \in Run, s # r
      PROVE  runStatus'[s] = runStatus[s] /\ outcome'[s] = outcome[s] /\ found'[s] = found[s]
  BY <1>1, <1>2 DEF StartRun, TypeOK
<1>3. runStatus'[r] = "running"
  BY <1>1 DEF StartRun, TypeOK
<1>4. GatedByCoverage'
  <2>1. \A row \in rows : row.run \in Run /\ row.run # r
    BY <1>1 DEF IInv, GatedByCoverage, TypeOK, Row
  <2> QED BY <1>2, <2>1 DEF IInv, GatedByCoverage, StartRun
<1>5. ASSUME NEW q \in Process PROVE ProcessOK(q)'
  <2>1. tx'[q] = tx[q] /\ pc'[q] = pc[q] /\ tx[q] \in Transaction /\ ProcessOK(q)
    BY <1>1 DEF StartRun, TypeOK, IInv
  <2>2. ClosedBy(q)' = ClosedBy(q) /\ ClosedBy(q) \subseteq Run /\ r \notin ClosedBy(q)
    BY <1>1, <2>1 DEF ClosedBy, Transaction, ProcessOK, ListHasStarted
  <2>3. \A s \in Run : Showable(q, s) => Showable(q, s)' /\ found'[s] = found[s]
    BY <1>1, <1>2, <2>2 DEF Showable
  <2>4. OpenIsShowable(q)'
    BY <2>1, <2>3 DEF ProcessOK, OpenIsShowable
  <2>5. AddedIsShowable(q)'
    <3>1. \A a \in tx[q].added : a.run \in Run
      BY <2>1 DEF Transaction, Row
    <3> QED BY <2>1, <2>3, <3>1 DEF ProcessOK, AddedIsShowable
  <2>6. ListHasStarted(q)'
    <3>1. tx[q].todo \subseteq Run
      BY <2>1 DEF Transaction
    <3> QED BY <1>2, <1>3, <2>1, <2>2, <3>1 DEF ProcessOK, ListHasStarted
  <2> QED BY <2>4, <2>5, <2>6 DEF ProcessOK
<1> QED BY <1>4, <1>5

\* The steps that begin a list, or take a run off it.
LEMMA ListKeeps ==
  ASSUME IInv, NEW p \in Process, NEW r \in Run,
         \/ StillPending(p, r)
         \/ p = r /\ (EndFinalizing(r) \/ EndUnfinalized(r))
         \/ p = Scheduler /\ (ReconcileRead \/ Backfill(r) \/ NothingToBackfill)
  PROVE  GatedByCoverage' /\ \A q \in Process : ProcessOK(q)'
<1> USE DEF StillPending, EndFinalizing, EndUnfinalized, ReconcileRead, Backfill, NothingToBackfill
<1>1. tx[p] \in Transaction /\ ProcessOK(p) /\ TypeOK
  BY DEF IInv, TypeOK
<1>2. UNCHANGED <<runStatus, found, outcome, rows>>
  BY DEF runVars
<1>3. /\ tx'[p].added = tx[p].added /\ tx'[p].closed = tx[p].closed
      /\ tx'[p].todo \subseteq tx[p].todo \cup {s \in Run : runStatus[s] = "running"}
      /\ \A q \in Process \ {p} : tx'[q] = tx[q]
  BY <1>1 DEF TypeOK, Transaction, NotFinal
<1>4. /\ \A q \in Process \ {p} : pc'[q] = pc[q]
      /\ \/ pc'[p] \in {"list", "idle"}
         \/ tx'[p].run = r /\ r \in Completed
  BY <1>1 DEF TypeOK, Transaction, Latest
<1>5. ClosedBy(p)' = ClosedBy(p)
  BY <1>3 DEF ClosedBy
<1>6. OpenIsShowable(p)'
  BY <1>2, <1>4 DEF OpenIsShowable, Showable, Completed, Covered
<1>7. AddedIsShowable(p)' /\ ListHasStarted(p)'
  BY <1>1, <1>2, <1>3, <1>5 DEF ProcessOK, AddedIsShowable, ListHasStarted, Showable
<1> QED BY <1>2, <1>3, <1>4, <1>6, <1>7, OthersKept DEF ProcessOK

\* Every step keeps the gate.
LEMMA GateKept ==
  ASSUME IInv, [Next]_vars
  PROVE  GatedByCoverage' /\ \A q \in Process : ProcessOK(q)'
<1>1. CASE UNCHANGED vars
  BY <1>1 DEF IInv, GatedByCoverage, ProcessOK, OpenIsShowable, AddedIsShowable,
              ListHasStarted, Showable, ClosedBy, vars, runVars
<1>2. ASSUME NEW p \in Process, Finalize(p)
      PROVE  GatedByCoverage' /\ \A q \in Process : ProcessOK(q)'
  <2>1. CASE Reject(p)
    BY <2>1, AbortKeeps DEF Reject
  <2> QED BY <1>2, <2>1, CloseKeeps, ListKeeps, MaterializeKeeps, CommitKeeps DEF Finalize
<1>3. ASSUME NEW r \in Run, WorkerStep(r)
      PROVE  GatedByCoverage' /\ \A q \in Process : ProcessOK(q)'
  BY <1>2, <1>3, Ground, ListKeeps DEF WorkerStep
<1>4. ASSUME SchedulerStep
      PROVE  GatedByCoverage' /\ \A q \in Process : ProcessOK(q)'
  <2>1. CASE ReconcileRead
    <3>1. PICK r \in Run : TRUE
      BY <2>1 DEF ReconcileRead, NotFinal
    <3> QED BY <2>1, <3>1, Ground, ListKeeps
  <2>2. CASE NothingToBackfill
    <3>1. UNCHANGED <<runStatus, found, outcome, rows>> /\ tx' = tx
      BY <2>2 DEF NothingToBackfill, runVars
    <3>2. \A q \in Process : pc'[q] = pc[q] \/ pc'[q] = "idle"
      BY <2>2 DEF NothingToBackfill, IInv, TypeOK
    <3> QED BY <3>1, <3>2
        DEF IInv, GatedByCoverage, ProcessOK, OpenIsShowable, AddedIsShowable,
            ListHasStarted, Showable, ClosedBy
  <2> QED BY <1>2, <1>4, <2>1, <2>2, Ground, ListKeeps DEF SchedulerStep
<1>5. ASSUME NEW p \in Process, Restart(p)
      PROVE  GatedByCoverage' /\ \A q \in Process : ProcessOK(q)'
  BY <1>5, AbortKeeps DEF Restart
<1> QED BY <1>1, <1>3, <1>4, <1>5, StartKeeps DEF Next

-----------------------------------------------------------------------------
\* The inductive invariant: whatever a process is about to show is covered, and is
\* final when the process commits.
THEOREM Invariance == Spec => []IInv
<1>1. Init => IInv
  <2> SUFFICES ASSUME Init PROVE IInv
    OBVIOUS
  <2>1. NoTransaction \in Transaction /\ NoTransaction.closed = {}
    BY EmptyTransaction
  <2>2. TypeOK
    <3>1. tx \in [Process -> Transaction] /\ \A p \in Process : tx[p].closed = {}
      BY <2>1 DEF Init
    <3>2. pc \in [Process -> {"start", "idle", "list", "read", "delete", "deleting"}]
      BY DEF Init
    <3> QED BY <3>1, <3>2, DisturbanceAssumption DEF Init, TypeOK
  <2>3. ASSUME NEW p \in Process PROVE ProcessOK(p)
    BY DEF Init, ProcessOK, OpenIsShowable, AddedIsShowable, ListHasStarted,
            ClosedBy, NoTransaction
  <2>4. GatedByCoverage
    BY DEF Init, GatedByCoverage
  <2> QED BY <2>2, <2>3, <2>4 DEF IInv
<1>2. IInv /\ [Next]_vars => IInv'
  BY TypeKept, GateKept DEF IInv
<1> QED BY <1>1, <1>2, PTL DEF Spec

\* Every variable keeps its type: completion times stay within the clock, and a
\* transaction holds rows and runs only.
THEOREM TypeCorrect == Spec => []TypeOK
<1>1. IInv => TypeOK
  BY DEF IInv
<1> QED BY <1>1, Invariance, PTL

\* The inventory shows covered, completed runs only, whatever overlaps.
THEOREM OnlyCoveredRunsShown == Spec => []GatedByCoverage
<1>1. IInv => GatedByCoverage
  BY DEF IInv
<1> QED BY <1>1, Invariance, PTL

-----------------------------------------------------------------------------
\* Counting.  How many of the runs that process p has shown, and not committed, have
\* seen service s.
Own(p, s) == Cardinality({r \in tx[p].shown : s \in found[r]})

\* A transaction shows a run once.
ShownOnce(p) ==
  /\ tx[p].shown \cap tx[p].todo = {}
  /\ pc[p] \in {"start", "idle"} => tx[p].shown = {} /\ tx[p].todo = {}
  /\ pc[p] \in {"read", "delete", "deleting"} => tx[p].run \notin tx[p].shown \cup tx[p].todo
  /\ \A r \in tx[p].shown : runStatus[r] # "none"

\* What it has read and added counts committed sightings and its own.
CountedBy(p, x) == x.count <= sightings[x.service] + Own(p, x.service)
CountsOwn(p) ==
  /\ \A x \in tx[p].added : CountedBy(p, x)
  /\ pc[p] \in {"delete", "deleting"} => \A x \in tx[p].existing : CountedBy(p, x)

Counting == CountsSightings /\ \A p \in Process : ShownOnce(p) /\ CountsOwn(p)

\* The sightings of a service by the runs a process has shown are finitely many.
LEMMA OwnType ==
  ASSUME TypeOK, NEW p \in Process, NEW s
  PROVE  /\ IsFiniteSet({r \in tx[p].shown : s \in found[r]})
         /\ Own(p, s) \in Nat
<1>1. tx[p].shown \subseteq Run
  BY DEF TypeOK, Transaction
<1>2. IsFiniteSet({r \in tx[p].shown : s \in found[r]})
  BY <1>1, RunAssumption, FS_Subset
<1> QED
  BY <1>2, FS_CardinalityType DEF Own

\* A process whose transaction shows nothing more keeps counting.
LEMMA CountKept ==
  ASSUME IInv, NEW p \in Process, ShownOnce(p), CountsOwn(p),
         tx'[p].shown = tx[p].shown, tx'[p].added = tx[p].added,
         tx'[p].existing = tx[p].existing,
         tx'[p].todo \cap tx[p].shown = {},
         pc'[p] \in {"start", "idle"} => tx[p].shown = {} /\ tx'[p].todo = {},
         pc'[p] \in {"delete", "deleting"} => pc[p] \in {"delete", "deleting"},
         pc'[p] \in {"read", "delete", "deleting"} =>
           tx'[p].run \notin tx[p].shown \cup tx'[p].todo,
         \A r \in tx[p].shown : found'[r] = found[r],
         \A r \in Run : runStatus[r] # "none" => runStatus'[r] # "none",
         \A s \in Service : sightings'[s] \in Nat /\ sightings[s] <= sightings'[s]
  PROVE  ShownOnce(p)' /\ CountsOwn(p)'
<1>1. /\ tx[p].shown \subseteq Run /\ tx[p].added \subseteq Row /\ tx[p].existing \subseteq Row
      /\ sightings \in [Service -> Nat]
  BY DEF IInv, TypeOK, Transaction
<1>2. ShownOnce(p)'
  BY <1>1 DEF ShownOnce
<1>3. \A s : Own(p, s)' = Own(p, s)
  <2>1. \A s : {r \in tx'[p].shown : s \in found'[r]} = {r \in tx[p].shown : s \in found[r]}
    OBVIOUS
  <2> QED
    BY <2>1 DEF Own
<1>4. ASSUME NEW x \in Row, CountedBy(p, x) PROVE CountedBy(p, x)'
  <2>1. x.service \in Service /\ x.count \in Nat
    BY DEF Row
  <2>2. Own(p, x.service) \in Nat
    BY OwnType DEF IInv
  <2>3. sightings[x.service] \in Nat /\ sightings'[x.service] \in Nat
    BY <1>1, <2>1
  <2>4. sightings[x.service] <= sightings'[x.service]
    BY <2>1
  <2> QED
    BY <1>3, <1>4, <2>1, <2>2, <2>3, <2>4 DEF CountedBy
<1> HIDE DEF CountedBy
<1> QED
  BY <1>1, <1>2, <1>4 DEF CountsOwn

\* An empty transaction has nothing to count.
LEMMA NothingCounted ==
  ASSUME NEW p, tx'[p] = NoTransaction, pc'[p] \in {"start", "idle", "list"}
  PROVE  ShownOnce(p)' /\ CountsOwn(p)'
BY DEF ShownOnce, CountsOwn, NoTransaction

\* Runs that a transaction closes, and those it has shown, have started.
LEMMA AbortCounts ==
  ASSUME IInv, Counting, NEW p \in Process, Abort(p)
  PROVE  Counting'
<1>1. tx'[p] = NoTransaction /\ \A q \in Process \ {p} : tx'[q] = tx[q]
  BY OwnTransaction DEF Abort, IInv
<1>2. pc'[p] \in {"start", "idle"} /\ \A q \in Process \ {p} : pc'[q] = pc[q]
  BY DEF Abort, IInv, TypeOK
<1>3. UNCHANGED <<runStatus, found, rows, sightings>>
  BY DEF Abort, runVars
<1>4. \A s \in Service : sightings'[s] \in Nat /\ sightings[s] <= sightings'[s]
  BY <1>3 DEF IInv, TypeOK
<1>5. ASSUME NEW q \in Process PROVE ShownOnce(q)' /\ CountsOwn(q)'
  <2>1. CASE q = p
    BY <1>1, <1>2, <2>1, NothingCounted
  <2>2. CASE q # p
    <3>1. ShownOnce(q) /\ CountsOwn(q)
      BY DEF Counting
    <3> QED
      BY <1>1, <1>2, <1>3, <1>4, <2>2, <3>1, CountKept DEF ShownOnce
  <2> QED
    BY <2>1, <2>2
<1> QED
  BY <1>3, <1>5 DEF Counting, CountsSightings

\* Steps that begin or end a list, or close a run of it, show nothing.
LEMMA QuietCounts ==
  ASSUME IInv, Counting, NEW p \in Process,
         UNCHANGED <<runStatus, found, rows, sightings>>,
         \A q \in Process \ {p} : tx'[q] = tx[q] /\ pc'[q] = pc[q],
         tx'[p].shown = tx[p].shown, tx'[p].added = tx[p].added,
         tx'[p].existing = tx[p].existing,
         tx'[p].todo \cap tx[p].shown = {},
         pc'[p] \in {"start", "idle"} => tx[p].shown = {} /\ tx'[p].todo = {},
         pc'[p] \in {"delete", "deleting"} => pc[p] \in {"delete", "deleting"},
         pc'[p] \in {"read", "delete", "deleting"} =>
           tx'[p].run \notin tx[p].shown \cup tx'[p].todo
  PROVE  Counting'
<1>1. \A s \in Service : sightings'[s] \in Nat /\ sightings[s] <= sightings'[s]
  BY DEF IInv, TypeOK
<1>2. ASSUME NEW q \in Process PROVE ShownOnce(q)' /\ CountsOwn(q)'
  <2>1. ShownOnce(q) /\ CountsOwn(q)
    BY DEF Counting
  <2>2. CASE q = p
    BY <1>1, <2>1, <2>2, CountKept
  <2>3. CASE q # p
    BY <1>1, <2>1, <2>3, CountKept DEF ShownOnce
  <2> QED
    BY <2>2, <2>3
<1> QED
  BY <1>2 DEF Counting, CountsSightings

\* A step that only changes which runs are to be materialized counts nothing.
LEMMA ListCounts ==
  ASSUME IInv, Counting, NEW p \in Process, NEW r \in Run,
         \/ p = r /\ (EndUnfinalized(r) \/ EndFinalizing(r))
         \/ p = Scheduler /\ (ReconcileRead \/ Backfill(r) \/ NothingToBackfill)
         \/ StillPending(p, r) \/ Close(p, r)
  PROVE  Counting'
<1>1. UNCHANGED <<runStatus, found, rows, sightings>>
  BY DEF EndUnfinalized, EndFinalizing, ReconcileRead, Backfill, NothingToBackfill,
         StillPending, Close, runVars
<1>2. ShownOnce(p) /\ tx[p] \in Transaction /\ tx \in [Process -> Transaction]
      /\ pc \in [Process -> {"start", "idle", "list", "read", "delete", "deleting"}]
  BY DEF Counting, IInv, TypeOK
<1>3. CASE p = r /\ EndUnfinalized(r)
  <2>1. tx' = tx /\ pc' = pc
    BY <1>3 DEF EndUnfinalized
  <2> QED
    BY <1>1, <1>2, <2>1, QuietCounts DEF ShownOnce
<1>4. CASE p = r /\ EndFinalizing(r)
  BY <1>1, <1>2, <1>4, QuietCounts DEF EndFinalizing, ShownOnce, Transaction
<1>5. CASE p = Scheduler /\ ReconcileRead
  BY <1>1, <1>2, <1>5, QuietCounts DEF ReconcileRead, ShownOnce, Transaction
<1>6. CASE p = Scheduler /\ Backfill(r)
  <2>1. tx[p].todo = {} /\ tx[p].shown = {}
    BY <1>2, <1>6 DEF Backfill, ShownOnce
  <2>2. tx'[p].run = r /\ tx'[p].todo = tx[p].todo /\ tx'[p].shown = tx[p].shown
        /\ tx'[p].added = tx[p].added /\ tx'[p].existing = tx[p].existing
    BY <1>2, <1>6 DEF Backfill, Transaction
  <2>3. pc'[p] = "read" /\ \A q \in Process \ {p} : tx'[q] = tx[q] /\ pc'[q] = pc[q]
    BY <1>2, <1>6 DEF Backfill
  <2> QED
    BY <1>1, <2>1, <2>2, <2>3, QuietCounts
<1>7. CASE p = Scheduler /\ NothingToBackfill
  BY <1>1, <1>2, <1>7, QuietCounts DEF NothingToBackfill, ShownOnce
<1>8. CASE StillPending(p, r)
  <2>1. tx'[p].todo = tx[p].todo \ {r} /\ tx'[p].shown = tx[p].shown
        /\ tx'[p].added = tx[p].added /\ tx'[p].existing = tx[p].existing
    BY <1>2, <1>8 DEF StillPending, Transaction
  <2>2. pc[p] = "list" /\ pc' = pc /\ \A q \in Process \ {p} : tx'[q] = tx[q]
    BY <1>2, <1>8 DEF StillPending
  <2>3. tx'[p].todo \cap tx[p].shown = {}
    BY <1>2, <2>1 DEF ShownOnce
  <2>4. pc'[p] = "list" /\ \A q \in Process : pc'[q] = pc[q]
    BY <2>2
  <2> QED
    BY <1>1, <2>1, <2>2, <2>3, <2>4, QuietCounts
<1>9. CASE Close(p, r)
  <2>1. tx'[p].todo = tx[p].todo \ {r} /\ tx'[p].shown = tx[p].shown
        /\ tx'[p].added = tx[p].added /\ tx'[p].existing = tx[p].existing
        /\ (pc'[p] = "read" => tx'[p].run = r)
    <3> DEFINE c0 == [tx[p] EXCEPT !.todo = @ \ {r}, !.closed = @ \cup {<<r, clock + 1>>}]
               c1 == [c0 EXCEPT !.run = r, !.at = clock + 1]
    <3>1. tx'[p] = (IF Covered(r) THEN c1 ELSE c0) /\ (~Covered(r) => pc'[p] = "list")
      <4>1. tx' = [tx EXCEPT ![p] = IF Covered(r) THEN c1 ELSE c0]
        BY <1>9 DEF Close
      <4>2. ~Covered(r) => pc' = pc /\ pc[p] = "list"
        BY <1>9 DEF Close
      <4> HIDE DEF c0, c1
      <4> QED
        BY <1>2, <4>1, <4>2
    <3>2. /\ c0.todo = tx[p].todo \ {r} /\ c0.shown = tx[p].shown
          /\ c0.added = tx[p].added /\ c0.existing = tx[p].existing
      BY <1>2 DEF Transaction
    <3>3. /\ c1.todo = c0.todo /\ c1.shown = c0.shown /\ c1.run = r
          /\ c1.added = c0.added /\ c1.existing = c0.existing
      BY <1>2 DEF Transaction
    <3> HIDE DEF c0, c1
    <3> QED
      BY <3>1, <3>2, <3>3
  <2>2. pc[p] = "list" /\ pc'[p] \in {"list", "read"} /\ r \in tx[p].todo
        /\ \A q \in Process \ {p} : tx'[q] = tx[q] /\ pc'[q] = pc[q]
    BY <1>2, <1>9 DEF Close
  <2> QED
    BY <1>1, <1>2, <2>1, <2>2, QuietCounts DEF ShownOnce
<1> QED
  BY <1>3, <1>4, <1>5, <1>6, <1>7, <1>8, <1>9

\* One run more, of those that have seen the service, is one sighting more.
LEMMA OneMore ==
  ASSUME IInv, NEW p \in Process, NEW r \in Run, r \notin tx[p].shown,
         tx'[p].shown = tx[p].shown \cup {r}, found' = found, NEW s
  PROVE  /\ Own(p, s)' \in Nat /\ Own(p, s) \in Nat
         /\ Own(p, s) <= Own(p, s)'
         /\ s \in found[r] => Own(p, s)' = Own(p, s) + 1
<1> DEFINE A == {q \in tx[p].shown : s \in found[q]}
           B == {q \in tx'[p].shown : s \in found'[q]}
<1>1. IsFiniteSet(A) /\ Own(p, s) \in Nat
  BY OwnType DEF IInv
<1>2. CASE s \in found[r]
  <2>1. B = A \cup {r} /\ r \notin A
    BY <1>2
  <2>2. Cardinality(B) = Cardinality(A) + 1
    <3> HIDE DEF A, B
    <3> QED
      BY <1>1, <2>1, FS_AddElement
  <2> QED
    BY <1>1, <2>2 DEF Own
<1>3. CASE s \notin found[r]
  <2>1. B = A
    BY <1>3
  <2>2. Own(p, s)' = Own(p, s)
    BY <2>1 DEF Own
  <2> QED
    BY <1>1, <1>3, <2>2
<1> QED
  BY <1>2, <1>3

\* Up to its insertion a materialization only plans what it will count.
LEMMA MaterializeCounts ==
  ASSUME IInv, Counting, NEW p \in Process, ReadExisting(p) \/ DeleteBegins(p) \/ DeleteEnds(p)
  PROVE  Counting'
<1>1. /\ tx[p] \in Transaction /\ ShownOnce(p) /\ CountsOwn(p)
      /\ pc[p] \in {"read", "delete", "deleting"}
      /\ tx \in [Process -> Transaction] /\ sightings \in [Service -> Nat] /\ rows \subseteq Row
      /\ pc \in [Process -> {"start", "idle", "list", "read", "delete", "deleting"}]
  BY DEF Counting, ReadExisting, DeleteBegins, DeleteEnds, IInv, TypeOK
<1>2. UNCHANGED <<runStatus, found, rows, sightings>>
  BY DEF ReadExisting, DeleteBegins, DeleteEnds, runVars
<1>3. \A q \in Process \ {p} : tx'[q] = tx[q] /\ pc'[q] = pc[q]
  BY <1>1 DEF ReadExisting, DeleteBegins, DeleteEnds
<1>4. tx[p].run \in Run /\ runStatus[tx[p].run] # "none"
  BY <1>1 DEF IInv, ProcessOK, OpenIsShowable, Showable, ListHasStarted
<1>5. ASSUME NEW q \in Process \ {p} PROVE ShownOnce(q)' /\ CountsOwn(q)'
  <2>1. ShownOnce(q) /\ CountsOwn(q)
    BY DEF Counting
  <2>2. \A s \in Service : sightings'[s] \in Nat /\ sightings[s] <= sightings'[s]
    BY <1>1, <1>2
  <2> QED
    BY <1>2, <1>3, <2>1, <2>2, CountKept DEF ShownOnce
<1>6. CASE ReadExisting(p)
  <2>1. /\ tx'[p].existing = View(p) /\ tx'[p].shown = tx[p].shown /\ tx'[p].run = tx[p].run
        /\ tx'[p].added = tx[p].added /\ tx'[p].todo = tx[p].todo
        /\ pc'[p] = "delete" /\ pc[p] = "read"
    BY <1>1, <1>6 DEF ReadExisting, Transaction
  <2>2. ShownOnce(p)'
    BY <1>1, <1>2, <2>1 DEF ShownOnce
  <2>3. \A x : CountedBy(p, x)' = CountedBy(p, x)
    BY <1>2, <2>1 DEF CountedBy, Own
  <2>4. ASSUME NEW x \in View(p) PROVE CountedBy(p, x)
    <3>1. CASE x \in tx[p].added
      BY <1>1, <3>1 DEF CountsOwn
    <3>2. CASE x \in rows
      <4>1. x.count \in Nat /\ x.service \in Service /\ x.count <= sightings[x.service]
        BY <1>1, <3>2 DEF Counting, CountsSightings, Row
      <4>2. Own(p, x.service) \in Nat /\ sightings[x.service] \in Nat
        BY <1>1, <4>1, OwnType DEF IInv
      <4> QED
        BY <4>1, <4>2 DEF CountedBy
    <3> QED
      BY <3>1, <3>2 DEF View
  <2>5. CountsOwn(p)'
    <3> HIDE DEF CountedBy
    <3> QED
      BY <1>1, <2>1, <2>3, <2>4 DEF CountsOwn
  <2> QED
    BY <1>2, <1>5, <2>2, <2>5 DEF Counting, CountsSightings
<1>7. CASE DeleteBegins(p)
  <2>1. /\ tx'[p].existing = tx[p].existing /\ tx'[p].shown = tx[p].shown
        /\ tx'[p].run = tx[p].run /\ tx'[p].added = tx[p].added /\ tx'[p].todo = tx[p].todo
        /\ pc'[p] = "deleting" /\ pc[p] = "delete"
    BY <1>1, <1>7 DEF DeleteBegins, Transaction
  <2>2. \A s \in Service : sightings'[s] \in Nat /\ sightings[s] <= sightings'[s]
    BY <1>1, <1>2
  <2>3. ShownOnce(p)' /\ CountsOwn(p)'
    <3>1. tx'[p].todo \cap tx[p].shown = {} /\ tx'[p].run \notin tx[p].shown \cup tx'[p].todo
      BY <1>1, <2>1 DEF ShownOnce
    <3> QED
      BY <1>1, <1>2, <2>1, <2>2, <3>1, CountKept
  <2> QED
    BY <1>2, <1>5, <2>3 DEF Counting, CountsSightings
<1>8. CASE DeleteEnds(p)
  <2> DEFINE run == tx[p].run
             old == tx[p].existing
  <2>1. /\ tx'[p].shown = tx[p].shown \cup {run} /\ tx'[p].todo = tx[p].todo
        /\ tx'[p].added = Replacement(run, tx[p].at, old)
        /\ pc'[p] = "list" /\ pc[p] = "deleting"
    BY <1>1, <1>8 DEF DeleteEnds, Transaction
  <2>2. run \notin tx[p].shown \cup tx[p].todo
    BY <1>1, <2>1 DEF ShownOnce
  <2>3. ShownOnce(p)'
    BY <1>1, <1>2, <1>4, <2>1, <2>2 DEF ShownOnce
  <2>4. ASSUME NEW x \in Replacement(run, tx[p].at, old) PROVE CountedBy(p, x)'
    <3>1. PICK s \in found[run] :
            x = LET history == IF Remembered(old, s) = {} THEN [first |-> tx[p].at, count |-> 0]
                               ELSE CHOOSE o \in Remembered(old, s) : TRUE
                IN  [service |-> s, run |-> run, last |-> tx[p].at,
                     first |-> history.first, count |-> history.count + 1]
      BY DEF Replacement
    <3>2. Own(p, s)' = Own(p, s) + 1 /\ Own(p, s) \in Nat
      BY <1>2, <1>4, <2>1, <2>2, OneMore
    <3>3. s \in Service /\ sightings'[s] = sightings[s] /\ sightings[s] \in Nat
      BY <1>1, <1>2, <1>4 DEF IInv, TypeOK
    <3>4. CASE Remembered(old, s) = {}
      <4>1. x.service = s /\ x.count = 1
        BY <3>1, <3>4
      <4> QED
        BY <3>2, <3>3, <4>1 DEF CountedBy
    <3>5. CASE Remembered(old, s) # {}
      <4> DEFINE o == CHOOSE o \in Remembered(old, s) : TRUE
      <4>1. o \in old /\ o.service = s
        BY <3>5 DEF Remembered
      <4>2. x.service = s /\ x.count = o.count + 1
        BY <3>1, <3>5
      <4> HIDE DEF o
      <4>3. o.count \in Nat
        BY <1>1, <4>1 DEF Transaction, Row
      <4>4. o.count <= sightings[s] + Own(p, s)
        BY <1>1, <2>1, <4>1 DEF CountsOwn, CountedBy
      <4> QED
        BY <3>2, <3>3, <4>2, <4>3, <4>4 DEF CountedBy
    <3> QED
      BY <3>4, <3>5
  <2>5. CountsOwn(p)'
    BY <2>1, <2>4 DEF CountsOwn
  <2> QED
    BY <1>2, <1>5, <2>3, <2>5 DEF Counting, CountsSightings
<1> QED
  BY <1>6, <1>7, <1>8

\* A commit counts what it has shown.
LEMMA CommitCounts ==
  ASSUME IInv, Counting, NEW p \in Process, Commit(p)
  PROVE  Counting'
<1>1. /\ tx[p] \in Transaction /\ ShownOnce(p) /\ CountsOwn(p)
      /\ tx \in [Process -> Transaction] /\ sightings \in [Service -> Nat] /\ rows \subseteq Row
      /\ pc \in [Process -> {"start", "idle", "list", "read", "delete", "deleting"}]
  BY DEF Counting, IInv, TypeOK
<1>2. /\ found' = found /\ rows' = View(p)
      /\ tx'[p] = NoTransaction /\ pc'[p] = "idle"
      /\ \A q \in Process \ {p} : tx'[q] = tx[q] /\ pc'[q] = pc[q]
  BY <1>1 DEF Commit
<1>3. ASSUME NEW s \in Service
      PROVE  /\ sightings'[s] = sightings[s] + Own(p, s)
             /\ sightings[s] \in Nat /\ Own(p, s) \in Nat /\ sightings'[s] \in Nat
             /\ sightings[s] <= sightings'[s]
  <2>1. sightings'[s] = sightings[s] + Own(p, s)
    BY DEF Commit, Own
  <2>2. Own(p, s) \in Nat /\ sightings[s] \in Nat
    BY <1>1, OwnType DEF IInv
  <2> QED
    BY <2>1, <2>2
<1>4. \A r \in Run : runStatus[r] # "none" => runStatus'[r] # "none"
  BY DEF Commit
<1>5. ASSUME NEW x \in rows' PROVE x.count <= sightings'[x.service]
  <2>1. CASE x \in rows
    <3>1. x.count \in Nat /\ x.service \in Service /\ x.count <= sightings[x.service]
      BY <1>1, <2>1 DEF Counting, CountsSightings, Row
    <3>2. sightings[x.service] <= sightings'[x.service] /\ sightings[x.service] \in Nat
          /\ sightings'[x.service] \in Nat
      BY <1>3, <3>1
    <3> QED
      BY <3>1, <3>2
  <2>2. CASE x \in tx[p].added
    <3>1. x.service \in Service
      BY <1>1, <2>2 DEF Transaction, Row
    <3>2. x.count <= sightings[x.service] + Own(p, x.service)
      BY <1>1, <2>2 DEF CountsOwn, CountedBy
    <3> QED
      BY <1>3, <3>1, <3>2
  <2> QED
    BY <1>2, <2>1, <2>2 DEF View
<1>6. ASSUME NEW q \in Process PROVE ShownOnce(q)' /\ CountsOwn(q)'
  <2>1. CASE q = p
    BY <1>2, <2>1, NothingCounted
  <2>2. CASE q # p
    <3>1. ShownOnce(q) /\ CountsOwn(q)
      BY DEF Counting
    <3> QED
      BY <1>2, <1>3, <1>4, <2>2, <3>1, CountKept DEF ShownOnce
  <2> QED
    BY <2>1, <2>2
<1> QED
  BY <1>5, <1>6 DEF Counting, CountsSightings

\* A run that starts has been shown by nobody.
LEMMA StartCounts ==
  ASSUME IInv, Counting, NEW r \in Run, NEW services \in SUBSET Service,
         NEW result \in {"covered", "gap", "failed"}, StartRun(r, services, result)
  PROVE  Counting'
<1>1. UNCHANGED <<rows, sightings, tx, pc>> /\ runStatus[r] = "none"
  BY DEF StartRun
<1>2. \A s \in Service : sightings'[s] \in Nat /\ sightings[s] <= sightings'[s]
  BY <1>1 DEF IInv, TypeOK
<1>3. /\ \A q \in Run : runStatus[q] # "none" => runStatus'[q] # "none"
      /\ \A q \in Run \ {r} : found'[q] = found[q]
  BY DEF StartRun, IInv, TypeOK
<1>4. ASSUME NEW q \in Process PROVE ShownOnce(q)' /\ CountsOwn(q)'
  <2>1. ShownOnce(q) /\ CountsOwn(q)
    BY DEF Counting
  <2>2. tx[q].shown \subseteq Run /\ r \notin tx[q].shown
    BY <1>1, <2>1 DEF ShownOnce, IInv, TypeOK, Transaction
  <2>3. \A x \in tx[q].shown : found'[x] = found[x]
    BY <1>3, <2>2
  <2> QED
    BY <1>1, <1>2, <1>3, <2>1, <2>3, CountKept DEF ShownOnce
<1> QED
  BY <1>1, <1>4 DEF Counting, CountsSightings

\* Every step keeps the books.
LEMMA CountingKept ==
  ASSUME IInv, Counting, [Next]_vars
  PROVE  Counting'
<1>1. CASE UNCHANGED vars
  BY <1>1 DEF Counting, CountsSightings, ShownOnce, CountsOwn, CountedBy, Own, vars, runVars
<1>2. ASSUME NEW p \in Process, Finalize(p) PROVE Counting'
  <2>1. CASE Reject(p)
    BY <2>1, AbortCounts DEF Reject
  <2> QED
    BY <1>2, <2>1, ListCounts, MaterializeCounts, CommitCounts DEF Finalize
<1>3. ASSUME NEW r \in Run, WorkerStep(r) PROVE Counting'
  BY <1>2, <1>3, Ground, ListCounts DEF WorkerStep
<1>4. ASSUME SchedulerStep PROVE Counting'
  <2>1. CASE ReconcileRead
    <3>1. PICK r \in Run : TRUE
      BY <2>1 DEF ReconcileRead, NotFinal
    <3> QED
      BY <2>1, <3>1, Ground, ListCounts
  <2>2. CASE NothingToBackfill
    <3>1. tx' = tx /\ UNCHANGED <<runStatus, found, rows, sightings>>
      BY <2>2 DEF NothingToBackfill, runVars
    <3>2. \A q \in Process : pc'[q] = pc[q] \/ (pc[q] = "start" /\ pc'[q] = "idle")
      BY <2>2 DEF NothingToBackfill, IInv, TypeOK
    <3> QED
      BY <3>1, <3>2
         DEF Counting, CountsSightings, ShownOnce, CountsOwn, CountedBy, Own
  <2> QED
    BY <1>2, <1>4, <2>1, <2>2, Ground, ListCounts DEF SchedulerStep
<1>5. ASSUME NEW p \in Process, Restart(p) PROVE Counting'
  BY <1>5, AbortCounts DEF Restart
<1> QED
  BY <1>1, <1>3, <1>4, <1>5, StartCounts DEF Next

\* No transaction that is lost or fails leaves a count behind, and none counts a run
\* twice (materialize_current_exposures).
THEOREM CountsAreSightings == Spec => []CountsSightings
<1>1. Init => Counting
  BY DEF Init, Counting, CountsSightings, ShownOnce, CountsOwn, NoTransaction
<1>2. IInv /\ Counting /\ [Next]_vars => Counting'
  BY CountingKept
<1>3. Counting => CountsSightings
  BY DEF Counting
<1> QED
  BY <1>1, <1>2, <1>3, Invariance, PTL DEF Spec

-----------------------------------------------------------------------------
\* Of the runs, at most one is being scanned.
OneRunning ==
  \A q, r \in Run : runStatus[q] = "running" /\ runStatus[r] = "running" => q = r

\* A worker in its transaction ends the run that is being scanned.
EndsItsRun(r) ==
  pc[r] # "idle" =>
    /\ pc[r] # "start"
    /\ runStatus[r] = "running" /\ ~shardsEnded[r]
    /\ tx[r].todo \cup ClosedBy(r) \subseteq {r}

\* No run was started since the scheduler read the run it finalizes; what it has
\* closed had ended.
SchedulerIsCurrent ==
  /\ pc[Scheduler] = "start" => rows = {} /\ \A r \in Run : runStatus[r] = "none"
  /\ \A q \in tx[Scheduler].todo \cup ClosedBy(Scheduler) :
       \A r \in Run : runStatus[r] = "running" => r = q
  /\ \A q \in ClosedBy(Scheduler) : shardsEnded[q]

\* Process p, which has finalized run c[1] at c[2], reads, deletes and replaces all
\* rows of the table, which are older.
Replaces(p, c) ==
  /\ tx[p].todo = {}
  /\ \A d \in tx[p].closed : d = c
  /\ \A r \in Run : completedAt[r] < c[2]
  /\ \A row \in rows : row.last < c[2]
  /\ pc[p] # "list" => Covered(c[1]) /\ tx[p].run = c[1] /\ tx[p].at = c[2]
  /\ pc[p] \in {"delete", "deleting"} => tx[p].existing = rows
  /\ pc[p] = "deleting" => tx[p].wanted = rows
  /\ IF pc[p] = "list" /\ Covered(c[1])
     THEN tx[p].gone = rows /\ tx[p].added = Replacement(c[1], c[2], rows)
     ELSE tx[p].gone = {} /\ tx[p].added = {}

\* A transaction finalizes one run at most, and writes rows for that run only.
ReplacesAll(p) ==
  /\ pc[p] \in {"idle", "start"} => tx[p] = NoTransaction
  /\ \A q, r \in tx[p].todo : q = r
  /\ tx[p].closed = {} =>
       pc[p] \in {"idle", "start", "list"} /\ tx[p].gone = {} /\ tx[p].added = {}
  /\ \A c \in tx[p].closed : Replaces(p, c)

InTurn(p) == /\ ReplacesAll(p)
             /\ p \in Run => EndsItsRun(p)
             /\ p = Scheduler => SchedulerIsCurrent

\* The table holds what the latest covered run found, one row for each service.
Shows(r) == {<<row.service, row.run>> : row \in rows} = found[r] \X {r}
TableIsLatest ==
  /\ Completed = {} => rows = {}
  /\ \A r \in Latest(Completed) : Shows(r)
  /\ \A a, b \in rows : a.service = b.service => a = b
  /\ \A row \in rows : row.last <= clock

Serial == OneRunning /\ TableIsLatest /\ \A p \in Process : InTurn(p)

SerialInv == disturbances = 0 => Serial

-----------------------------------------------------------------------------
\* What a run leaves in the table is one row for each service it found.
LEMMA ReplacementTable ==
  ASSUME NEW r, NEW t, NEW old
  PROVE  /\ {<<row.service, row.run>> : row \in Replacement(r, t, old)} = found[r] \X {r}
         /\ \A a, b \in Replacement(r, t, old) : a.service = b.service => a = b
         /\ \A row \in Replacement(r, t, old) : row.last = t
<1> DEFINE History(s) == IF Remembered(old, s) = {} THEN [first |-> t, count |-> 0]
                         ELSE CHOOSE o \in Remembered(old, s) : TRUE
           New(s) == [service |-> s, run |-> r, last |-> t,
                      first |-> History(s).first, count |-> History(s).count + 1]
<1>1. Replacement(r, t, old) = {New(s) : s \in found[r]}
  BY DEF Replacement
<1>2. \A s : New(s).service = s /\ New(s).run = r /\ New(s).last = t
  OBVIOUS
<1> HIDE DEF New
<1> QED
  BY <1>1, <1>2

\* The transaction that finalizes is alone to do so.
LEMMA OneFinalizes ==
  ASSUME TypeOK, Serial, NEW p \in Process, NEW q \in Process,
         tx[p].closed # {}, tx[q].closed # {}
  PROVE  p = q
<1>1. ASSUME NEW v \in Process, tx[v].closed # {}
      PROVE  \E r \in Run : r \in ClosedBy(v) /\ pc[v] # "idle"
  <2>1. PICK c \in tx[v].closed : TRUE
    BY <1>1
  <2>2. c[1] \in Run /\ c[1] \in ClosedBy(v)
    BY <2>1 DEF TypeOK, Transaction, ClosedBy
  <2>3. pc[v] # "idle"
    BY <1>1 DEF Serial, InTurn, ReplacesAll, NoTransaction
  <2> QED
    BY <2>2, <2>3
<1>2. ASSUME NEW v \in Run, NEW w \in Run, tx[v].closed # {}, tx[w].closed # {}
      PROVE  v = w
  <2>1. v \in Process /\ w \in Process
    BY Ground
  <2> QED
    BY <1>1, <1>2, <2>1 DEF Serial, InTurn, EndsItsRun, OneRunning
<1>3. ASSUME NEW v \in Run, tx[v].closed # {}, tx[Scheduler].closed # {}
      PROVE  FALSE
  <2>1. v \in Process /\ Scheduler \in Process
    BY Ground
  <2>2. runStatus[v] = "running" /\ ~shardsEnded[v]
    BY <1>1, <1>3, <2>1 DEF Serial, InTurn, EndsItsRun
  <2>3. PICK r \in Run : r \in ClosedBy(Scheduler)
    BY <1>1, <1>3, <2>1
  <2> QED
    BY <2>1, <2>2, <2>3 DEF Serial, InTurn, SchedulerIsCurrent
<1> QED
  BY <1>2, <1>3, Ground

\* It never inserts a row that is still there: no insert fails.
LEMMA NoClash ==
  ASSUME Serial, NEW p \in Process, pc[p] = "list"
  PROVE  ~Clash(p)
<1>1. CASE tx[p].closed = {}
  BY <1>1 DEF Serial, InTurn, ReplacesAll, Clash
<1>2. ASSUME NEW c \in tx[p].closed PROVE ~Clash(p)
  BY <1>2 DEF Serial, InTurn, ReplacesAll, Replaces, Clash
<1> QED
  BY <1>1, <1>2

\* A process that the step leaves alone, with the tables, stays in turn.
LEMMA TurnKept ==
  ASSUME NEW q \in Process, InTurn(q), pc'[q] = pc[q], tx'[q] = tx[q],
         UNCHANGED <<runStatus, found, outcome, completedAt, rows>>,
         \A r \in Run : shardsEnded[r] => shardsEnded'[r],
         \A r \in Run : pc[r] # "idle" => shardsEnded'[r] = shardsEnded[r],
         tx[q].closed \subseteq Run \X Nat
  PROVE  InTurn(q)'
<1>1. \A c : Replacement(c[1], c[2], rows)' = Replacement(c[1], c[2], rows)
  BY DEF Replacement, Remembered
<1>2. ClosedBy(q)' = ClosedBy(q) /\ ClosedBy(q) \subseteq Run
  BY DEF ClosedBy
<1>3. ReplacesAll(q)'
  BY <1>1 DEF InTurn, ReplacesAll, Replaces, Covered
<1>4. q \in Run => EndsItsRun(q)'
  BY <1>2 DEF InTurn, EndsItsRun
<1>5. q = Scheduler => SchedulerIsCurrent'
  BY <1>2 DEF InTurn, SchedulerIsCurrent
<1> QED
  BY <1>3, <1>4, <1>5 DEF InTurn

\* A step of one process that commits nothing.
LEMMA SessionInTurn ==
  ASSUME TypeOK, Serial, NEW p \in Process,
         UNCHANGED <<runVars, rows>>, clock' \in Nat, clock <= clock',
         \A q \in Process : q # p => pc'[q] = pc[q] /\ tx'[q] = tx[q],
         InTurn(p)'
  PROVE  Serial'
<1>1. \A q \in Process : tx[q].closed \subseteq Run \X Nat
  BY DEF TypeOK, Transaction
<1>2. \A q \in Process : InTurn(q)'
  BY <1>1, TurnKept DEF Serial, runVars
<1>3. OneRunning'
  BY DEF Serial, OneRunning, runVars
<1>4. TableIsLatest'
  <2>1. \A row \in rows : row.last \in Nat
    BY DEF TypeOK, Row
  <2> QED
    BY <2>1 DEF Serial, TableIsLatest, Completed, Covered, Latest, Shows, runVars, TypeOK
<1> QED
  BY <1>2, <1>3, <1>4 DEF Serial

-----------------------------------------------------------------------------
\* The scheduler or a worker begins its transaction.
LEMMA ListInTurn ==
  ASSUME TypeOK, Serial, ReconcileRead \/ \E r \in Run : EndFinalizing(r)
  PROVE  Serial'
<1>1. ASSUME ReconcileRead PROVE Serial'
  <2> DEFINE p == Scheduler
  <2>1. p \in Process /\ p \notin Run
    BY Ground
  <2>2. tx[p] = NoTransaction /\ pc[p] = "idle"
    BY <1>1, <2>1 DEF ReconcileRead, Serial, InTurn, ReplacesAll
  <2>3. pc'[p] = "list" /\ tx'[p] = [NoTransaction EXCEPT !.todo = NotFinal]
    BY <1>1, <2>1, <2>2 DEF ReconcileRead, TypeOK
  <2>4. tx'[p].todo = NotFinal /\ tx'[p].closed = {} /\ tx'[p].gone = {} /\ tx'[p].added = {}
    BY <2>3 DEF NoTransaction
  <2>5. \A q, r \in NotFinal : q = r
    BY DEF NotFinal, Serial, OneRunning
  <2>6. \A q \in NotFinal : \A r \in Run : runStatus[r] = "running" => r = q
    BY DEF NotFinal, Serial, OneRunning
  <2>7. InTurn(p)'
    <3>1. ReplacesAll(p)'
      BY <2>3, <2>4, <2>5 DEF ReplacesAll
    <3>2. SchedulerIsCurrent'
      BY <1>1, <2>3, <2>4, <2>6 DEF SchedulerIsCurrent, ClosedBy, ReconcileRead, runVars
    <3> QED
      BY <2>1, <3>1, <3>2 DEF InTurn
  <2>8. \A q \in Process : q # p => pc'[q] = pc[q] /\ tx'[q] = tx[q]
    BY <1>1, <2>1 DEF ReconcileRead, TypeOK
  <2>9. UNCHANGED <<runVars, rows>> /\ clock' \in Nat /\ clock <= clock'
    BY <1>1 DEF ReconcileRead, TypeOK
  <2> QED
    BY <2>1, <2>7, <2>8, <2>9, SessionInTurn
<1>2. ASSUME NEW r \in Run, EndFinalizing(r) PROVE Serial'
  <2>1. r \in Process /\ r # Scheduler
    BY Ground
  <2>2. tx[r] = NoTransaction
    BY <1>2, <2>1 DEF EndFinalizing, Serial, InTurn, ReplacesAll
  <2>3. pc'[r] = "list" /\ tx'[r] = [NoTransaction EXCEPT !.todo = {r}]
    BY <1>2, <2>1, <2>2 DEF EndFinalizing, TypeOK
  <2>4. tx'[r].todo = {r} /\ tx'[r].closed = {} /\ tx'[r].gone = {} /\ tx'[r].added = {}
    BY <2>3 DEF NoTransaction
  <2>5. InTurn(r)'
    <3>1. ReplacesAll(r)'
      BY <2>3, <2>4 DEF ReplacesAll
    <3>2. EndsItsRun(r)'
      BY <1>2, <2>3, <2>4 DEF EndsItsRun, ClosedBy, EndFinalizing, runVars
    <3> QED
      BY <2>1, <3>1, <3>2 DEF InTurn
  <2>6. \A q \in Process : q # r => pc'[q] = pc[q] /\ tx'[q] = tx[q]
    BY <1>2, <2>1 DEF EndFinalizing, TypeOK
  <2>7. UNCHANGED <<runVars, rows>> /\ clock' \in Nat /\ clock <= clock'
    BY <1>2 DEF EndFinalizing, TypeOK
  <2> QED
    BY <2>1, <2>5, <2>6, <2>7, SessionInTurn
<1> QED
  BY <1>1, <1>2

\* A run of the list is left as pending.
LEMMA PendingInTurn ==
  ASSUME TypeOK, Serial, NEW p \in Process, NEW r \in Run, StillPending(p, r)
  PROVE  Serial'
<1>1. tx[p] \in Transaction /\ p = Scheduler /\ p \notin Run /\ pc' = pc
  BY Ground DEF StillPending, TypeOK
<1>2. tx'[p] = [tx[p] EXCEPT !.todo = @ \ {r}]
  BY DEF StillPending, TypeOK
<1>3. /\ tx'[p].todo = tx[p].todo \ {r} /\ tx'[p].closed = tx[p].closed
      /\ tx'[p].gone = tx[p].gone /\ tx'[p].added = tx[p].added
  BY <1>1, <1>2 DEF Transaction
<1>4. tx[p].closed = {}
  BY DEF StillPending, Serial, InTurn, ReplacesAll, Replaces
<1>5. InTurn(p)'
  <2>1. ReplacesAll(p)'
    BY <1>1, <1>3, <1>4 DEF ReplacesAll, StillPending, Serial, InTurn
  <2>2. SchedulerIsCurrent'
    BY <1>1, <1>3, <1>4
       DEF SchedulerIsCurrent, ClosedBy, StillPending, Serial, InTurn, runVars
  <2> QED
    BY <1>1, <2>1, <2>2 DEF InTurn
<1>6. \A q \in Process : q # p => pc'[q] = pc[q] /\ tx'[q] = tx[q]
  BY <1>1 DEF StillPending, TypeOK
<1>7. UNCHANGED <<runVars, rows>> /\ clock' \in Nat /\ clock <= clock'
  BY DEF StillPending, TypeOK
<1> QED
  BY <1>5, <1>6, <1>7, SessionInTurn

\* Finalization is dated after everything in the tables.
LEMMA CloseInTurn ==
  ASSUME TypeOK, Serial, NEW p \in Process, NEW r \in Run, Close(p, r)
  PROVE  Serial'
<1>. PICK t \in Nat : t = clock + 1
  BY DEF TypeOK
<1> DEFINE closing == [tx[p] EXCEPT !.todo = @ \ {r}, !.closed = @ \cup {<<r, t>>}]
           reading == [closing EXCEPT !.run = r, !.at = t]
<1>1. /\ tx[p] \in Transaction /\ clock \in Nat /\ clock' = t
      /\ pc[p] = "list" /\ r \in tx[p].todo
  BY DEF Close, TypeOK
<1>2. tx[p].closed = {} /\ tx[p].todo = {r} /\ tx[p].gone = {} /\ tx[p].added = {}
  BY <1>1 DEF Serial, InTurn, ReplacesAll, Replaces
<1>3. /\ Covered(r) => tx'[p] = reading /\ pc'[p] = "read"
      /\ ~Covered(r) => tx'[p] = closing /\ pc'[p] = "list"
  BY <1>1 DEF Close, TypeOK
<1>4. /\ closing.todo = {} /\ closing.closed = {<<r, t>>}
      /\ closing.gone = {} /\ closing.added = {}
      /\ reading.todo = {} /\ reading.closed = {<<r, t>>}
      /\ reading.gone = {} /\ reading.added = {} /\ reading.run = r /\ reading.at = t
  BY <1>1, <1>2 DEF Transaction
<1> HIDE DEF closing, reading
<1>5. /\ tx'[p].todo = {} /\ tx'[p].closed = {<<r, t>>}
      /\ tx'[p].gone = {} /\ tx'[p].added = {}
      /\ Covered(r) => tx'[p].run = r /\ tx'[p].at = t /\ pc'[p] = "read"
      /\ ~Covered(r) => pc'[p] = "list"
  BY <1>3, <1>4
<1>6. UNCHANGED <<runVars, rows>> /\ clock' \in Nat /\ clock <= clock'
  BY <1>1 DEF Close
<1>7. ClosedBy(p)' = {r}
  BY <1>5 DEF ClosedBy
<1>8. InTurn(p)'
  <2>1. Replaces(p, <<r, t>>)'
    <3>1. \A q \in Run : completedAt[q] < t
      BY <1>1 DEF TypeOK
    <3>2. \A row \in rows : row.last < t
      <4>1. \A row \in rows : row.last \in Nat /\ row.last <= clock
        BY DEF TypeOK, Row, Serial, TableIsLatest
      <4> QED
        BY <1>1, <4>1
    <3> QED
      BY <1>5, <1>6, <3>1, <3>2 DEF Replaces, Covered, runVars
  <2>2. ReplacesAll(p)'
    BY <1>5, <2>1 DEF ReplacesAll
  <2>3. p \in Run => EndsItsRun(p)'
    BY <1>1, <1>2, <1>5, <1>6, <1>7 DEF EndsItsRun, Serial, InTurn, runVars
  <2>4. p = Scheduler => SchedulerIsCurrent'
    BY <1>1, <1>2, <1>5, <1>6, <1>7, Ground
       DEF SchedulerIsCurrent, Serial, InTurn, runVars, Close
  <2> QED
    BY <2>2, <2>3, <2>4 DEF InTurn
<1>9. \A q \in Process : q # p => pc'[q] = pc[q] /\ tx'[q] = tx[q]
  BY DEF Close, TypeOK
<1> QED
  BY <1>6, <1>8, <1>9, SessionInTurn

\* The rows read, locked and replaced are all there are.
LEMMA MaterializeInTurn ==
  ASSUME TypeOK, Serial, NEW p \in Process,
         ReadExisting(p) \/ DeleteBegins(p) \/ DeleteEnds(p)
  PROVE  Serial'
<1>1. tx[p] \in Transaction /\ pc[p] \in {"read", "delete", "deleting"}
  BY DEF ReadExisting, DeleteBegins, DeleteEnds, TypeOK
<1>2. PICK c \in tx[p].closed : TRUE
  BY <1>1 DEF Serial, InTurn, ReplacesAll
<1>3. Replaces(p, c)
  BY <1>2 DEF Serial, InTurn, ReplacesAll
<1>4. tx'[p].closed = tx[p].closed /\ tx'[p].todo = tx[p].todo
  BY <1>1 DEF ReadExisting, DeleteBegins, DeleteEnds, TypeOK, Transaction
<1>5. UNCHANGED <<runVars, rows>> /\ clock' \in Nat /\ clock <= clock'
  BY DEF ReadExisting, DeleteBegins, DeleteEnds, TypeOK
<1>6. pc'[p] \in {"delete", "deleting", "list"}
  BY DEF ReadExisting, DeleteBegins, DeleteEnds, TypeOK
<1>7. Replaces(p, c)'
  <2>1. CASE ReadExisting(p)
    <3>1. View(p) = rows
      BY <1>3, <2>1 DEF ReadExisting, Replaces, View
    <3>2. /\ pc'[p] = "delete" /\ tx'[p].existing = rows /\ tx'[p].run = tx[p].run
          /\ tx'[p].at = tx[p].at /\ tx'[p].gone = tx[p].gone /\ tx'[p].added = tx[p].added
      BY <1>1, <2>1, <3>1 DEF ReadExisting, TypeOK, Transaction
    <3> QED
      BY <1>3, <1>4, <1>5, <2>1, <3>2 DEF Replaces, Covered, runVars, ReadExisting
  <2>2. CASE DeleteBegins(p)
    <3>1. /\ pc'[p] = "deleting" /\ tx'[p].existing = tx[p].existing
          /\ tx'[p].wanted = rows \ tx[p].gone /\ tx'[p].run = tx[p].run
          /\ tx'[p].at = tx[p].at /\ tx'[p].gone = tx[p].gone /\ tx'[p].added = tx[p].added
      BY <1>1, <2>2 DEF DeleteBegins, TypeOK, Transaction
    <3> QED
      BY <1>3, <1>4, <1>5, <2>2, <3>1 DEF Replaces, Covered, runVars, DeleteBegins
  <2>3. CASE DeleteEnds(p)
    <3>1. /\ pc'[p] = "list" /\ tx'[p].gone = tx[p].gone \cup (tx[p].wanted \cap rows)
          /\ tx'[p].added = Replacement(tx[p].run, tx[p].at, tx[p].existing)
      BY <1>1, <2>3 DEF DeleteEnds, TypeOK, Transaction
    <3>2. tx'[p].gone = rows /\ tx'[p].added = Replacement(c[1], c[2], rows) /\ Covered(c[1])
      BY <1>3, <2>3, <3>1 DEF Replaces, DeleteEnds
    <3>3. Replacement(c[1], c[2], rows)' = Replacement(c[1], c[2], rows)
      BY <1>5 DEF Replacement, Remembered, runVars
    <3> QED
      BY <1>3, <1>4, <1>5, <3>1, <3>2, <3>3 DEF Replaces, Covered, runVars
  <2> QED
    BY <2>1, <2>2, <2>3
<1>8. InTurn(p)'
  <2>1. ReplacesAll(p)'
    BY <1>2, <1>3, <1>4, <1>6, <1>7 DEF ReplacesAll, Replaces
  <2>2. ClosedBy(p)' = ClosedBy(p)
    BY <1>4 DEF ClosedBy
  <2>3. p \in Run => EndsItsRun(p)'
    BY <1>1, <1>4, <1>5, <1>6, <2>2 DEF EndsItsRun, Serial, InTurn, runVars
  <2>4. p = Scheduler => SchedulerIsCurrent'
    BY <1>1, <1>4, <1>5, <1>6, <2>2 DEF SchedulerIsCurrent, Serial, InTurn, runVars
  <2> QED
    BY <2>1, <2>3, <2>4 DEF InTurn
<1>9. \A q \in Process : q # p => pc'[q] = pc[q] /\ tx'[q] = tx[q]
  BY DEF ReadExisting, DeleteBegins, DeleteEnds, TypeOK
<1> QED
  BY <1>5, <1>8, <1>9, SessionInTurn

-----------------------------------------------------------------------------
\* A run that starts alone finds everybody idle and the table as it was left.
LEMMA StartInTurn ==
  ASSUME TypeOK, Serial, NEW r \in Run, NEW services \in SUBSET Service,
         NEW result \in {"covered", "gap", "failed"}, StartRun(r, services, result), Still
  PROVE  Serial'
<1>1. \A q \in Run : runStatus[q] # "running"
  BY DEF Still
<1>2. \A p \in Process : pc'[p] = "idle" /\ tx'[p] = NoTransaction
  BY DEF StartRun, Still, Serial, InTurn, ReplacesAll
<1>3. /\ \A q \in Run : q # r => runStatus'[q] = runStatus[q] /\ found'[q] = found[q]
                                 /\ outcome'[q] = outcome[q]
      /\ runStatus'[r] = "running" /\ runStatus[r] = "none"
  BY DEF StartRun, TypeOK
<1>4. OneRunning'
  BY <1>1, <1>3 DEF OneRunning
<1>5. TableIsLatest'
  <2>1. Completed' = Completed /\ r \notin Completed
    BY <1>3 DEF Completed, Covered
  <2>2. Latest(Completed)' = Latest(Completed) /\ Latest(Completed) \subseteq Completed
    BY <2>1 DEF Latest, StartRun
  <2>3. \A q \in Latest(Completed) : found'[q] = found[q]
    BY <1>3, <2>1, <2>2 DEF Completed
  <2> QED
    BY <2>1, <2>2, <2>3 DEF Serial, TableIsLatest, Shows, StartRun
<1>6. ASSUME NEW p \in Process PROVE InTurn(p)'
  BY <1>2 DEF InTurn, ReplacesAll, EndsItsRun, SchedulerIsCurrent, ClosedBy, NoTransaction
<1> QED
  BY <1>4, <1>5, <1>6 DEF Serial

\* The last two shards end without a worker that finalizes.
LEMMA EndInTurn ==
  ASSUME TypeOK, Serial, NEW r \in Run, EndUnfinalized(r)
  PROVE  Serial'
<1>1. /\ \A q \in Run : shardsEnded[q] => shardsEnded'[q]
      /\ \A q \in Run : pc[q] # "idle" => shardsEnded'[q] = shardsEnded[q]
  BY DEF EndUnfinalized, TypeOK
<1>2. \A q \in Process : tx[q].closed \subseteq Run \X Nat
  BY DEF TypeOK, Transaction
<1>3. \A q \in Process : InTurn(q)'
  BY <1>1, <1>2, TurnKept DEF Serial, EndUnfinalized
<1>4. OneRunning'
  BY DEF Serial, OneRunning, EndUnfinalized
<1>5. TableIsLatest'
  BY DEF Serial, TableIsLatest, Completed, Covered, Latest, Shows, EndUnfinalized
<1> QED
  BY <1>3, <1>4, <1>5 DEF Serial

\* What a commit that finalizes run r at t does to the tables.
LEMMA CommitFinalizes ==
  ASSUME TypeOK, Serial, NEW p \in Process, Commit(p), NEW c \in tx[p].closed
  PROVE  /\ c[1] \in Run /\ c[2] \in 1..clock /\ ClosedBy(p) = {c[1]}
         /\ \A q \in Run : q # c[1] => runStatus'[q] = runStatus[q]
                                       /\ completedAt'[q] = completedAt[q]
         /\ runStatus'[c[1]] = IF outcome[c[1]] = "failed" THEN "failed" ELSE "completed"
         /\ completedAt'[c[1]] = c[2]
         /\ rows' = IF Covered(c[1]) THEN Replacement(c[1], c[2], rows) ELSE rows
<1>1. c \in Run \X Nat /\ c[2] \in 1..clock
  BY DEF TypeOK, Transaction
<1>2. Replaces(p, c)
  BY DEF Serial, InTurn, ReplacesAll
<1>3. tx[p].closed = {c}
  BY <1>2 DEF Replaces
<1>4. ClosedBy(p) = {c[1]}
  BY <1>3 DEF ClosedBy
<1>5. completedAt'[c[1]] = c[2]
  <2>1. \A t \in 1..clock : <<c[1], t>> \in tx[p].closed <=> t = c[2]
    BY <1>1, <1>3
  <2>2. (CHOOSE t \in 1..clock : <<c[1], t>> \in tx[p].closed) = c[2]
    BY <1>1, <2>1
  <2> QED
    BY <1>1, <1>4, <2>2 DEF Commit
<1>6. rows' = IF Covered(c[1]) THEN Replacement(c[1], c[2], rows) ELSE rows
  BY <1>2 DEF Commit, View, Replaces
<1> QED
  BY <1>1, <1>4, <1>5, <1>6 DEF Commit

\* The table of the commit is that of its run, which is now the latest.
LEMMA CommitShowsLatest ==
  ASSUME TypeOK, Serial, NEW p \in Process, Commit(p), NEW c \in tx[p].closed
  PROVE  TableIsLatest'
<1> DEFINE r == c[1]
<1>1. /\ r \in Run /\ c[2] \in 1..clock
      /\ \A q \in Run : q # r => runStatus'[q] = runStatus[q] /\ completedAt'[q] = completedAt[q]
      /\ runStatus'[r] = IF outcome[r] = "failed" THEN "failed" ELSE "completed"
      /\ completedAt'[r] = c[2]
      /\ rows' = IF Covered(r) THEN Replacement(r, c[2], rows) ELSE rows
  BY CommitFinalizes
<1>2. \A q \in Run : completedAt[q] < c[2]
  BY DEF Serial, InTurn, ReplacesAll, Replaces
<1>3. UNCHANGED <<found, outcome, clock>>
  BY DEF Commit
<1> HIDE DEF r
<1>4. CASE Covered(r)
  <2>1. r \in Completed'
    BY <1>1, <1>3, <1>4 DEF Completed, Covered
  <2>2. \A q \in Latest(Completed)' : q = r
    <3>1. \A q \in Run : completedAt'[q] \in Nat /\ completedAt[q] \in Nat
      BY <1>1 DEF TypeOK
    <3> QED
      BY <1>1, <1>2, <2>1, <3>1 DEF Latest, Completed
  <2>3. rows' = Replacement(r, c[2], rows)
    BY <1>1, <1>4
  <2>4. /\ {<<row.service, row.run>> : row \in rows'} = found[r] \X {r}
        /\ \A a, b \in rows' : a.service = b.service => a = b
        /\ \A row \in rows' : row.last = c[2]
    BY <2>3, ReplacementTable
  <2>5. Shows(r)'
    BY <1>3, <2>4 DEF Shows
  <2>6. \A row \in rows' : row.last <= clock'
    BY <1>1, <1>3, <2>4 DEF TypeOK
  <2> QED
    BY <2>1, <2>2, <2>4, <2>5, <2>6 DEF TableIsLatest
<1>5. CASE ~Covered(r)
  <2>1. Completed' = Completed /\ r \notin Completed
    BY <1>1, <1>3, <1>5 DEF Completed, Covered
  <2>2. Latest(Completed)' = Latest(Completed)
    BY <1>1, <2>1 DEF Latest, Completed
  <2> QED
    BY <1>1, <1>3, <1>5, <2>1, <2>2 DEF Serial, TableIsLatest, Shows
<1> QED
  BY <1>4, <1>5

\* A commit by who finalizes leaves nobody else in the middle of anything but a
\* scheduler that has yet to look at the run.
LEMMA CommitInTurn ==
  ASSUME TypeOK, Serial, NEW p \in Process, Commit(p)
  PROVE  Serial'
<1>1. pc'[p] = "idle" /\ tx'[p] = NoTransaction
  BY DEF Commit, TypeOK
<1>2. \A q \in Process : q # p => pc'[q] = pc[q] /\ tx'[q] = tx[q]
  BY DEF Commit, TypeOK
<1>3. InTurn(p)'
  BY <1>1, Ground
     DEF InTurn, ReplacesAll, EndsItsRun, SchedulerIsCurrent, ClosedBy, NoTransaction
<1>4. CASE tx[p].closed = {}
  <2>1. ClosedBy(p) = {} /\ tx[p].gone = {} /\ tx[p].added = {}
    BY <1>4 DEF ClosedBy, Serial, InTurn, ReplacesAll
  <2>2. rows' = rows
    BY <2>1 DEF Commit, View
  <2>3. /\ runStatus' = [r \in Run |-> runStatus[r]]
        /\ completedAt' = [r \in Run |-> completedAt[r]]
        /\ shardsEnded' = [r \in Run |-> shardsEnded[r]]
    BY <2>1 DEF Commit, TypeOK
  <2>4. UNCHANGED runVars
    <3>1. runStatus' = runStatus /\ completedAt' = completedAt /\ shardsEnded' = shardsEnded
      BY <2>3 DEF TypeOK
    <3>2. found' = found /\ outcome' = outcome
      BY DEF Commit
    <3> QED
      BY <3>1, <3>2 DEF runVars
  <2>5. clock' \in Nat /\ clock <= clock'
    BY DEF Commit, TypeOK
  <2> QED
    BY <1>2, <1>3, <2>2, <2>4, <2>5, SessionInTurn
<1>5. ASSUME NEW c \in tx[p].closed PROVE Serial'
  <2>1. /\ c[1] \in Run /\ ClosedBy(p) = {c[1]}
        /\ \A q \in Run : runStatus'[q] = "running" => q # c[1] /\ runStatus[q] = "running"
        /\ \A q \in Run : shardsEnded[q] => shardsEnded'[q]
    <3>1. runStatus'[c[1]] # "running"
      BY <1>5, CommitFinalizes
    <3> QED
      BY <1>5, <3>1, CommitFinalizes DEF Commit
  <2>2. OneRunning'
    BY <2>1 DEF Serial, OneRunning
  <2>3. TableIsLatest'
    BY <1>5, CommitShowsLatest
  <2>4. pc[p] = "list"
    BY DEF Commit
  <2>5. ASSUME NEW q \in Run, q # p PROVE EndsItsRun(q)'
    <3>1. pc[q] = "idle"
      <4>1. CASE p \in Run
        BY <2>4, <2>5, <4>1, Ground DEF Serial, InTurn, EndsItsRun, OneRunning
      <4>2. CASE p = Scheduler
        BY <2>1, <2>5, <4>2, Ground DEF Serial, InTurn, EndsItsRun, SchedulerIsCurrent
      <4> QED
        BY <4>1, <4>2, Ground
    <3> QED
      BY <1>2, <2>5, <3>1, Ground DEF EndsItsRun
  <2>6. ASSUME p # Scheduler PROVE SchedulerIsCurrent'
    <3>1. pc[Scheduler] # "start"
      BY <2>4, <2>6, Ground DEF Serial, InTurn, EndsItsRun, SchedulerIsCurrent
    <3>2. tx[Scheduler].closed = {}
      BY <1>5, <2>6, Ground, OneFinalizes
    <3>3. ClosedBy(Scheduler) = {} /\ ClosedBy(Scheduler)' = {}
      BY <1>2, <2>6, <3>2, Ground DEF ClosedBy
    <3> QED
      BY <1>2, <2>1, <2>6, <3>1, <3>3, Ground DEF Serial, InTurn, SchedulerIsCurrent
  <2>7. ASSUME NEW q \in Process, q # p PROVE ReplacesAll(q)'
    <3>1. tx[q].closed = {}
      BY <1>5, <2>7, OneFinalizes
    <3> QED
      BY <1>2, <2>7, <3>1 DEF Serial, InTurn, ReplacesAll
  <2>8. ASSUME NEW q \in Process PROVE InTurn(q)'
    BY <1>3, <2>5, <2>6, <2>7 DEF InTurn
  <2> QED
    BY <2>2, <2>3, <2>8 DEF Serial
<1> QED
  BY <1>4, <1>5

-----------------------------------------------------------------------------
\* Until the first overlap or restart the processes take turns.
LEMMA SerialStep ==
  ASSUME TypeOK, TypeOK', Serial, [Next]_vars, disturbances' = disturbances
  PROVE  Serial'
<1>1. ASSUME NEW r \in Run, NEW services \in SUBSET Service,
             NEW result \in {"covered", "gap", "failed"}, StartRun(r, services, result)
      PROVE  Serial'
  <2>1. Still
    BY <1>1 DEF StartRun, Disturb, TypeOK
  <2> QED
    BY <1>1, <2>1, StartInTurn
<1>2. ASSUME NEW r \in Run, EndUnfinalized(r) PROVE Serial'
  BY <1>2, EndInTurn
<1>3. ASSUME NEW r \in Run, EndFinalizing(r) PROVE Serial'
  BY <1>3, ListInTurn
<1>4. CASE ReconcileRead
  BY <1>4, ListInTurn
<1>5. ASSUME NEW p \in Process, NEW r \in Run, StillPending(p, r) PROVE Serial'
  BY <1>5, PendingInTurn
<1>6. ASSUME NEW p \in Process, NEW r \in Run, Close(p, r) PROVE Serial'
  BY <1>6, CloseInTurn
<1>7. ASSUME NEW r \in Run, Backfill(r) PROVE FALSE
  BY <1>7, Ground
     DEF Backfill, Latest, Completed, Serial, InTurn, SchedulerIsCurrent
<1>8. CASE NothingToBackfill
  <2>1. Scheduler \in Process /\ Scheduler \notin Run
    BY Ground
  <2>2. tx[Scheduler] = NoTransaction /\ pc'[Scheduler] = "idle" /\ tx' = tx
    BY <1>8, <2>1 DEF NothingToBackfill, Serial, InTurn, ReplacesAll, TypeOK
  <2>3. InTurn(Scheduler)'
    BY <2>1, <2>2 DEF InTurn, ReplacesAll, SchedulerIsCurrent, ClosedBy, NoTransaction
  <2>4. \A q \in Process : q # Scheduler => pc'[q] = pc[q] /\ tx'[q] = tx[q]
    BY <1>8 DEF NothingToBackfill, TypeOK
  <2>5. UNCHANGED <<runVars, rows>> /\ clock' \in Nat /\ clock <= clock'
    BY <1>8 DEF NothingToBackfill, TypeOK
  <2> QED
    BY <2>1, <2>3, <2>4, <2>5, SessionInTurn
<1>9. ASSUME NEW p \in Process, ReadExisting(p) \/ DeleteBegins(p) \/ DeleteEnds(p)
      PROVE  Serial'
  BY <1>9, MaterializeInTurn
<1>10. ASSUME NEW p \in Process, Commit(p) PROVE Serial'
  BY <1>10, CommitInTurn
<1>11. ASSUME NEW p \in Process, Reject(p) PROVE FALSE
  BY <1>11, NoClash DEF Reject
<1>12. ASSUME NEW p \in Process, Restart(p) PROVE FALSE
  BY <1>12 DEF Restart, Disturb, TypeOK
<1>13. CASE UNCHANGED vars
  <2>1. UNCHANGED <<runVars, rows, clock, pc, tx>>
    BY <1>13 DEF vars
  <2>2. \A q \in Process : InTurn(q)'
    <3>1. \A q \in Process : tx[q].closed \subseteq Run \X Nat
      BY DEF TypeOK, Transaction
    <3> QED
      BY <2>1, <3>1, TurnKept DEF Serial, runVars
  <2>3. OneRunning' /\ TableIsLatest'
    BY <2>1
       DEF Serial, OneRunning, TableIsLatest, Completed, Covered, Latest, Shows, runVars
  <2> QED
    BY <2>2, <2>3 DEF Serial
<1> QED
  BY <1>1, <1>2, <1>3, <1>4, <1>5, <1>6, <1>7, <1>8, <1>9, <1>10, <1>11, <1>12, <1>13,
     Ground
     DEF Next, WorkerStep, SchedulerStep, Finalize

\* No step takes a disturbance back.
LEMMA DisturbancesKept ==
  ASSUME TypeOK, [Next]_vars, disturbances' = 0
  PROVE  disturbances = 0
<1>1. ASSUME NEW kind, Disturb(kind) PROVE FALSE
  BY <1>1 DEF Disturb, TypeOK
<1>2. ASSUME NEW r \in Run, NEW services \in SUBSET Service,
             NEW result \in {"covered", "gap", "failed"}, StartRun(r, services, result)
      PROVE  disturbances = 0
  BY <1>1, <1>2 DEF StartRun
<1>3. ASSUME NEW p \in Process, Finalize(p) PROVE disturbances = 0
  BY <1>3
     DEF Finalize, StillPending, Close, ReadExisting, DeleteBegins, DeleteEnds, Commit,
         Reject
<1>4. ASSUME NEW p \in Process, Restart(p) PROVE FALSE
  BY <1>1, <1>4 DEF Restart
<1>5. CASE UNCHANGED vars
  BY <1>5 DEF vars
<1> QED
  BY <1>2, <1>3, <1>4, <1>5, Ground
     DEF Next, WorkerStep, SchedulerStep, EndUnfinalized, EndFinalizing, Backfill,
         NothingToBackfill, ReconcileRead

\* At the start nothing runs and nothing is shown.
LEMMA InitSerial == Init => Serial
<1> SUFFICES ASSUME Init PROVE Serial
  OBVIOUS
<1>1. OneRunning /\ TableIsLatest
  BY DEF Init, OneRunning, TableIsLatest, Completed, Latest
<1>2. ASSUME NEW p \in Process PROVE InTurn(p)
  BY Ground
     DEF Init, InTurn, ReplacesAll, EndsItsRun, SchedulerIsCurrent, ClosedBy, NoTransaction
<1> QED
  BY <1>1, <1>2 DEF Serial

\* While nothing overlaps and nothing is restarted, one process at a time is in the
\* middle of a finalization, and it has the whole table for itself.
THEOREM RunsTakeTurns == Spec => []SerialInv
<1>1. Init => SerialInv
  BY InitSerial DEF SerialInv
<1>2. TypeOK /\ TypeOK' /\ SerialInv /\ [Next]_vars => SerialInv'
  <2> SUFFICES ASSUME TypeOK, TypeOK', SerialInv, [Next]_vars, disturbances' = 0
               PROVE  Serial'
    BY DEF SerialInv
  <2>1. disturbances = 0
    BY DisturbancesKept
  <2> QED
    BY <2>1, SerialStep DEF SerialInv
<1> QED
  BY <1>1, <1>2, TypeCorrect, PTL DEF Spec

\* Runs that do not overlap leave the inventory of the latest covered one, also
\* when the scheduler finalizes a run again that it has read before its worker did
\* (finalize_terminal_run, reconcile_terminal_runs).
THEOREM SequentialRunsShown == Spec => []SequentialRunsShowLatest
<1>1. SerialInv => SequentialRunsShowLatest
  BY DEF SerialInv, Serial, TableIsLatest, Shows, SequentialRunsShowLatest, ShowsLatest
<1> QED
  BY <1>1, RunsTakeTurns, PTL

\* A row that is replaced hands on when its service was first seen; its last
\* sighting moves on and its count grows by the run (materialize_current_exposures).
THEOREM HistoryIsKept == Spec => HistoryKept
<1> DEFINE Handed == \A a \in rows, b \in rows' :
                       a.service = b.service /\ a # b =>
                         b.first = a.first /\ b.last > a.last /\ b.count > a.count
<1>1. ASSUME TypeOK, Serial, NEW p \in Process, Commit(p) PROVE Handed
  <2>1. CASE tx[p].closed = {}
    <3>1. rows' = rows
      BY <1>1, <2>1 DEF Commit, View, Serial, InTurn, ReplacesAll
    <3> QED
      BY <1>1, <3>1 DEF Serial, TableIsLatest
  <2>2. ASSUME NEW c \in tx[p].closed, ~Covered(c[1]) PROVE Handed
    <3>1. rows' = rows
      BY <1>1, <2>2, CommitFinalizes
    <3> QED
      BY <1>1, <3>1 DEF Serial, TableIsLatest
  <2>3. ASSUME NEW c \in tx[p].closed, Covered(c[1]),
               NEW a \in rows, NEW b \in rows', a.service = b.service
        PROVE  b.first = a.first /\ b.last > a.last /\ b.count > a.count
    <3>1. b \in Replacement(c[1], c[2], rows)
      BY <1>1, <2>3, CommitFinalizes
    <3>2. Remembered(rows, a.service) = {a}
      BY <1>1 DEF Remembered, Serial, TableIsLatest
    <3>3. b = [service |-> a.service, run |-> c[1], last |-> c[2],
               first |-> a.first, count |-> a.count + 1]
      <4>1. (CHOOSE o \in Remembered(rows, a.service) : TRUE) = a
        BY <3>2
      <4> QED
        BY <2>3, <3>1, <3>2, <4>1 DEF Replacement
    <3>4. a.last < c[2] /\ a.count \in Nat
      BY <1>1 DEF Serial, InTurn, ReplacesAll, Replaces, TypeOK, Row
    <3>5. a.last \in Nat /\ c[2] \in Nat
      BY <1>1 DEF TypeOK, Row, Transaction
    <3> QED
      BY <3>3, <3>4, <3>5
  <2> QED
    BY <2>1, <2>2, <2>3
<1>2. ASSUME TypeOK, SerialInv, [Next]_vars, disturbances' = 0 PROVE Handed
  <2>1. Serial
    BY <1>2, DisturbancesKept DEF SerialInv
  <2>2. CASE rows' = rows
    BY <2>1, <2>2 DEF Serial, TableIsLatest
  <2>3. rows' = rows \/ \E p \in Process : Commit(p)
    BY <1>2, Ground
       DEF Next, WorkerStep, SchedulerStep, Finalize, EndUnfinalized, EndFinalizing,
           Backfill, NothingToBackfill, ReconcileRead, StillPending, Close,
           ReadExisting, DeleteBegins, DeleteEnds, Reject, Restart, Abort, StartRun, vars
  <2> QED
    BY <1>1, <1>2, <2>1, <2>2, <2>3
<1>3. TypeOK /\ SerialInv /\ [Next]_vars => [disturbances' = 0 => Handed]_vars
  BY <1>2
<1> QED
  BY <1>3, TypeCorrect, RunsTakeTurns, PTL DEF Spec, HistoryKept

=============================================================================
