-------------------------- MODULE SchedulesProofs --------------------------
(***************************************************************************)
(* The safety of Schedules for every set of schedules, all intervals and   *)
(* any number of losses of the scheduler, checked by TLAPS.                *)
(***************************************************************************)
EXTENDS Schedules, TLAPS

\* The scheduler has one schedule in hand between its two commits, and the row
\* locks of its list only before the first of them.
PassShape ==
  /\ pc = "sleep" => due = {} /\ current = {}
  /\ pc = "create" => current = {}
  /\ \A r, s \in current : r = s
  /\ current \cap due = {}

\* What the list or the scheduler's hand holds was due when the pass began.
ListIsDue == \A s \in due \cup current : nextRunAt[s] <= now

\* No run was created after its disabling for a schedule that is not disabled,
\* or is still to come in the list.
NoneAfterwards ==
  \A s \in Schedule : s \in enabled \cup due \/ s \notin schedules => afterwards[s] = 0

IInv == TypeOK /\ PassShape /\ ListIsDue /\ OneRunPerInstant /\ NoneAfterwards /\ DisabledStops

-----------------------------------------------------------------------------
\* The next instant is later than the clock's reading, by at most one interval,
\* and later than the instant before (the loop of dispatch_due_schedules).
LEMMA NextRunAfter ==
  ASSUME NEW s \in Schedule, NEW planned \in Nat, NEW t \in Nat, planned <= t
  PROVE  /\ NextRun(s, planned, t) \in Nat
         /\ NextRun(s, planned, t) > t
         /\ NextRun(s, planned, t) - Interval[s] <= t
         /\ NextRun(s, planned, t) > planned
         /\ (NextRun(s, planned, t) - planned) % Interval[s] = 0
<1> DEFINE i == Interval[s]
           q == (t - planned) \div i
<1>1. i \in Nat \ {0}
  BY IntervalAssumption
<1>2. q \in Nat /\ i * q <= t - planned /\ t - planned < i * q + i
  <2> HIDE DEF i
  <2> QED BY <1>1
<1>3. NextRun(s, planned, t) = planned + i + i * q
  <2>1. i * (1 + q) = i + i * q
    <3> HIDE DEF i, q
    <3> QED BY <1>1, <1>2
  <2> QED BY <2>1, <1>1, <1>2 DEF NextRun
<1>4. (i + i * q) % i = 0
  <2> HIDE DEF i, q
  <2> QED BY <1>1, <1>2
<1>5. i * q \in Nat
  <2> HIDE DEF i, q
  <2> QED BY <1>1, <1>2
<1> HIDE DEF i, q
<1>6. /\ NextRun(s, planned, t) \in Nat
      /\ NextRun(s, planned, t) > t
      /\ NextRun(s, planned, t) - i <= t
      /\ NextRun(s, planned, t) > planned
      /\ NextRun(s, planned, t) - planned = i + i * q
  BY <1>1, <1>2, <1>3, <1>5
<1> QED BY <1>4, <1>6 DEF i

-----------------------------------------------------------------------------
\* In StoreNext the schedule in hand is due, so its next instant is later.
LEMMA StoreMovesOn ==
  ASSUME TypeOK, ListIsDue, NEW s \in Schedule, Store(s)
  PROVE  /\ nextRunAt'[s] \in Nat
         /\ nextRunAt'[s] > now
         /\ nextRunAt'[s] - Interval[s] <= now
         /\ nextRunAt'[s] > nextRunAt[s]
         /\ (nextRunAt'[s] - nextRunAt[s]) % Interval[s] = 0
         /\ nextRunAt' = [nextRunAt EXCEPT ![s] = nextRunAt'[s]]
<1>1. nextRunAt[s] \in Nat /\ now \in Nat /\ nextRunAt[s] <= now
  BY BoundAssumption DEF TypeOK, ListIsDue, Store
<1>2. nextRunAt'[s] = NextRun(s, nextRunAt[s], now)
  BY DEF TypeOK, Store
<1>3. nextRunAt' = [nextRunAt EXCEPT ![s] = nextRunAt'[s]]
  BY <1>2 DEF Store
<1> QED BY <1>1, <1>2, <1>3, NextRunAfter

\* Every step keeps the types.
LEMMA TypeKept ==
  ASSUME TypeOK, ListIsDue, [Next]_vars
  PROVE  TypeOK'
<1> USE DEF TypeOK
<1>1. ASSUME Tick PROVE TypeOK'
  BY <1>1, BoundAssumption DEF Tick, rowVars, passVars, historyVars
<1>2. ASSUME SelectDue PROVE TypeOK'
  BY <1>2, BoundAssumption DEF SelectDue, Selectable, rowVars, passVars, historyVars
<1>3. ASSUME NEW s \in Schedule, CreateRun(s) PROVE TypeOK'
  <2>1. started' \in [Schedule -> Nat] /\ afterwards' \in [Schedule -> Nat]
    BY <1>3 DEF CreateRun
  <2>2. due' \subseteq schedules' /\ current' \subseteq schedules'
    BY <1>3 DEF CreateRun, rowVars
  <2> QED BY <1>3, <2>1, <2>2 DEF CreateRun, rowVars
<1>4. ASSUME NEW s \in Schedule, StoreNext(s) PROVE TypeOK'
  <2>1. nextRunAt' \in [Schedule -> Nat]
    BY <1>4, StoreMovesOn DEF StoreNext
  <2>2. started' \in [Schedule -> Nat]
    BY <1>4 DEF StoreNext, Store
  <2> QED BY <1>4, <2>1, <2>2 DEF StoreNext, Store
<1>5. ASSUME Crash PROVE TypeOK'
  <2>1. crashes' \in 0..MaxCrashes
    BY <1>5, BoundAssumption DEF Crash
  <2> QED BY <1>5, <2>1 DEF Crash, EndProcess, rowVars, historyVars
<1>6. ASSUME NEW s \in Schedule, DisableWrite(s) PROVE TypeOK'
  BY <1>6, BoundAssumption DEF DisableWrite, rowVars, passVars, historyVars
<1>7. ASSUME NEW s \in Schedule, DisableCommit(s) PROVE TypeOK'
  BY <1>7, BoundAssumption DEF DisableCommit, rowVars, passVars, historyVars
<1>8. ASSUME NEW s \in Schedule, NEW first \in 0..MaxTime, AddSchedule(s, first) PROVE TypeOK'
  BY <1>8, BoundAssumption DEF AddSchedule, rowVars, passVars, historyVars
<1>9. ASSUME NEW s \in Schedule, CreateRunFails(s) PROVE TypeOK'
  BY <1>9, BoundAssumption DEF CreateRunFails, EndProcess, rowVars, historyVars
<1>10. CASE UNCHANGED vars
  BY <1>10 DEF vars, rowVars, passVars, historyVars
<1> QED BY <1>1, <1>2, <1>3, <1>4, <1>5, <1>6, <1>7, <1>8, <1>9, <1>10 DEF Next, Pass

\* The scheduler works on one schedule at a time.
LEMMA ShapeKept ==
  ASSUME TypeOK, PassShape, [Next]_vars
  PROVE  PassShape'
<1> USE DEF PassShape
<1>1. ASSUME Tick PROVE PassShape'
  BY <1>1 DEF Tick, rowVars, passVars, historyVars
<1>2. ASSUME SelectDue PROVE PassShape'
  BY <1>2 DEF SelectDue, Selectable, rowVars, passVars, historyVars
<1>3. ASSUME NEW s \in Schedule, CreateRun(s) PROVE PassShape'
  BY <1>3 DEF CreateRun, rowVars, passVars, historyVars
<1>4. ASSUME NEW s \in Schedule, StoreNext(s) PROVE PassShape'
  BY <1>4 DEF StoreNext, Store, rowVars, passVars, historyVars
<1>5. ASSUME Crash PROVE PassShape'
  BY <1>5 DEF Crash, EndProcess, rowVars, passVars, historyVars
<1>6. ASSUME NEW s \in Schedule, DisableWrite(s) PROVE PassShape'
  BY <1>6 DEF DisableWrite, rowVars, passVars, historyVars
<1>7. ASSUME NEW s \in Schedule, DisableCommit(s) PROVE PassShape'
  BY <1>7 DEF DisableCommit, rowVars, passVars, historyVars
<1>8. ASSUME NEW s \in Schedule, NEW first \in 0..MaxTime, AddSchedule(s, first) PROVE PassShape'
  BY <1>8 DEF AddSchedule, rowVars, passVars, historyVars
<1>9. ASSUME NEW s \in Schedule, CreateRunFails(s) PROVE PassShape'
  BY <1>9 DEF CreateRunFails, EndProcess, rowVars, passVars, historyVars
<1>10. CASE UNCHANGED vars
  BY <1>10 DEF vars, rowVars, passVars, historyVars
<1> QED BY <1>1, <1>2, <1>3, <1>4, <1>5, <1>6, <1>7, <1>8, <1>9, <1>10 DEF Next, Pass

\* A schedule of the list stays due: only the scheduler moves next_run_at.
LEMMA ListKept ==
  ASSUME TypeOK, PassShape, ListIsDue, [Next]_vars
  PROVE  ListIsDue'
<1> USE DEF ListIsDue
<1>1. ASSUME Tick PROVE ListIsDue'
  BY <1>1, BoundAssumption DEF Tick, rowVars, passVars, historyVars
<1>2. ASSUME SelectDue PROVE ListIsDue'
  BY <1>2, BoundAssumption DEF SelectDue, Selectable, TypeOK, PassShape, rowVars
<1>3. ASSUME NEW s \in Schedule, CreateRun(s) PROVE ListIsDue'
  BY <1>3, BoundAssumption DEF CreateRun, rowVars, passVars, historyVars
<1>4. ASSUME NEW s \in Schedule, StoreNext(s) PROVE ListIsDue'
  BY <1>4 DEF StoreNext, Store, TypeOK, PassShape
<1>5. ASSUME Crash PROVE ListIsDue'
  BY <1>5, BoundAssumption DEF Crash, EndProcess, rowVars, passVars, historyVars
<1>6. ASSUME NEW s \in Schedule, DisableWrite(s) PROVE ListIsDue'
  BY <1>6, BoundAssumption DEF DisableWrite, rowVars, passVars, historyVars
<1>7. ASSUME NEW s \in Schedule, DisableCommit(s) PROVE ListIsDue'
  BY <1>7, BoundAssumption DEF DisableCommit, rowVars, passVars, historyVars
<1>8. ASSUME NEW s \in Schedule, NEW first \in 0..MaxTime, AddSchedule(s, first) PROVE ListIsDue'
  BY <1>8 DEF AddSchedule, TypeOK, passVars
<1>9. ASSUME NEW s \in Schedule, CreateRunFails(s) PROVE ListIsDue'
  BY <1>9, BoundAssumption DEF CreateRunFails, EndProcess, rowVars, passVars, historyVars
<1>10. CASE UNCHANGED vars
  BY <1>10 DEF vars, rowVars, passVars, historyVars
<1> QED BY <1>1, <1>2, <1>3, <1>4, <1>5, <1>6, <1>7, <1>8, <1>9, <1>10 DEF Next, Pass

\* A run is counted twice for one instant only across a crash.
LEMMA OneRunKept ==
  ASSUME TypeOK, PassShape, ListIsDue, OneRunPerInstant, [Next]_vars
  PROVE  OneRunPerInstant'
<1> USE DEF OneRunPerInstant
<1>1. ASSUME Tick PROVE OneRunPerInstant'
  BY <1>1 DEF Tick, rowVars, passVars, historyVars
<1>2. ASSUME SelectDue PROVE OneRunPerInstant'
  BY <1>2 DEF SelectDue, historyVars
<1>3. ASSUME NEW s \in Schedule, CreateRun(s) PROVE OneRunPerInstant'
  BY <1>3, BoundAssumption DEF CreateRun, TypeOK, PassShape
<1>4. ASSUME NEW s \in Schedule, StoreNext(s) PROVE OneRunPerInstant'
  <2>1. nextRunAt'[s] # nextRunAt[s]
    BY <1>4, StoreMovesOn DEF StoreNext, TypeOK
  <2>2. started' = [started EXCEPT ![s] = 0] /\ current' = {} /\ crashes' = crashes
    BY <1>4, <2>1 DEF StoreNext, Store
  <2>3. \A r \in Schedule : r # s => r \notin current
    BY <1>4 DEF StoreNext, Store, PassShape
  <2> QED BY <2>2, <2>3, BoundAssumption DEF TypeOK
<1>5. ASSUME Crash PROVE OneRunPerInstant'
  BY <1>5, BoundAssumption DEF Crash, EndProcess, TypeOK, historyVars
<1>6. ASSUME NEW s \in Schedule, DisableWrite(s) PROVE OneRunPerInstant'
  BY <1>6 DEF DisableWrite, rowVars, passVars, historyVars
<1>7. ASSUME NEW s \in Schedule, DisableCommit(s) PROVE OneRunPerInstant'
  BY <1>7 DEF DisableCommit, rowVars, passVars, historyVars
<1>8. ASSUME NEW s \in Schedule, NEW first \in 0..MaxTime, AddSchedule(s, first) PROVE OneRunPerInstant'
  BY <1>8 DEF AddSchedule, rowVars, passVars, historyVars
<1>9. ASSUME NEW s \in Schedule, CreateRunFails(s) PROVE OneRunPerInstant'
  BY <1>9, BoundAssumption DEF CreateRunFails, EndProcess, TypeOK, PassShape, historyVars
<1>10. CASE UNCHANGED vars
  BY <1>10 DEF vars, rowVars, passVars, historyVars
<1> QED BY <1>1, <1>2, <1>3, <1>4, <1>5, <1>6, <1>7, <1>8, <1>9, <1>10 DEF Next, Pass

\* A run after the disabling takes the schedule off the list for good.
LEMMA AfterwardsKept ==
  ASSUME TypeOK, PassShape, NoneAfterwards, DisabledStops, [Next]_vars
  PROVE  NoneAfterwards' /\ DisabledStops'
<1> USE DEF NoneAfterwards, DisabledStops
<1>1. ASSUME Tick PROVE NoneAfterwards' /\ DisabledStops'
  BY <1>1 DEF Tick, rowVars, passVars, historyVars
<1>2. ASSUME SelectDue PROVE NoneAfterwards' /\ DisabledStops'
  BY <1>2 DEF SelectDue, Selectable, rowVars, passVars, historyVars
<1>3. ASSUME NEW s \in Schedule, CreateRun(s) PROVE NoneAfterwards' /\ DisabledStops'
  BY <1>3 DEF CreateRun, TypeOK, PassShape, rowVars
<1>4. ASSUME NEW s \in Schedule, StoreNext(s) PROVE NoneAfterwards' /\ DisabledStops'
  BY <1>4 DEF StoreNext, Store, TypeOK
<1>5. ASSUME Crash PROVE NoneAfterwards' /\ DisabledStops'
  BY <1>5 DEF Crash, EndProcess, rowVars, passVars, historyVars
<1>6. ASSUME NEW s \in Schedule, DisableWrite(s) PROVE NoneAfterwards' /\ DisabledStops'
  BY <1>6 DEF DisableWrite, rowVars, passVars, historyVars
<1>7. ASSUME NEW s \in Schedule, DisableCommit(s) PROVE NoneAfterwards' /\ DisabledStops'
  BY <1>7 DEF DisableCommit, rowVars, passVars, historyVars
<1>8. ASSUME NEW s \in Schedule, NEW first \in 0..MaxTime, AddSchedule(s, first) PROVE NoneAfterwards' /\ DisabledStops'
  BY <1>8 DEF AddSchedule, rowVars, passVars, historyVars
<1>9. ASSUME NEW s \in Schedule, CreateRunFails(s) PROVE NoneAfterwards' /\ DisabledStops'
  BY <1>9 DEF CreateRunFails, EndProcess, rowVars, passVars, historyVars
<1>10. CASE UNCHANGED vars
  BY <1>10 DEF vars, rowVars, passVars, historyVars
<1> QED BY <1>1, <1>2, <1>3, <1>4, <1>5, <1>6, <1>7, <1>8, <1>9, <1>10 DEF Next, Pass

\* The inductive invariant holds of every behaviour: the scheduler has one due
\* schedule in hand, and a disabled schedule leaves the list once.
THEOREM Invariance == Spec => []IInv
<1>1. Init => IInv
  <2> SUFFICES ASSUME Init PROVE IInv
    OBVIOUS
  <2>1. TypeOK
    <3>1. 0 \in 0..MaxTime /\ 0 \in 0..MaxCrashes
      BY BoundAssumption
    <3>2. /\ nextRunAt \in [Schedule -> Nat] /\ started \in [Schedule -> Nat]
          /\ afterwards \in [Schedule -> Nat]
      BY DEF Init
    <3> QED BY <3>1, <3>2 DEF Init, TypeOK
  <2>2. PassShape /\ ListIsDue
    BY DEF Init, PassShape, ListIsDue
  <2>3. OneRunPerInstant /\ NoneAfterwards /\ DisabledStops
    BY DEF Init, OneRunPerInstant, NoneAfterwards, DisabledStops
  <2> QED BY <2>1, <2>2, <2>3 DEF IInv
<1>2. IInv /\ [Next]_vars => IInv'
  BY TypeKept, ShapeKept, ListKept, OneRunKept, AfterwardsKept DEF IInv
<1> QED BY <1>1, <1>2, PTL DEF Spec

\* Every variable keeps its type (the instants stay natural numbers).
THEOREM TypeCorrect == Spec => []TypeOK
<1>1. IInv => TypeOK
  BY DEF IInv
<1> QED BY <1>1, Invariance, PTL

\* A due instant is served by one run and one more per loss of the scheduler.
THEOREM OncePerInstant == Spec => []OneRunPerInstant
<1>1. IInv => OneRunPerInstant
  BY DEF IInv
<1> QED BY <1>1, Invariance, PTL

\* A disabled schedule has at most one more run.
THEOREM DisablingWorks == Spec => []DisabledStops
<1>1. IInv => DisabledStops
  BY DEF IInv
<1> QED BY <1>1, Invariance, PTL

\* A step that moves next_run_at skips missed instants and no others.
THEOREM MissedAreSkipped == Spec => SkipsOnlyMissed
<1> DEFINE Moves == \A s \in schedules : nextRunAt'[s] # nextRunAt[s] =>
                      /\ nextRunAt'[s] > now
                      /\ nextRunAt'[s] - Interval[s] <= now
                      /\ nextRunAt'[s] > nextRunAt[s]
                      /\ (nextRunAt'[s] - nextRunAt[s]) % Interval[s] = 0
<1>1. ASSUME IInv, Next PROVE Moves
  <2> SUFFICES ASSUME NEW r \in schedules, nextRunAt'[r] # nextRunAt[r]
               PROVE  \E s \in Schedule : StoreNext(s) /\ r = s
    <3>1. TypeOK /\ ListIsDue
      BY <1>1 DEF IInv
    <3> QED BY <3>1, StoreMovesOn DEF StoreNext
  <2>1. nextRunAt \in [Schedule -> Nat] /\ r \in Schedule
    BY <1>1 DEF IInv, TypeOK
  <2>2. ASSUME NEW s \in Schedule, NEW first \in 0..MaxTime, AddSchedule(s, first)
        PROVE  FALSE
    BY <2>1, <2>2 DEF AddSchedule
  <2>3. ASSUME NEW s \in Schedule, StoreNext(s) PROVE r = s
    BY <2>1, <2>3 DEF StoreNext, Store
  <2> QED BY <1>1, <2>2, <2>3
          DEF Next, Pass, Tick, SelectDue, CreateRun, CreateRunFails, Crash, EndProcess,
              DisableWrite, DisableCommit, rowVars
<1>2. IInv /\ [Next]_vars => [Moves]_vars
  BY <1>1
<1> QED BY <1>2, Invariance, PTL DEF Spec, SkipsOnlyMissed
=============================================================================
