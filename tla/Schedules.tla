----------------------------- MODULE Schedules -----------------------------
(***************************************************************************)
(* Recurring schedules: the scheduler selects those that are due, creates  *)
(* a run for each, and moves each to its next instant.                     *)
(*                                                                         *)
(* The creation of a run and the storing of next_run_at are two commits,   *)
(* and the first of them gives up the row locks of the SELECT ... FOR      *)
(* UPDATE that found the whole list.  The list keeps what was read: an     *)
(* operator's disabling in between is not seen.  There is one scheduler    *)
(* process (scheduler.py:1; the chart deploys it with strategy Recreate).  *)
(* A scope that cannot be sharded is refused by create_run and by nobody   *)
(* before it; the scheduler does not handle the exception and ends.        *)
(* What a run does once it is created is ScanRun.                          *)
(***************************************************************************)
EXTENDS Integers

CONSTANTS
  Schedule,     \* the schedules an operator may add
  Interval,     \* interval_minutes of each, in ticks of the clock
  Unshardable,  \* those of them whose scope shard_cidr refuses
  MaxTime,      \* the clock's last reading: a bound
  MaxCrashes    \* how often the scheduler is lost: a bound

ASSUME IntervalAssumption == Interval \in [Schedule -> Nat \ {0}]
ASSUME ScopeAssumption == Unshardable \subseteq Schedule
ASSUME BoundAssumption == MaxTime \in Nat /\ MaxCrashes \in Nat

VARIABLES
  clock,        \* the time
  schedules,    \* the rows of scan_schedules
  enabled,      \* those of them that are enabled
  nextRunAt,    \* next_run_at of each
  disabling,    \* rows written by a disable that has not committed
  pc,           \* where the scheduler is: "sleep", "create" or "store"
  now,          \* the clock as this pass has read it
  due,          \* the list of this pass: schedules still to come
  current,      \* the schedule whose run was created last
  locks,        \* the row locks of the list are still held
  started,      \* history: runs created since next_run_at was last stored
  afterwards,   \* history: runs created after the schedule was disabled
  crashes       \* how often the scheduler was lost

rowVars == <<schedules, enabled, nextRunAt, disabling>>
passVars == <<pc, now, due, current, locks>>
historyVars == <<started, afterwards>>
vars == <<clock, rowVars, passVars, historyVars, crashes>>

-----------------------------------------------------------------------------
\* The instant after planned: the first one of its grid that is later than t,
\* which is what adding the interval until next_run > now comes to.  Mutants: the
\* loop starts at planned and stops at t itself; the next run counts from t.
NextRunFromPlanned(s, planned, t) ==
  planned + Interval[s] * ((t - planned + Interval[s] - 1) \div Interval[s])
NextRunFromNow(s, planned, t) == t + Interval[s]
NextRun(s, planned, t) == planned + Interval[s] * (1 + (t - planned) \div Interval[s])

\* The rows of the list that the scheduler keeps others from writing.
LockedByScheduler == IF locks THEN due ELSE {}

Init ==
  /\ clock = 0
  /\ schedules = {} /\ enabled = {} /\ disabling = {}
  /\ nextRunAt = [s \in Schedule |-> 0]
  /\ pc = "sleep" /\ now = 0 /\ due = {} /\ current = {} /\ locks = FALSE
  /\ started = [s \in Schedule |-> 0]
  /\ afterwards = [s \in Schedule |-> 0]
  /\ crashes = 0

Tick ==
  /\ clock < MaxTime
  /\ clock' = clock + 1
  /\ UNCHANGED <<rowVars, passVars, historyVars, crashes>>

-----------------------------------------------------------------------------
\* The operator.

\* first_run_at may be in the past or in the future; without it, it is now.
AddSchedule(s, first) ==
  /\ s \notin schedules
  /\ schedules' = schedules \cup {s}
  /\ enabled' = enabled \cup {s}
  /\ nextRunAt' = [nextRunAt EXCEPT ![s] = first]
  /\ UNCHANGED <<clock, disabling, passVars, historyVars, crashes>>

\* The UPDATE waits for the scheduler's row lock and takes its own; for a schedule
\* that is disabled there is none.  Mutant: there is.
DisableWriteAgain(s) ==
  /\ s \in schedules \ (disabling \cup LockedByScheduler)
  /\ disabling' = disabling \cup {s}
  /\ UNCHANGED <<clock, schedules, enabled, nextRunAt, passVars, historyVars, crashes>>

DisableWrite(s) ==
  /\ s \in enabled \ (disabling \cup LockedByScheduler)
  /\ disabling' = disabling \cup {s}
  /\ UNCHANGED <<clock, schedules, enabled, nextRunAt, passVars, historyVars, crashes>>

DisableCommit(s) ==
  /\ s \in disabling
  /\ disabling' = disabling \ {s}
  /\ enabled' = enabled \ {s}
  /\ UNCHANGED <<clock, schedules, nextRunAt, passVars, historyVars, crashes>>

-----------------------------------------------------------------------------
\* The scheduler's pass over the schedules.

\* FOR UPDATE SKIP LOCKED: a row somebody is writing is left for the next pass.
\* Mutant: disabled schedules are selected too.
SelectableDisabled(s) == s \in schedules \ disabling /\ nextRunAt[s] <= clock
Selectable(s) == s \in enabled \ disabling /\ nextRunAt[s] <= clock

SelectDue ==
  /\ pc = "sleep"
  /\ \E s \in schedules : Selectable(s)
  /\ due' = {s \in schedules : Selectable(s)}
  /\ now' = clock
  /\ locks' = TRUE
  /\ pc' = "create"
  /\ UNCHANGED <<clock, rowVars, current, historyVars, crashes>>

\* The process ends in the middle of a pass: its session is rolled back, and it is
\* started again.
EndProcess ==
  /\ pc' = "sleep" /\ due' = {} /\ current' = {} /\ locks' = FALSE
  /\ UNCHANGED <<clock, rowVars, now, historyVars>>

\* shard_cidr raises in create_run, and nothing in the loop or around it catches it.
CreateRunFails(s) ==
  /\ pc = "create"
  /\ s \in due \cap Unshardable
  /\ EndProcess
  /\ UNCHANGED crashes

\* create_run commits the run, and with it every lock of the list is given up.
CreateRun(s) ==
  /\ pc = "create"
  /\ s \in due \ Unshardable
  /\ started' = [started EXCEPT ![s] = @ + 1]
  /\ afterwards' = [afterwards EXCEPT ![s] = IF s \in enabled THEN @ ELSE @ + 1]
  /\ current' = {s}
  /\ due' = due \ {s}
  /\ locks' = FALSE
  /\ pc' = "store"
  /\ UNCHANGED <<clock, rowVars, now, crashes>>

\* The second commit; its UPDATE waits for an operator who is writing the row.
\* Mutant: it waits for the row to be enabled.
Store(s) ==
  /\ pc = "store"
  /\ s \in current
  /\ nextRunAt' = [nextRunAt EXCEPT ![s] = NextRun(s, nextRunAt[s], now)]
  /\ started' = [started EXCEPT ![s] = IF nextRunAt'[s] = nextRunAt[s] THEN @ ELSE 0]
  /\ current' = {}
  /\ pc' = IF due = {} THEN "sleep" ELSE "create"
  /\ UNCHANGED <<clock, schedules, enabled, disabling, now, due, locks, afterwards, crashes>>

StoreNextIfEnabled(s) == s \in enabled /\ Store(s)
StoreNext(s) == s \notin disabling /\ Store(s)

Crash ==
  /\ crashes < MaxCrashes
  /\ pc # "sleep"
  /\ crashes' = crashes + 1
  /\ EndProcess

Pass == SelectDue \/ \E s \in Schedule : CreateRun(s) \/ CreateRunFails(s) \/ StoreNext(s)

Next ==
  \/ Tick \/ Pass \/ Crash
  \/ \E s \in Schedule :
       DisableWrite(s) \/ DisableCommit(s) \/ \E first \in 0..MaxTime : AddSchedule(s, first)

Spec == Init /\ [][Next]_vars

\* The scheduler passes over the schedules every 30 seconds, and a request that
\* has written commits.  Nothing else has to happen.
FairSpec ==
  Spec /\ WF_vars(Pass) /\ \A s \in Schedule : WF_vars(DisableCommit(s))

-----------------------------------------------------------------------------
\* Every variable holds a value of its type.
TypeOK ==
  /\ clock \in 0..MaxTime /\ now \in 0..MaxTime
  /\ schedules \subseteq Schedule /\ enabled \subseteq schedules
  /\ disabling \subseteq enabled
  /\ nextRunAt \in [Schedule -> Nat]
  /\ pc \in {"sleep", "create", "store"}
  /\ due \subseteq schedules /\ current \subseteq schedules
  /\ locks \in BOOLEAN
  /\ started \in [Schedule -> Nat] /\ afterwards \in [Schedule -> Nat]
  /\ crashes \in 0..MaxCrashes

\* A due instant is served by one run, and by one more for each time the
\* scheduler was lost: whatever the passes, ticks and operators do, only the
\* gap between the two commits duplicates a run (dispatch_due_schedules).
OneRunPerInstant ==
  \A s \in Schedule : started[s] <= crashes + (IF s \in current THEN 1 ELSE 0)

\* Once the operator's disabling has committed, at most the run of the list that
\* was selected before it is still created (disable_schedule).
DisabledStops == \A s \in Schedule : afterwards[s] <= 1

\* next_run_at only moves forward on its grid, ends after the instant the pass
\* has read, and passes over no instant that was still to come: missed runs are
\* skipped, later ones are not (dispatch_due_schedules).
SkipsOnlyMissed ==
  [][\A s \in schedules : nextRunAt'[s] # nextRunAt[s] =>
       /\ nextRunAt'[s] > now
       /\ nextRunAt'[s] - Interval[s] <= now
       /\ nextRunAt'[s] > nextRunAt[s]
       /\ (nextRunAt'[s] - nextRunAt[s]) % Interval[s] = 0]_vars

Due(s) == s \in enabled /\ nextRunAt[s] <= clock
Blocked == \E s \in Unshardable : Due(s)

\* A schedule that is due has its run and its next instant, unless it is disabled:
\* no loss of the scheduler and no skipped lock makes it miss its turn.  Only one
\* whose scope cannot be sharded does, for as long as nobody disables that one: it
\* may end every pass before the others have had their turn (dispatch_due_schedules).
DueIsServed == []<>~Blocked => \A s \in Schedule \ Unshardable : Due(s) ~> ~Due(s)
=============================================================================
