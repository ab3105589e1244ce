------------------------- MODULE ExposureDiffProofs -------------------------
(***************************************************************************)
(* Proofs about ExposureDiff: the changes an operator is told are          *)
(* complete, and real but for shards that were not scanned, for all        *)
(* addresses, ports, fingerprints, networks and runs.                      *)
(***************************************************************************)
EXTENDS ExposureDiff, TLAPS

USE NetworkAssumption, BoundAssumption

\* The two steps from a set of observations to its keys (services of type Services).
LEMMA ServicesAreFunctions ==
  ASSUME NEW f \in Services
  PROVE  /\ DOMAIN f \subseteq Host \X Port
         /\ f \in [DOMAIN f -> Fingerprint]
BY DEF Services

\* A restriction of services has their type (the dictionaries of exposure_diff).
LEMMA RestrictionsAreServices ==
  ASSUME NEW f \in Services, NEW K \in SUBSET DOMAIN f
  PROVE  Only(f, K) \in Services /\ DOMAIN Only(f, K) = K
<1>1. DOMAIN f \subseteq Host \X Port /\ f \in [DOMAIN f -> Fingerprint]
  BY ServicesAreFunctions
<1>2. Only(f, K) \in [K -> Fingerprint] /\ K \in SUBSET (Host \X Port)
  BY <1>1 DEF Only
<1> QED
  BY <1>2 DEF Services

\* What exposure_diff compares: hosts, and services on these hosts.
Observation ==
  {o \in [hosts : SUBSET Host, services : Services] : \A k \in DOMAIN o.services : k[1] \in o.hosts}

\* The changes from one observation to another have their type.
LEMMA ChangesTyped ==
  ASSUME NEW old \in Observation, NEW new \in Observation
  PROVE  Changes(old, new) \in Change
<1> DEFINE D == DOMAIN new.services \ DOMAIN old.services
           B == {k \in DOMAIN new.services \cap DOMAIN old.services :
                   new.services[k] # old.services[k]}
<1>1. new.services \in Services /\ old.services \in Services
  BY DEF Observation
<1>2. Only(new.services, D) \in Services /\ Only(new.services, B) \in Services
  <2>1. D \in SUBSET DOMAIN new.services /\ B \in SUBSET DOMAIN new.services
    OBVIOUS
  <2> HIDE DEF D, B
  <2> QED
    BY <1>1, <2>1, RestrictionsAreServices
<1>3. Closed(old, new) \in SUBSET (Host \X Port)
  BY <1>1, ServicesAreFunctions DEF Closed
<1>4. old.hosts \ new.hosts \in SUBSET Host
  BY DEF Observation
<1> QED
  BY <1>2, <1>3, <1>4 DEF Changes, Change

\* Applied to the old services, the changes give the new ones: every key is opened,
\* closed, gone with its host, changed, or the same (exposure_diff).
LEMMA AppliedChanges ==
  ASSUME NEW old \in Observation, NEW new \in Observation
  PROVE  Applied(Changes(old, new), old.services) = new.services
<1> DEFINE ch == Changes(old, new)
           O == DOMAIN new.services \ DOMAIN old.services
           B == {k \in DOMAIN new.services \cap DOMAIN old.services :
                   new.services[k] # old.services[k]}
           kept == {k \in DOMAIN old.services : k[1] \notin ch.disappeared /\ k \notin ch.closed}
<1>1. /\ new.services \in Services /\ old.services \in Services
      /\ \A k \in DOMAIN new.services : k[1] \in new.hosts
      /\ \A k \in DOMAIN old.services : k[1] \in old.hosts
  BY DEF Observation
<1>2. /\ new.services = [k \in DOMAIN new.services |-> new.services[k]]
  BY <1>1, ServicesAreFunctions
<1>3. /\ ch.disappeared = old.hosts \ new.hosts
      /\ ch.closed = {k \in DOMAIN old.services \ DOMAIN new.services : k[1] \in new.hosts}
      /\ ch.opened = [k \in O |-> new.services[k]]
      /\ ch.changed = [k \in B |-> new.services[k]]
  BY DEF Changes, Closed, Only
<1>4. DOMAIN ch.opened = O /\ DOMAIN ch.changed = B
  BY <1>3
<1>5. kept = DOMAIN old.services \cap DOMAIN new.services
  <2>1. ASSUME NEW k \in kept  PROVE k \in DOMAIN new.services
    BY <1>1, <1>3
  <2>2. ASSUME NEW k \in DOMAIN old.services \cap DOMAIN new.services  PROVE k \in kept
    BY <1>1, <1>3
  <2> QED
    BY <2>1, <2>2
<1>6. kept \cup DOMAIN ch.opened = DOMAIN new.services
  BY <1>4, <1>5
<1>7. ASSUME NEW k \in DOMAIN new.services
      PROVE  new.services[k] = (IF k \in DOMAIN ch.opened THEN ch.opened[k]
                                ELSE IF k \in DOMAIN ch.changed THEN ch.changed[k]
                                ELSE old.services[k])
  <2>1. CASE k \in O
    BY <1>3, <1>4, <2>1
  <2>2. CASE k \notin O /\ k \in B
    BY <1>3, <1>4, <2>2
  <2>3. CASE k \notin O /\ k \notin B
    BY <1>4, <2>3
  <2> QED
    BY <2>1, <2>2, <2>3
<1>8. Applied(ch, old.services) =
        [k \in kept \cup DOMAIN ch.opened |->
           IF k \in DOMAIN ch.opened THEN ch.opened[k]
           ELSE IF k \in DOMAIN ch.changed THEN ch.changed[k] ELSE old.services[k]]
  BY DEF Applied
<1> HIDE DEF ch, kept
<1>9. Applied(ch, old.services) = [k \in DOMAIN new.services |-> new.services[k]]
  BY <1>6, <1>7, <1>8
<1> QED
  BY <1>2, <1>9 DEF ch

-----------------------------------------------------------------------------
AtMostOne(R) == \A r, s \in R : r = s

\* What the tables hold of no run, or of one, is an observation (observations).
LEMMA SeenIsObservation ==
  ASSUME NEW R \in SUBSET Run, AtMostOne(R)
  PROVE  Seen(R) \in Observation
<1>1. CASE R = {}
  <2>1. Seen(R).hosts = {} /\ Seen(R).services = [k \in {} |-> (CHOOSE r \in R : TRUE).network.open[k]]
    BY <1>1 DEF Seen
  <2>2. Seen(R).services \in [{} -> Fingerprint]
    BY <2>1
  <2>3. Seen(R).services \in Services
    BY <2>2 DEF Services
  <2>4. Seen(R) = [hosts |-> Seen(R).hosts, services |-> Seen(R).services]
    BY DEF Seen
  <2> QED
    BY <2>1, <2>2, <2>3, <2>4 DEF Observation
<1>2. CASE R # {}
  <2>1. PICK r \in R : R = {r}
    BY <1>2 DEF AtMostOne
  <2>2. r \in Run /\ r.network \in Network /\ r.network.open \in Services
    BY <2>1 DEF Run, Network
  <2>3. DOMAIN r.network.open \subseteq Host \X Port
    BY <2>2, ServicesAreFunctions
  <2>4. Scanned(r) \subseteq Host
    BY <2>2, <2>3 DEF Scanned, Candidates, Network
  <2>5. ConfirmedKeys(r) \in SUBSET DOMAIN r.network.open
    BY DEF ConfirmedKeys
  <2>6. (CHOOSE s \in R : TRUE) = r
    BY <2>1
  <2>7. Seen(R).hosts = Scanned(r) /\ Seen(R).services = Only(r.network.open, ConfirmedKeys(r))
    <3>1. UNION {Scanned(s) : s \in R} = Scanned(r) /\ UNION {ConfirmedKeys(s) : s \in R} = ConfirmedKeys(r)
      BY <2>1
    <3> QED
      BY <3>1, <2>6 DEF Seen, Only
  <2>8. Seen(R).services \in Services /\ DOMAIN Seen(R).services = ConfirmedKeys(r)
    BY <2>2, <2>5, <2>7, RestrictionsAreServices
  <2>9. Seen(R) = [hosts |-> Seen(R).hosts, services |-> Seen(R).services]
    BY DEF Seen
  <2> QED
    BY <2>4, <2>7, <2>8, <2>9 DEF Observation, ConfirmedKeys
<1> QED
  BY <1>1, <1>2

\* The keys of what is seen of one run.
LEMMA SeenKeys ==
  ASSUME NEW R, NEW r \in R
  PROVE  /\ ConfirmedKeys(r) \subseteq DOMAIN Seen(R).services
         /\ Scanned(r) \subseteq Seen(R).hosts
BY DEF Seen

\* No changes have the type of changes, and none is in them.
LEMMA NoChangesIsEmpty ==
  /\ NoChanges \in Change
  /\ NoChanges.closed = {} /\ NoChanges.disappeared = {}
  /\ DOMAIN NoChanges.opened = {}
<1>1. Seen({}) \in Observation
  BY SeenIsObservation DEF AtMostOne
<1>2. Seen({}).hosts = {} /\ DOMAIN Seen({}).services = {}
  BY DEF Seen
<1> QED
  BY <1>1, <1>2, ChangesTyped DEF NoChanges, Changes, Closed, Only

-----------------------------------------------------------------------------
Comparable == {runs[i] : i \in Completed}

\* An answer compares completed runs, and has changes only if the current one has
\* no gap.
AnswerShape ==
  \A a \in answer :
    /\ a.current \subseteq Comparable /\ a.previous \subseteq Comparable
    /\ \/ /\ a.coverageComplete
          /\ a.changes = Changes(Seen(a.previous), Seen(a.current))
          /\ \A c \in a.current : ~Incomplete(c)
       \/ ~a.coverageComplete /\ a.changes = NoChanges

IInv == TypeOK /\ AnswerShape

\* There is one latest run (order_by(completed_at.desc()).limit).
LEMMA LatestIsUnique ==
  ASSUME NEW I \in SUBSET Nat, NEW i \in Latest(I), NEW j \in Latest(I)
  PROVE  i = j
BY DEF Latest

LEMMA PreviousIsOne ==
  ASSUME runs \in Seq(Run), NEW i
  PROVE  /\ AtMostOne(PreviousTo(i))
         /\ PreviousTo(i) \subseteq Comparable /\ PreviousTo(i) \subseteq Run
<1>1. Completed \ {i} \subseteq Nat /\ Completed \subseteq DOMAIN runs
  BY DEF Completed
<1>2. \A j, k \in Latest(Completed \ {i}) : j = k
  BY <1>1, LatestIsUnique
<1>3. \A j \in DOMAIN runs : runs[j] \in Run
  OBVIOUS
<1> QED
  BY <1>1, <1>2, <1>3 DEF PreviousTo, AtMostOne, Latest, Comparable

\* The mode of the profile stays as it is, and with it what is seen of a run.
LEMMA SeenIsStable ==
  ASSUME mode' = mode
  PROVE  /\ \A R : Seen(R)' = Seen(R)
         /\ NoChanges' = NoChanges
<1>1. \A R : Seen(R)' = Seen(R)
  BY DEF Seen, Scanned, ConfirmedKeys
<1>2. NoChanges' = NoChanges
  BY <1>1 DEF NoChanges
<1> QED
  BY <1>1, <1>2

\* An answer of the right shape has the right type.
LEMMA AnswerTyped ==
  ASSUME NEW C \in SUBSET Run, NEW P \in SUBSET Run, AtMostOne(C), AtMostOne(P), NEW b \in BOOLEAN
  PROVE  /\ [current |-> C, previous |-> P, changes |-> NoChanges, coverageComplete |-> b] \in Answer
         /\ [current |-> C, previous |-> P, changes |-> Changes(Seen(P), Seen(C)),
             coverageComplete |-> b] \in Answer
<1>1. NoChanges \in Change
  BY NoChangesIsEmpty
<1>2. Changes(Seen(P), Seen(C)) \in Change
  BY SeenIsObservation, ChangesTyped
<1> QED
  BY <1>1, <1>2 DEF Answer

-----------------------------------------------------------------------------
\* What the answer of GetNothing, GetWithheld and GetDiff has in common.
LEMMA AnswerStep ==
  ASSUME IInv, mode' = mode, runs' = runs,
         NEW C, NEW P, C \subseteq Comparable, P \subseteq Comparable, AtMostOne(C), AtMostOne(P),
         NEW ch, NEW b \in BOOLEAN,
         answer' = {[current |-> C, previous |-> P, changes |-> ch, coverageComplete |-> b]},
         \/ b /\ ch = Changes(Seen(P), Seen(C)) /\ \A c \in C : ~Incomplete(c)
         \/ ~b /\ ch = NoChanges
  PROVE  IInv'
<1> DEFINE a == [current |-> C, previous |-> P, changes |-> ch, coverageComplete |-> b]
<1>1. Comparable \subseteq Run /\ Comparable' = Comparable
  BY DEF Comparable, Completed, IInv, TypeOK
<1>2. a \in Answer
  BY <1>1, AnswerTyped
<1>3. TypeOK'
  BY <1>2 DEF IInv, TypeOK, AtMostOne
<1>4. AnswerShape'
  BY <1>1, SeenIsStable DEF AnswerShape
<1> QED
  BY <1>3, <1>4 DEF IInv

\* A step of the program keeps the invariant: one case per action.
LEMMA StepKeepsInvariant ==
  ASSUME IInv, [Next]_vars
  PROVE  IInv'
<1> USE DEF IInv
<1>1. ASSUME NEW n \in Networks, NEW status \in {"completed", "failed"}, NEW missed \in SUBSET Host,
             NEW unscanned \in SUBSET Host,
             EndRun([status |-> status, network |-> n, missed |-> missed, unscanned |-> unscanned])
      PROVE  IInv'
  <2> DEFINE r == [status |-> status, network |-> n, missed |-> missed, unscanned |-> unscanned]
  <2>1. r \in Run
    BY DEF Run
  <2> HIDE DEF r
  <2>2. /\ runs \in Seq(Run) /\ Len(runs) < MaxRuns
        /\ runs' = Append(runs, r) /\ answer' = {} /\ mode' = mode
    BY <1>1 DEF EndRun, TypeOK, r
  <2>3. /\ runs' \in Seq(Run) /\ Len(runs') = Len(runs) + 1 /\ Len(runs) \in Nat
    BY <2>1, <2>2
  <2>4. TypeOK'
    BY <2>2, <2>3 DEF TypeOK
  <2>5. AnswerShape'
    BY <2>2 DEF AnswerShape
  <2> QED
    BY <2>4, <2>5
<1>2. CASE GetNothing
  <2>1. NoChanges = Changes(Seen({}), Seen({}))
    BY DEF NoChanges
  <2> QED
    BY <1>2, <2>1, AnswerStep DEF GetNothing, AtMostOne
<1>3. ASSUME NEW i \in DOMAIN runs, GetWithheld(i)
      PROVE  IInv'
  <2>1. {runs[i]} \subseteq Comparable /\ AtMostOne({runs[i]})
    BY <1>3 DEF GetWithheld, Latest, Comparable, AtMostOne
  <2>2. AtMostOne(PreviousTo(i)) /\ PreviousTo(i) \subseteq Comparable
    BY PreviousIsOne DEF TypeOK
  <2> QED
    BY <1>3, <2>1, <2>2, AnswerStep DEF GetWithheld
<1>4. ASSUME NEW i \in DOMAIN runs, GetDiff(i)
      PROVE  IInv'
  <2>1. {runs[i]} \subseteq Comparable /\ AtMostOne({runs[i]})
    BY <1>4 DEF GetDiff, Latest, Comparable, AtMostOne
  <2>2. AtMostOne(PreviousTo(i)) /\ PreviousTo(i) \subseteq Comparable
    BY PreviousIsOne DEF TypeOK
  <2> QED
    BY <1>4, <2>1, <2>2, AnswerStep DEF GetDiff
<1>5. CASE UNCHANGED vars
  <2>1. mode' = mode /\ runs' = runs /\ answer' = answer
    BY <1>5 DEF vars
  <2>2. Comparable' = Comparable
    BY <2>1 DEF Comparable, Completed
  <2>3. TypeOK'
    BY <2>1 DEF TypeOK
  <2>4. AnswerShape'
    BY <2>1, <2>2, SeenIsStable DEF AnswerShape
  <2> QED
    BY <2>3, <2>4
<1> QED
  BY <1>1, <1>2, <1>3, <1>4, <1>5 DEF Next

\* The invariant holds of every state of every behaviour.
THEOREM Invariance == Spec => []IInv
<1>1. Init => IInv
  BY DEF Init, IInv, TypeOK, AnswerShape
<1>2. IInv /\ [Next]_vars => IInv'
  BY StepKeepsInvariant
<1> QED
  BY <1>1, <1>2, PTL DEF Spec

\* Every answer has the type of an answer, with one current and one previous run.
THEOREM TypeCorrect == Spec => []TypeOK
<1>1. IInv => TypeOK
  BY DEF IInv
<1> QED
  BY <1>1, Invariance, PTL

\* The two runs of an answer are one run each.
LEMMA ComparedRuns ==
  ASSUME IInv, NEW a \in answer
  PROVE  /\ a.current \in SUBSET Run /\ a.previous \in SUBSET Run
         /\ AtMostOne(a.current) /\ AtMostOne(a.previous)
<1>1. a \in Answer
  BY DEF IInv, TypeOK
<1>2. AtMostOne(a.current) /\ AtMostOne(a.previous)
  BY DEF IInv, TypeOK, AtMostOne
<1> QED
  BY <1>1, <1>2 DEF Answer

\* The reported changes lead from the previous run's inventory to the current one's,
\* for all runs and networks (exposure_diff).
THEOREM ReportsAreExact == Spec => []ChangesAreExact
<1>1. ASSUME IInv  PROVE ChangesAreExact
  <2>1. SUFFICES ASSUME NEW a \in answer, a.coverageComplete
                 PROVE  /\ Applied(a.changes, Seen(a.previous).services) = Seen(a.current).services
                        /\ \A k \in a.changes.closed : k[1] \notin a.changes.disappeared
    BY DEF ChangesAreExact
  <2>2. a.changes = Changes(Seen(a.previous), Seen(a.current))
    BY <1>1, <2>1 DEF IInv, AnswerShape
  <2>3. Seen(a.previous) \in Observation /\ Seen(a.current) \in Observation
    BY <1>1, ComparedRuns, SeenIsObservation
  <2>4. Applied(a.changes, Seen(a.previous).services) = Seen(a.current).services
    BY <2>2, <2>3, AppliedChanges
  <2>5. \A k \in a.changes.closed : k[1] \notin a.changes.disappeared
    BY <2>2 DEF Changes, Closed
  <2> QED
    BY <2>4, <2>5
<1> QED
  BY <1>1, Invariance, PTL

\* An open port is confirmed, or its address is a gap the coverage gate counts, or
\* its shard was not scanned.
LEMMA WhatIsMissed ==
  ASSUME NEW r \in Run, NEW k \in DOMAIN r.network.open, k \notin ConfirmedKeys(r)
  PROVE  /\ k[1] \in r.missed \cup r.unscanned
         /\ k[1] \in r.unscanned \/ Incomplete(r)
<1>1. k[1] \in Candidates(r) /\ k[1] \in r.network.up
  BY DEF Candidates, Run, Network
<1>2. k[1] \in r.missed \cup r.unscanned
  BY <1>1 DEF ConfirmedKeys, Scanned
<1> QED
  BY <1>1, <1>2 DEF Incomplete

\* Whose port was confirmed is neither closed nor gone.
LEMMA ConfirmedIsNotGone ==
  ASSUME NEW R, NEW r \in R, NEW old, NEW k \in ConfirmedKeys(r)
  PROVE  /\ k \notin Changes(old, Seen(R)).closed
         /\ k[1] \notin Changes(old, Seen(R)).disappeared
<1>1. k \in DOMAIN Seen(R).services /\ k[1] \in Seen(R).hosts
  BY SeenKeys DEF ConfirmedKeys
<1> QED
  BY <1>1 DEF Changes, Closed

\* What is told as closed is on a host that was seen.
LEMMA ClosedIsScanned ==
  ASSUME NEW R, AtMostOne(R), NEW r \in R, NEW old, NEW k \in Changes(old, Seen(R)).closed
  PROVE  k[1] \notin r.unscanned
<1>1. R = {r}
  BY DEF AtMostOne
<1>2. k[1] \in Scanned(r)
  BY <1>1 DEF Changes, Closed, Seen
<1> QED
  BY <1>2 DEF Scanned

\* A change is told that is not real only where a shard was not scanned, or where the
\* previous run had left an address unconfirmed, for all runs and networks and
\* whatever they missed (exposure_diff, incomplete_discovery_shards).
THEOREM ReportsAreReal == Spec => []ChangesAreReal
<1>1. ASSUME IInv  PROVE ChangesAreReal
  <2>1. SUFFICES ASSUME NEW a \in answer, NEW c \in a.current
                 PROVE  /\ \A k \in DOMAIN c.network.open :
                             /\ k \notin a.changes.closed
                             /\ k[1] \in a.changes.disappeared => k[1] \in c.unscanned
                        /\ \A p \in a.previous, k \in DOMAIN a.changes.opened :
                             k \in DOMAIN p.network.open => k[1] \in p.missed \cup p.unscanned
    BY DEF ChangesAreReal
  <2>2. CASE ~a.coverageComplete
    <3>1. a.changes = NoChanges
      BY <1>1, <2>2 DEF IInv, AnswerShape
    <3> QED
      BY <3>1, NoChangesIsEmpty
  <2>3. CASE a.coverageComplete
    <3>1. a.changes = Changes(Seen(a.previous), Seen(a.current)) /\ ~Incomplete(c)
      BY <1>1, <2>3 DEF IInv, AnswerShape
    <3>2. /\ c \in Run /\ AtMostOne(a.current)
          /\ \A p \in a.previous : p \in Run
      BY <1>1, ComparedRuns
    <3>3. ASSUME NEW k \in DOMAIN c.network.open
          PROVE  /\ k \notin a.changes.closed
                 /\ k[1] \in a.changes.disappeared => k[1] \in c.unscanned
      <4>1. CASE k \in ConfirmedKeys(c)
        BY <3>1, <4>1, ConfirmedIsNotGone
      <4>2. CASE k \notin ConfirmedKeys(c)
        <5>1. k[1] \in c.unscanned
          BY <3>1, <3>2, <4>2, WhatIsMissed
        <5>2. k \notin a.changes.closed
          BY <3>1, <3>2, <5>1, ClosedIsScanned
        <5> QED
          BY <5>1, <5>2
      <4> QED
        BY <4>1, <4>2
    <3>4. ASSUME NEW p \in a.previous, NEW k \in DOMAIN a.changes.opened,
                 k \in DOMAIN p.network.open
          PROVE  k[1] \in p.missed \cup p.unscanned
      <4>1. k \notin DOMAIN Seen(a.previous).services
        BY <3>1 DEF Changes, Only
      <4>2. k \notin ConfirmedKeys(p)
        BY <4>1, SeenKeys
      <4> QED
        BY <3>2, <3>4, <4>2, WhatIsMissed
    <3> QED
      BY <3>3, <3>4
  <2> QED
    BY <2>2, <2>3
<1> QED
  BY <1>1, Invariance, PTL
=============================================================================
