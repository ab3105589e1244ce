---------------------------- MODULE ExposureDiff ----------------------------
(***************************************************************************)
(* The exposure diff: what an operator is told has changed between the two *)
(* latest completed runs of a scope and profile.                           *)
(*                                                                         *)
(* The module keeps, beside what a run has stored, the network it scanned, *)
(* so that a reported change can be compared with a real one.  A scan sees *)
(* what is there, but for two kinds of addresses: those that Masscan found *)
(* and Nmap did not confirm, and those of shards that stored nothing.  The *)
(* latter are given up in a run that failed; in a completed run they were  *)
(* cancelled, which counts as an end like any other.                       *)
(***************************************************************************)
EXTENDS Integers, Sequences

CONSTANTS
  Host,          \* addresses; each in a shard of its own
  Port,          \* a protocol and port
  Fingerprint,   \* a service, product and version
  Networks,      \* the networks a run may meet
  MaxRuns        \* how many runs there are: a bound

Services == UNION {[K -> Fingerprint] : K \in SUBSET (Host \X Port)}

Network ==
  {n \in [up : SUBSET Host, open : Services] : \A k \in DOMAIN n.open : k[1] \in n.up}

ASSUME NetworkAssumption == Networks \subseteq Network
ASSUME BoundAssumption == MaxRuns \in Nat

VARIABLES
  mode,     \* the profile's scanner_mode
  runs,     \* the runs that have ended, in the order of completed_at
  answer    \* the last answer of the API: a set of at most one

vars == <<mode, runs, answer>>

-----------------------------------------------------------------------------
\* What the tables hold of a run.

\* missed: candidates without confirmation; unscanned: hosts whose shard stored nothing.
Run == [status : {"completed", "failed"}, network : Network,
        missed : SUBSET Host, unscanned : SUBSET Host]

\* Masscan passes on only the addresses on which it has found something open.
Candidates(r) == {k[1] : k \in DOMAIN r.network.open}
Scanned(r) ==
  (IF mode = "masscan_then_nmap" THEN Candidates(r) ELSE r.network.up)
    \ (r.missed \cup r.unscanned)

\* observations(run): the hosts that are up and what is open on them.
ConfirmedKeys(r) == {k \in DOMAIN r.network.open : k[1] \in Scanned(r)}
Seen(R) ==
  [hosts |-> UNION {Scanned(r) : r \in R},
   services |-> [k \in UNION {ConfirmedKeys(r) : r \in R} |->
                   (CHOOSE r \in R : TRUE).network.open[k]]]

\* Candidates without the artifact of their confirmation; a shard that stored nothing
\* has no candidates, and goes unnoticed.  Mutant: nobody asks.
IncompleteIgnored(r) == FALSE
Incomplete(r) == r.missed \cap Candidates(r) # {}

Completed == {i \in DOMAIN runs : runs[i].status = "completed"}

\* Mutant: the query has no limit.
LatestUnlimited(I) == I
Latest(I) == {i \in I : \A j \in I : j <= i}

-----------------------------------------------------------------------------
Only(services, K) == [k \in K |-> services[k]]

\* Ports of addresses that are still there; those of the others go with their host.
\* Mutant: those of addresses that were there.
ClosedBefore(old, new) ==
  {k \in DOMAIN old.services \ DOMAIN new.services : k[1] \in old.hosts \ new.hosts}
Closed(old, new) == {k \in DOMAIN old.services \ DOMAIN new.services : k[1] \in new.hosts}

Changes(old, new) ==
  [disappeared |-> old.hosts \ new.hosts,
   opened |-> Only(new.services, DOMAIN new.services \ DOMAIN old.services),
   closed |-> Closed(old, new),
   changed |-> Only(new.services, {k \in DOMAIN new.services \cap DOMAIN old.services :
                                     new.services[k] # old.services[k]})]
NoChanges == Changes(Seen({}), Seen({}))

Change ==
  [disappeared : SUBSET Host, opened : Services, closed : SUBSET (Host \X Port), changed : Services]
Answer ==
  [current : SUBSET Run, previous : SUBSET Run, changes : Change, coverageComplete : BOOLEAN]

-----------------------------------------------------------------------------
Init ==
  /\ mode \in {"nmap", "masscan_then_nmap"}
  /\ runs = << >>
  /\ answer = {}

\* A run ends when its shards have: completed, or cancelled by a worker that saw its
\* run cancelled or by a cancellation that a later write of the run has undone.  It
\* fails if one of them was given up.  Only Masscan leaves candidates.
CanMiss(r) ==
  /\ r.missed \subseteq (IF mode = "nmap" THEN {} ELSE Candidates(r)) \ r.unscanned
  /\ r.status = "failed" => r.missed \cup r.unscanned # {}

EndRun(r) ==
  /\ Len(runs) < MaxRuns
  /\ CanMiss(r)
  /\ runs' = Append(runs, r)
  /\ answer' = {}
  /\ UNCHANGED mode

\* exposure_diff without runs, with a gap in the current one, and with none.
GetNothing ==
  /\ Completed = {}
  /\ answer' = {[current |-> {}, previous |-> {}, changes |-> NoChanges, coverageComplete |-> TRUE]}
  /\ UNCHANGED <<mode, runs>>

PreviousTo(i) == {runs[j] : j \in Latest(Completed \ {i})}

GetWithheld(i) ==
  /\ i \in Latest(Completed)
  /\ Incomplete(runs[i])
  /\ answer' = {[current |-> {runs[i]}, previous |-> PreviousTo(i),
                 changes |-> NoChanges, coverageComplete |-> FALSE]}
  /\ UNCHANGED <<mode, runs>>

GetDiff(i) ==
  /\ i \in Latest(Completed)
  /\ ~Incomplete(runs[i])
  /\ answer' = {[current |-> {runs[i]}, previous |-> PreviousTo(i),
                 changes |-> Changes(Seen(PreviousTo(i)), Seen({runs[i]})),
                 coverageComplete |-> TRUE]}
  /\ UNCHANGED <<mode, runs>>

Next ==
  \/ \E n \in Networks, status \in {"completed", "failed"}, missed, unscanned \in SUBSET Host :
       EndRun([status |-> status, network |-> n, missed |-> missed, unscanned |-> unscanned])
  \/ GetNothing
  \/ \E i \in DOMAIN runs : GetWithheld(i) \/ GetDiff(i)

Spec == Init /\ [][Next]_vars

-----------------------------------------------------------------------------
\* Every variable holds a value of its type.
TypeOK ==
  /\ mode \in {"nmap", "masscan_then_nmap"}
  /\ runs \in Seq(Run) /\ Len(runs) <= MaxRuns
  /\ answer \subseteq Answer
  /\ \A a, b \in answer : a = b
  /\ \A a \in answer : (\A r, s \in a.current : r = s) /\ (\A r, s \in a.previous : r = s)

\* What an operator who knows the previous inventory makes of the changes.
Applied(changes, services) ==
  LET kept == {k \in DOMAIN services : k[1] \notin changes.disappeared /\ k \notin changes.closed}
  IN  [k \in kept \cup DOMAIN changes.opened |->
         IF k \in DOMAIN changes.opened THEN changes.opened[k]
         ELSE IF k \in DOMAIN changes.changed THEN changes.changed[k]
         ELSE services[k]]

\* The changes are complete: applied to what the previous run has seen they give
\* what the current one has seen, and what went with its host is told once, not as a
\* closed port again (exposure_diff).
ChangesAreExact ==
  \A a \in answer : a.coverageComplete =>
    /\ Applied(a.changes, Seen(a.previous).services) = Seen(a.current).services
    /\ \A k \in a.changes.closed : k[1] \notin a.changes.disappeared

\* A change that is told and not real comes of a shard that was not scanned.  No open
\* port is told as closed; an address with an open port is told as gone only if its
\* shard stored nothing in the current run, never because its confirmation is missing;
\* and what is told as opened had not been open before, unless the previous run had
\* not confirmed that very address (exposure_diff, incomplete_discovery_shards).
ChangesAreReal ==
  \A a \in answer : \A c \in a.current :
    /\ \A k \in DOMAIN c.network.open :
         k \notin a.changes.closed /\ (k[1] \in a.changes.disappeared => k[1] \in c.unscanned)
    /\ \A p \in a.previous, k \in DOMAIN a.changes.opened :
         k \in DOMAIN p.network.open => k[1] \in p.missed \cup p.unscanned
=============================================================================
