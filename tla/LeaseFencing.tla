---------------------------- MODULE LeaseFencing ----------------------------
(***************************************************************************)
(* What execution-token fencing promises of the shards of a run, with no   *)
(* workers, queues or transactions: a lease is granted under a token that  *)
(* was never granted before, one execution acquires it, and the results of *)
(* an execution are accepted only from the token that holds the lease at   *)
(* that moment.  A lease can be withdrawn at any time, and stored results  *)
(* can be cleared by anyone.                                               *)
(***************************************************************************)
EXTENDS Integers

CONSTANT Shard

VARIABLES
  issued,     \* how many tokens were granted for the shard
  open,       \* the token granted and not yet acquired, or 0
  holder,     \* the token of the execution that holds the lease, or 0
  accepted    \* the tokens whose results are stored

vars == <<issued, open, holder, accepted>>

Free(s) == open[s] = 0 /\ holder[s] = 0

Init ==
  /\ issued = [s \in Shard |-> 0]
  /\ open = [s \in Shard |-> 0]
  /\ holder = [s \in Shard |-> 0]
  /\ accepted = [s \in Shard |-> {}]

Grant(S) ==
  /\ \A s \in S : Free(s)
  /\ issued' = [s \in Shard |-> IF s \in S THEN issued[s] + 1 ELSE issued[s]]
  /\ open' = [s \in Shard |-> IF s \in S THEN issued[s] + 1 ELSE open[s]]
  /\ UNCHANGED <<holder, accepted>>

Acquire(s) ==
  /\ open[s] # 0
  /\ holder' = [holder EXCEPT ![s] = open[s]]
  /\ open' = [open EXCEPT ![s] = 0]
  /\ UNCHANGED <<issued, accepted>>

Withdraw(S) ==
  /\ open' = [s \in Shard |-> IF s \in S THEN 0 ELSE open[s]]
  /\ holder' = [s \in Shard |-> IF s \in S THEN 0 ELSE holder[s]]
  /\ UNCHANGED <<issued, accepted>>

Accept(s) ==
  /\ holder[s] # 0
  /\ accepted' = [accepted EXCEPT ![s] = @ \cup {holder[s]}]
  /\ holder' = [holder EXCEPT ![s] = 0]
  /\ UNCHANGED <<issued, open>>

Clear(s) ==
  /\ accepted' = [accepted EXCEPT ![s] = {}]
  /\ UNCHANGED <<issued, open, holder>>

Next ==
  \/ \E S \in SUBSET Shard : Grant(S) \/ Withdraw(S)
  \/ \E s \in Shard : Acquire(s) \/ Accept(s) \/ Clear(s)

Spec == Init /\ [][Next]_vars
=============================================================================
