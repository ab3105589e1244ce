--------------------------- MODULE MCControlPlane ---------------------------
(***************************************************************************)
(* An instance of ControlPlane for TLC: the requests that get into each    *)
(* other's way around one scope, one profile name and one user.            *)
(***************************************************************************)
EXTENDS ControlPlane, TLC

CONSTANTS
  root, ann, a, b, p, h, y, z,
  promote, demote, repeat, add, widen, import, approve, delete,
  profile1, profile2, drop, schedule, run1, run2

MCSubject == {root, ann}
MCName == {a, b, p, h}
MCZone == {y, z}

\* Addresses of 4 bits, shards of /3, two of them at most: /1 is the widest network
\* that parses and is too wide for a run, /2 is at the limit, /3 is a shard, of a zone
\* that no profile has, and /4 is smaller than one.
half == [base |-> 8, prefix |-> 1]
quarter == [base |-> 4, prefix |-> 2]
eighth == [base |-> 2, prefix |-> 3]
sixteenth == [base |-> 1, prefix |-> 4]

Blank(op, by) ==
  [op |-> op, by |-> by, subject |-> ann, role |-> "auditor", rows |-> {}, scope |-> a,
   profile |-> p, version |-> 1, zone |-> z, schedule |-> h]

MCRequest == {promote, demote, repeat, add, widen, import, approve, delete,
              profile1, profile2, drop, schedule, run1, run2}

MCBody == [q \in MCRequest |->
  CASE q = promote -> [Blank("provision", root) EXCEPT !.role = "platform_admin"]
    [] q = demote -> Blank("provision", root)
    [] q = repeat -> [Blank("provision", root) EXCEPT !.role = "platform_admin"]
    [] q = add -> [Blank("addScope", ann) EXCEPT
                     !.rows = {[name |-> a, cidr |-> quarter, zone |-> z]}]
    [] q = widen -> [Blank("addScope", ann) EXCEPT
                       !.rows = {[name |-> a, cidr |-> half, zone |-> z]}]
    [] q = import -> [Blank("importScopes", ann) EXCEPT
                        !.rows = {[name |-> a, cidr |-> eighth, zone |-> y],
                                  [name |-> b, cidr |-> sixteenth, zone |-> y]}]
    [] q = approve -> Blank("approve", root)
    [] q = delete -> Blank("deleteScope", ann)
    [] q = profile1 -> Blank("addProfile", ann)
    [] q = profile2 -> Blank("addProfile", ann)
    [] q = drop -> Blank("deleteProfile", ann)
    [] q = schedule -> Blank("addSchedule", ann)
    [] q = run1 -> Blank("addRun", ann)
    [] q = run2 -> Blank("scheduledRun", root)]
=============================================================================
