---------------------------- MODULE ControlPlane ----------------------------
(***************************************************************************)
(* The control-plane API: users and their roles, inventory scopes, scan    *)
(* profiles, the schedules and runs that refer to them, and the audit      *)
(* trail.                                                                  *)
(*                                                                         *)
(* A request reads what it needs, decides, and commits its writes in one   *)
(* transaction at READ COMMITTED.  Others commit in between, and only the  *)
(* database sees them: a unique or foreign key fails the transaction, an   *)
(* UPDATE of a row that is gone fails it, a DELETE of one does not.  An    *)
(* object the session has loaded is written back only where it changed.    *)
(***************************************************************************)
EXTENDS Integers, FiniteSets

CONSTANTS
  Subject,        \* the subjects of access tokens
  Root,           \* the one the bootstrap token stands for
  Name, Zone,     \* names of rows, worker zones
  Request,        \* the requests that are sent, each of them once
  body,           \* what each asks for
  Width,          \* bits of an address
  MaxCidrPrefix, ShardPrefix, MaxShards, MaxRows    \* the settings

Role == {"platform_admin", "inventory_manager", "scan_operator", "auditor"}
NoRole == "none"

\* An address range in prefix notation, and a line of an inventory file.
Network == [base : Nat, prefix : Nat]
Draft == [name : Name, cidr : Network, zone : Zone]

\* The roles an endpoint requires.  The scheduler's own runs ask for none.
Permitted == [
  provision    |-> {"platform_admin"},
  addScope     |-> {"platform_admin", "inventory_manager"},
  importScopes |-> {"platform_admin", "inventory_manager"},
  approve      |-> {"platform_admin"},
  deleteScope  |-> {"platform_admin", "inventory_manager"},
  addProfile   |-> {"platform_admin"},
  deleteProfile |-> {"platform_admin"},
  addSchedule  |-> {"platform_admin", "scan_operator"},
  addRun       |-> {"platform_admin", "scan_operator"},
  scheduledRun |-> {}]

\* Every request names its endpoint and its sender; the rest is what that
\* endpoint takes.
Body == [op : DOMAIN Permitted, by : Subject, subject : Subject, role : Role,
         rows : SUBSET Draft, scope : Name, profile : Name, version : Nat,
         zone : Zone, schedule : Name]

ASSUME BodyAssumption == Root \in Subject /\ body \in [Request -> Body]
\* A longer shard prefix than an address has bits would fail every run it is used for.
ASSUME SettingsAssumption ==
  /\ {Width, MaxCidrPrefix, ShardPrefix, MaxShards, MaxRows} \subseteq Nat
  /\ ShardPrefix <= Width
\* What the proofs need to know of powers of two, of which the provers know nothing.
ASSUME PowerAssumption ==
  \A j, k \in 0 .. Width : 2 ^ j \in Nat \ {0} /\ 2 ^ (j + k) = 2 ^ j * 2 ^ k

Op(q) == body[q].op

VARIABLES
  role,        \* users.role; NoRole is no row
  scopes,      \* inventory_scopes
  profiles,    \* scan_profiles
  schedules,   \* scan_schedules
  runs,        \* scan_runs, with the networks of their shards
  trail,       \* audit_events
  pc,          \* where each request is
  loaded       \* what its session has read

tables == <<role, scopes, profiles, schedules, runs, trail>>
vars == <<tables, pc, loaded>>

-----------------------------------------------------------------------------
\* An id is the request that created the row, and for a scope its name there.
ScopeId == Request \X Name
Scope == [id : ScopeId, name : Name, cidr : Network, zone : Zone, approved : BOOLEAN]
Profile == [id : Request, name : Name, version : Nat, zone : Zone]
Schedule == [id : Request, name : Name, scope : ScopeId, profile : Request]
Run == [id : Request, scope : ScopeId, profile : Request, shards : SUBSET Network]

\* The resource an event is about, and the version a created profile has.
Event == [request : Request, of : ScopeId \cup Request \cup Subject, version : Nat]

Session == [scopes : SUBSET Scope, profiles : SUBSET Profile,
            role : Role \cup {NoRole}, before : SUBSET Request]

-----------------------------------------------------------------------------
\* Networks.

Size(prefix) == 2 ^ (Width - prefix)
Addresses(n) == n.base .. n.base + Size(n.prefix) - 1

\* parse_approved_cidr: canonical, and not wider than the settings allow.
Parses(n) == n.prefix \in MaxCidrPrefix .. Width /\ n.base % Size(n.prefix) = 0

\* shard_cidr.  Mutant: the last subnet is left out.
ShardsButLast(n) ==
  IF n.prefix >= ShardPrefix THEN {n}
  ELSE {[base |-> n.base + i * Size(ShardPrefix), prefix |-> ShardPrefix] :
          i \in 1 .. 2 ^ (ShardPrefix - n.prefix) - 1}
Shards(n) ==
  IF n.prefix >= ShardPrefix THEN {n}
  ELSE {[base |-> n.base + i * Size(ShardPrefix), prefix |-> ShardPrefix] :
          i \in 0 .. 2 ^ (ShardPrefix - n.prefix) - 1}

Shardable(n) ==
  Parses(n) /\ (n.prefix >= ShardPrefix \/ Cardinality(Shards(n)) <= MaxShards)

-----------------------------------------------------------------------------
Init ==
  /\ role = [u \in Subject |-> NoRole]
  /\ scopes = {} /\ profiles = {} /\ schedules = {} /\ runs = {}
  /\ trail = {}
  /\ pc = [q \in Request |-> "new"]
  /\ loaded = [q \in Request |->
                 [scopes |-> {}, profiles |-> {}, role |-> NoRole, before |-> {}]]

\* current_user: the bootstrap token creates its administrator, and no audit event.
\* Mutant: with a role that is none.
BootstrapMisnamed ==
  /\ role[Root] = NoRole
  /\ role' = [role EXCEPT ![Root] = "admin"]
  /\ UNCHANGED <<scopes, profiles, schedules, runs, trail, pc, loaded>>
Bootstrap ==
  /\ role[Root] = NoRole
  /\ role' = [role EXCEPT ![Root] = "platform_admin"]
  /\ UNCHANGED <<scopes, profiles, schedules, runs, trail, pc, loaded>>

-----------------------------------------------------------------------------
\* What a request reads, and what it refuses.

\* current_user: a valid token is not enough, its subject has to be a user; and
\* require_roles: with one of the endpoint's roles.  Mutant: any role will do.
Known(subject) == role[subject] # NoRole
AuthorizedAnyUser(q) == Op(q) = "scheduledRun" \/ Known(body[q].by)
Authorized(q) ==
  Op(q) = "scheduledRun" \/ (Known(body[q].by) /\ role[body[q].by] \in Permitted[Op(q)])

WantedScopes(q) ==
  CASE Op(q) = "scheduledRun" ->
         {s \in scopes : \E d \in schedules : d.name = body[q].schedule /\ d.scope = s.id}
    [] Op(q) \in {"approve", "deleteScope", "addSchedule", "addRun"} ->
         {s \in scopes : s.name = body[q].scope}
    [] OTHER -> {}

WantedProfiles(q) ==
  CASE Op(q) = "scheduledRun" ->
         {p \in profiles : \E d \in schedules : d.name = body[q].schedule /\ d.profile = p.id}
    [] Op(q) = "addProfile" -> {p \in profiles : p.name = body[q].profile}
    [] Op(q) \in {"deleteProfile", "addSchedule", "addRun"} ->
         {p \in profiles : p.name = body[q].profile /\ p.version = body[q].version}
    [] OTHER -> {}

\* The unique keys of inventory_scopes, which the API asks for and the database has.
UnknownScopes(rows) == {d \in rows : \A s \in scopes : d.name # s.name /\ d.cidr # s.cidr}
NewScopes(rows) == UnknownScopes(rows) = rows

ScopesAcceptable(rows) ==
  /\ rows # {} /\ Cardinality(rows) <= MaxRows
  /\ \A d \in rows : Parses(d.cidr)
  /\ \A d, e \in rows : d # e => d.name # e.name /\ d.cidr # e.cidr
  /\ NewScopes(rows)

\* Mutant: approval is not asked for.
RunnableUnapproved(s, p) == s.zone = p.zone
Runnable(s, p) == s.approved /\ s.zone = p.zone

CanRefer(q) ==
  /\ WantedScopes(q) # {} /\ WantedProfiles(q) # {}
  /\ \A s \in WantedScopes(q), p \in WantedProfiles(q) : Runnable(s, p)

CanRun(q) == CanRefer(q) /\ \A s \in WantedScopes(q) : Shardable(s.cidr)
CanSchedule(q) == CanRefer(q) /\ \A d \in schedules : d.name # body[q].schedule

Referring == schedules \cup runs

CanDeleteScope(q) ==
  WantedScopes(q) # {} /\ \A s \in WantedScopes(q), r \in Referring : r.scope # s.id
CanDeleteProfile(q) ==
  WantedProfiles(q) # {} /\ \A p \in WantedProfiles(q), r \in Referring : r.profile # p.id

Accepts(q) ==
  CASE Op(q) = "addScope" -> Cardinality(body[q].rows) = 1 /\ ScopesAcceptable(body[q].rows)
    [] Op(q) = "importScopes" -> ScopesAcceptable(body[q].rows)
    [] Op(q) = "approve" -> WantedScopes(q) # {}
    [] Op(q) = "deleteScope" -> CanDeleteScope(q)
    [] Op(q) = "deleteProfile" -> CanDeleteProfile(q)
    [] Op(q) = "addSchedule" -> CanSchedule(q)
    [] Op(q) \in {"addRun", "scheduledRun"} -> CanRun(q)
    [] OTHER -> TRUE

\* The provisionings of a user that have been committed: history for the sessions.
Provisionings(u) ==
  {q \in Request : Op(q) = "provision" /\ body[q].subject = u /\ pc[q] = "committed"}

Begin(q) ==
  /\ pc[q] = "new"
  /\ Authorized(q)
  /\ Accepts(q)
  /\ pc' = [pc EXCEPT ![q] = "open"]
  /\ loaded' = [loaded EXCEPT ![q] =
                  IF Op(q) = "provision"
                    THEN [scopes |-> {}, profiles |-> {}, role |-> role[body[q].subject],
                          before |-> Provisionings(body[q].subject)]
                    ELSE [scopes |-> WantedScopes(q), profiles |-> WantedProfiles(q),
                          role |-> NoRole, before |-> {}]]
  /\ UNCHANGED tables

-----------------------------------------------------------------------------
\* What a request writes, with its audit events.  One that violates a key, or whose
\* client or process is lost, is rolled back: it stays open and does nothing.

Commit(q, resources, version) ==
  /\ pc[q] = "open"
  /\ pc' = [pc EXCEPT ![q] = "committed"]
  /\ trail' = trail \cup {[request |-> q, of |-> i, version |-> version] : i \in resources}
  /\ loaded' = [loaded EXCEPT ![q] = [scopes |-> {}, profiles |-> {},
                                      role |-> @.role, before |-> @.before]]

\* A user that was not there is inserted; of one that was, a changed role is
\* written.  Mutant: the role of a known user stays.
ProvisionNewOnly(q) ==
  /\ Op(q) = "provision"
  /\ Commit(q, {body[q].subject}, 0)
  /\ role' = [role EXCEPT ![body[q].subject] = IF @ = NoRole THEN body[q].role ELSE @]
  /\ UNCHANGED <<scopes, profiles, schedules, runs>>
Provision(q) ==
  /\ Op(q) = "provision"
  /\ loaded[q].role = NoRole => role[body[q].subject] = NoRole
  /\ Commit(q, {body[q].subject}, 0)
  /\ role' = IF loaded[q].role = body[q].role THEN role
             ELSE [role EXCEPT ![body[q].subject] = body[q].role]
  /\ UNCHANGED <<scopes, profiles, schedules, runs>>

PendingScopes(q, rows) ==
  {[id |-> <<q, d.name>>, name |-> d.name, cidr |-> d.cidr, zone |-> d.zone,
    approved |-> FALSE] : d \in rows}

\* Mutant: the rows that do not clash are stored.
InsertWhatFits(q) ==
  /\ Commit(q, {<<q, d.name>> : d \in UnknownScopes(body[q].rows)}, 0)
  /\ scopes' = scopes \cup PendingScopes(q, UnknownScopes(body[q].rows))
  /\ UNCHANGED <<role, profiles, schedules, runs>>
InsertScopes(q) ==
  /\ NewScopes(body[q].rows)
  /\ Commit(q, {<<q, d.name>> : d \in body[q].rows}, 0)
  /\ scopes' = scopes \cup PendingScopes(q, body[q].rows)
  /\ UNCHANGED <<role, profiles, schedules, runs>>

AddScope(q) == Op(q) = "addScope" /\ InsertScopes(q)
ImportScopes(q) == Op(q) = "importScopes" /\ InsertScopes(q)

\* A scope that was approved already is not written, and may be gone.  Mutant: the
\* row is written back whether or not it is there.
ApproveByMerge(q, s) ==
  /\ Op(q) = "approve" /\ s \in loaded[q].scopes
  /\ Commit(q, {s.id}, 0)
  /\ scopes' = {t \in scopes : t.id # s.id} \cup {[s EXCEPT !.approved = TRUE]}
  /\ UNCHANGED <<role, profiles, schedules, runs>>
ApproveScope(q, s) ==
  /\ Op(q) = "approve" /\ s \in loaded[q].scopes
  /\ s.approved \/ \E t \in scopes : t.id = s.id
  /\ Commit(q, {s.id}, 0)
  /\ scopes' = {IF t.id = s.id THEN [t EXCEPT !.approved = TRUE] ELSE t : t \in scopes}
  /\ UNCHANGED <<role, profiles, schedules, runs>>

\* Foreign keys.  Mutant: there are none, the check of the request has to do.
UnreferencedAnyway(table, id) == TRUE
Unreferenced(table, id) ==
  \A r \in Referring : (IF table = "scopes" THEN r.scope ELSE r.profile) # id

DeleteScope(q, s) ==
  /\ Op(q) = "deleteScope" /\ s \in loaded[q].scopes
  /\ Unreferenced("scopes", s.id)
  /\ Commit(q, {s.id}, 0)
  /\ scopes' = {t \in scopes : t.id # s.id}
  /\ UNCHANGED <<role, profiles, schedules, runs>>

\* latest.version + 1, of the versions that were there; uq_profile_version.
LatestVersion(table) ==
  IF table = {} THEN 0
  ELSE CHOOSE v \in {p.version : p \in table} : \A p \in table : p.version <= v

AddProfile(q) ==
  /\ Op(q) = "addProfile"
  /\ LET version == LatestVersion(loaded[q].profiles) + 1
     IN  /\ \A p \in profiles : p.name = body[q].profile => p.version # version
         /\ Commit(q, {q}, version)
         /\ profiles' = profiles \cup {[id |-> q, name |-> body[q].profile,
                                        version |-> version, zone |-> body[q].zone]}
  /\ UNCHANGED <<role, scopes, schedules, runs>>

DeleteProfile(q, p) ==
  /\ Op(q) = "deleteProfile" /\ p \in loaded[q].profiles
  /\ Unreferenced("profiles", p.id)
  /\ Commit(q, {p.id}, 0)
  /\ profiles' = {t \in profiles : t.id # p.id}
  /\ UNCHANGED <<role, scopes, schedules, runs>>

\* The foreign keys of a row that refers to scope s and profile p.
Present(s, p) == (\E t \in scopes : t.id = s.id) /\ (\E t \in profiles : t.id = p.id)

AddSchedule(q, s, p) ==
  /\ Op(q) = "addSchedule" /\ s \in loaded[q].scopes /\ p \in loaded[q].profiles
  /\ Present(s, p)
  /\ \A d \in schedules : d.name # body[q].schedule
  /\ Commit(q, {q}, 0)
  /\ schedules' = schedules \cup {[id |-> q, name |-> body[q].schedule,
                                   scope |-> s.id, profile |-> p.id]}
  /\ UNCHANGED <<role, scopes, profiles, runs>>

\* create_run, called by the API and by the scheduler; what follows is ScanRun.
CreateRun(q, s, p) ==
  /\ Op(q) \in {"addRun", "scheduledRun"}
  /\ s \in loaded[q].scopes /\ p \in loaded[q].profiles
  /\ Present(s, p)
  /\ Commit(q, {q}, 0)
  /\ runs' = runs \cup {[id |-> q, scope |-> s.id, profile |-> p.id, shards |-> Shards(s.cidr)]}
  /\ UNCHANGED <<role, scopes, profiles, schedules>>

Write(q) ==
  \/ Provision(q) \/ AddScope(q) \/ ImportScopes(q) \/ AddProfile(q)
  \/ \E s \in loaded[q].scopes : ApproveScope(q, s) \/ DeleteScope(q, s)
  \/ \E p \in loaded[q].profiles : DeleteProfile(q, p)
  \/ \E s \in loaded[q].scopes, p \in loaded[q].profiles :
       AddSchedule(q, s, p) \/ CreateRun(q, s, p)

Next == Bootstrap \/ \E q \in Request : Begin(q) \/ Write(q)

Spec == Init /\ [][Next]_vars

-----------------------------------------------------------------------------
\* Every variable holds a value of its type.
TypeOK ==
  /\ role \in [Subject -> Role \cup {NoRole}]
  /\ scopes \subseteq Scope /\ profiles \subseteq Profile
  /\ schedules \subseteq Schedule /\ runs \subseteq Run
  /\ trail \subseteq Event
  /\ pc \in [Request -> {"new", "open", "committed"}]
  /\ loaded \in [Request -> Session]

\* Whatever is deleted, approved and created at the same time, a run and a schedule
\* refer to a scope that is there and approved and to a profile of its zone: the
\* scheduler's branch for those that do not fit is never taken (create_run,
\* add_schedule, delete_scope, delete_profile, dispatch_due_schedules).
ReferencesStayRunnable ==
  \A r \in Referring :
    \E s \in scopes, p \in profiles :
      s.id = r.scope /\ p.id = r.profile /\ s.approved /\ s.zone = p.zone

\* The shards of a run are disjoint, cover its scope and nothing else, and are
\* within the limits (shard_cidr).
ShardsPartitionTheScope ==
  \A r \in runs, s \in scopes : s.id = r.scope =>
    /\ UNION {Addresses(n) : n \in r.shards} = Addresses(s.cidr)
    /\ \A m, n \in r.shards : m # n => Addresses(m) \cap Addresses(n) = {}
    /\ \A n \in r.shards : n.prefix >= ShardPrefix
    /\ Cardinality(r.shards) = 1 \/ Cardinality(r.shards) <= MaxShards

\* The number of a deleted version is given out again, but never one that a run
\* has used: name and version tell what a run scanned with (add_profile,
\* delete_profile).
VersionsTold(id) == {e.version : e \in {e \in trail : e.of = id /\ Op(e.request) = "addProfile"}}

RunsNameOneProfile ==
  \A r1, r2 \in runs :
    /\ body[r1.profile].profile = body[r2.profile].profile
    /\ VersionsTold(r1.profile) \cap VersionsTold(r2.profile) # {}
    => r1.profile = r2.profile

Told(ops, id) == \E e \in trail : e.of = id /\ Op(e.request) \in ops

\* The audit trail tells the inventory: the scopes created and not deleted are
\* there, those approved are approved, and no others, although an approval may be
\* told of a scope that is gone and a deletion twice (audit and its callers).
TrailTellsScopes ==
  \A id \in {s.id : s \in scopes} \cup {e.of : e \in trail} :
    /\ (\E s \in scopes : s.id = id) <=>
         Told({"addScope", "importScopes"}, id) /\ ~Told({"deleteScope"}, id)
    /\ \A s \in scopes : s.id = id => (s.approved <=> Told({"approve"}, id))

\* An import is stored as a whole or not at all (import_scopes_csv).
ImportsAreWhole ==
  \A q \in Request : Op(q) = "importScopes" =>
    {d \in body[q].rows : Told({"importScopes"}, <<q, d.name>>)} \in {{}, body[q].rows}

\* Nobody but the bootstrap administrator does anything before an administrator
\* has given it a role that allows it (current_user, require_roles).
ActsAreAuthorized ==
  [][\A e \in trail' \ trail :
       \/ Op(e.request) = "scheduledRun"
       \/ body[e.request].by = Root
       \/ \E g \in trail : /\ Op(g.request) = "provision" /\ g.of = body[e.request].by
                           /\ body[g.request].role \in Permitted[Op(e.request)]]_vars

\* The role of a user is one it was given and that no later request took away:
\* a request that began after another one had committed is never overwritten by
\* it, although one that repeats the role it has read writes nothing
\* (provision_user).
NoLostDemotion ==
  \A u \in Subject : Provisionings(u) # {} =>
    \E g \in Provisionings(u) :
      /\ role[u] = body[g].role
      /\ \A h \in Provisionings(u) : g \in loaded[h].before => body[h].role = role[u]
=============================================================================
