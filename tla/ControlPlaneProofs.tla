------------------------- MODULE ControlPlaneProofs -------------------------
(***************************************************************************)
(* Proofs about ControlPlane, for any requests, subjects and settings.     *)
(*                                                                         *)
(* What a request decides on may change before it commits.  It commits     *)
(* what is right all the same, as ids are never given out again            *)
(* (Committed), a scope keeps its range and zone and is never disapproved  *)
(* (ScopesKeep), a profile is never changed (ProfilesKeep), an event is    *)
(* never removed (RolesAreGiven), and keys are checked at the commit.      *)
(* The last writer of a role (LastWriter) is known to every session that   *)
(* began after it.                                                         *)
(***************************************************************************)
EXTENDS ControlPlane, FiniteSetTheorems, WellFoundedInduction, TLAPS

\* The versions that are there, and those a request has read, have a bound.
Bounded ==
  \E b \in Nat :
    /\ \A p \in profiles : p.version <= b
    /\ \A q \in Request : \A p \in loaded[q].profiles : p.version <= b

\* What was checked when a request began is still so when it commits.
Checked ==
  \A q \in Request : pc[q] = "open" =>
    /\ Op(q) \in {"addScope", "importScopes"} =>
         \A d, e \in body[q].rows : d # e => d.name # e.name
    /\ Op(q) \in {"addSchedule", "addRun", "scheduledRun"} =>
         \A s \in loaded[q].scopes, p \in loaded[q].profiles : s.approved /\ s.zone = p.zone
    /\ Op(q) \in {"addRun", "scheduledRun"} =>
         \A s \in loaded[q].scopes : Shardable(s.cidr)

\* Rows, events and provisionings are those of requests that have committed.
Committed ==
  /\ \A t \in scopes : pc[t.id[1]] = "committed"
  /\ \A p \in profiles : pc[p.id] = "committed" /\ Op(p.id) = "addProfile"
  /\ \A e \in trail : pc[e.request] = "committed"
  /\ \A q \in Request :
       /\ \A s \in loaded[q].scopes : pc[s.id[1]] = "committed"
       /\ \A p \in loaded[q].profiles : pc[p.id] = "committed" /\ Op(p.id) = "addProfile"
       /\ \A g \in loaded[q].before : pc[g] = "committed"

\* A scope keeps its id, its range and its zone, and an approved one stays so.
SameScope(s, t) ==
  s.id = t.id => s.zone = t.zone /\ s.cidr = t.cidr /\ (s.approved => t.approved)
ScopesKeep ==
  /\ \A t \in scopes : t.id[2] = t.name
  /\ \A s, t \in scopes : s.name = t.name => s = t
  /\ \A q \in Request : \A s \in loaded[q].scopes, t \in scopes : SameScope(s, t)

\* A profile is never changed.
ProfilesKeep ==
  /\ \A p \in profiles : p.name = body[p.id].profile
  /\ \A p, o \in profiles : p.id = o.id \/ (p.name = o.name /\ p.version = o.version) => p = o
  /\ \A q \in Request : \A p \in loaded[q].profiles, o \in profiles : p.id = o.id => p = o

\* The audit event of a profile tells its version.
VersionsAreTold ==
  /\ \A e \in trail : Op(e.request) = "addProfile" => e.of = e.request
  /\ \A e \in trail, p \in profiles : e.request = p.id => e.version = p.version

\* The shards of a run are those of its scope, which was fit to be sharded.
ShardsOfScope ==
  \A r \in runs, s \in scopes :
    s.id = r.scope => r.shards = Shards(s.cidr) /\ Shardable(s.cidr)

\* The events of the scopes, and of those that requests have read.
ScopesAreTold ==
  /\ \A e \in trail :
       /\ Op(e.request) \in {"addScope", "importScopes"} =>
            e.of \in ScopeId /\ e.of[1] = e.request
       /\ Op(e.request) \in {"approve", "deleteScope"} =>
            e.of \in ScopeId /\ Told({"addScope", "importScopes"}, e.of)
  /\ \A q \in Request : \A s \in loaded[q].scopes :
       Told({"addScope", "importScopes"}, s.id) /\ (s.approved => Told({"approve"}, s.id))

\* A committed import has told of all its rows.
ImportsAreTold ==
  \A q \in Request : Op(q) = "importScopes" /\ pc[q] = "committed" =>
    \A d \in body[q].rows : Told({"importScopes"}, <<q, d.name>>)

\* A role, or one that allows what an open request asks, has been given.
Given(u, roles) ==
  \E g \in trail : Op(g.request) = "provision" /\ g.of = u /\ body[g.request].role \in roles
RolesAreGiven ==
  /\ \A u \in Subject \ {Root} : role[u] = NoRole \/ Given(u, {role[u]})
  /\ \A q \in Request : pc[q] = "open" =>
       \/ Op(q) = "scheduledRun" \/ body[q].by = Root
       \/ Given(body[q].by, Permitted[Op(q)])

\* The last request that wrote a role: no session that began later has read another.
WroteLast(g, u) ==
  /\ role[u] = body[g].role
  /\ \A h \in Request :
       Op(h) = "provision" /\ body[h].subject = u /\ g \in loaded[h].before =>
         /\ pc[h] = "open" => loaded[h].role = role[u]
         /\ pc[h] = "committed" => body[h].role = role[u]
LastWriter ==
  \A u \in Subject :
    IF Provisionings(u) # {} THEN \E g \in Provisionings(u) : WroteLast(g, u)
    ELSE \A h \in Request :
           pc[h] = "open" /\ Op(h) = "provision" /\ body[h].subject = u =>
             loaded[h].role = NoRole \/ loaded[h].role = role[u]

IInv == /\ TypeOK /\ Bounded /\ Checked /\ Committed /\ ScopesKeep /\ ProfilesKeep
        /\ ReferencesStayRunnable /\ VersionsAreTold /\ ShardsOfScope /\ ScopesAreTold
        /\ TrailTellsScopes /\ ImportsAreTold /\ RolesAreGiven /\ LastWriter

-----------------------------------------------------------------------------
\* A set of natural numbers that has a bound has a greatest.
LEMMA GreatestNatural ==
  ASSUME NEW T, T \subseteq Nat, T # {}, NEW b \in Nat, \A n \in T : n <= b
  PROVE  \E m \in T : \A n \in T : n <= m
<1> DEFINE U == {n \in Nat : n <= b /\ b - n \in T}
<1>1. U \subseteq Nat
  OBVIOUS
<1>2. U # {}
  <2>1. PICK n \in T : TRUE
    OBVIOUS
  <2>2. n \in Nat /\ n <= b
    BY <2>1
  <2>3. b - n \in Nat /\ b - n <= b /\ b - (b - n) = n
    BY <2>2
  <2>4. b - n \in U
    BY <2>1, <2>3
  <2> QED
    BY <2>4
<1>3. PICK x \in U : \A y \in U : ~(<<y, x>> \in OpToRel(<, Nat))
  <2>1. IsWellFoundedOn(OpToRel(<, Nat), Nat)
    BY NatLessThanWellFounded, Zenon
  <2> HIDE DEF U
  <2> QED
    BY <1>1, <1>2, <2>1, WFMin, Zenon
<1>4. x \in Nat /\ b - x \in T
  BY <1>3
<1>5. ASSUME NEW n \in T PROVE n <= b - x
  <2>1. n \in Nat /\ n <= b /\ b - n \in Nat /\ b - (b - n) = n
    BY <1>5
  <2>2. b - n \in U
    BY <2>1
  <2>3. ~(b - n < x)
    <3> HIDE DEF U
    <3> QED
      BY <1>1, <1>3, <2>2, Zenon DEF OpToRel
  <2> QED
    BY <1>4, <2>1, <2>3
<1> QED
  BY <1>4, <1>5

\* The latest of versions that have a bound is a natural number that none exceeds.
LEMMA LatestIsLatest ==
  ASSUME NEW table, \A p \in table : p.version \in Nat,
         NEW b \in Nat, \A p \in table : p.version <= b
  PROVE  LatestVersion(table) \in Nat /\ \A p \in table : p.version <= LatestVersion(table)
<1>1. CASE table = {}
  BY <1>1 DEF LatestVersion
<1>2. CASE table # {}
  <2> DEFINE T == {p.version : p \in table}
  <2>1. T \subseteq Nat /\ T # {} /\ \A n \in T : n <= b
    BY <1>2
  <2>2. \E m \in T : \A n \in T : n <= m
    <3> HIDE DEF T
    <3> QED
      BY <2>1, GreatestNatural
  <2>3. \E v \in T : \A p \in table : p.version <= v
    BY <2>2
  <2>4. LatestVersion(table) = CHOOSE v \in T : \A p \in table : p.version <= v
    BY <1>2 DEF LatestVersion
  <2> HIDE DEF T
  <2> QED
    BY <2>1, <2>3, <2>4
<1> QED
  BY <1>1, <1>2

\* Only these versions are created.
LEMMA NewVersion ==
  ASSUME TypeOK, Bounded, NEW q \in Request
  PROVE  LatestVersion(loaded[q].profiles) \in Nat
<1>1. PICK b \in Nat : \A p \in loaded[q].profiles : p.version <= b
  BY DEF Bounded
<1>2. \A p \in loaded[q].profiles : p.version \in Nat
  BY DEF TypeOK, Session, Profile
<1> QED
  BY <1>1, <1>2, LatestIsLatest

\* What a request reads is there.
LEMMA ReadFromTables ==
  ASSUME NEW q \in Request
  PROVE  WantedScopes(q) \subseteq scopes /\ WantedProfiles(q) \subseteq profiles
BY DEF WantedScopes, WantedProfiles

\* The rows of a request are stored pending, under its own ids.
LEMMA Inserted ==
  ASSUME NEW q \in Request, InsertScopes(q)
  PROVE  /\ \A t \in scopes' : t \in scopes \/
              \E d \in body[q].rows :
                t = [id |-> <<q, d.name>>, name |-> d.name, cidr |-> d.cidr, zone |-> d.zone,
                     approved |-> FALSE]
         /\ \A d \in body[q].rows :
              /\ \A s \in scopes : d.name # s.name
              /\ \E t \in scopes' : t.id = <<q, d.name>>
         /\ scopes \subseteq scopes'
         /\ \A e \in trail' : e \in trail \/
              \E d \in body[q].rows : e = [request |-> q, of |-> <<q, d.name>>, version |-> 0]
         /\ \A d \in body[q].rows :
              [request |-> q, of |-> <<q, d.name>>, version |-> 0] \in trail'
         /\ trail \subseteq trail'
         /\ pc[q] = "open"
<1> DEFINE row(d) == [id |-> <<q, d.name>>, name |-> d.name, cidr |-> d.cidr, zone |-> d.zone,
                      approved |-> FALSE]
           event(d) == [request |-> q, of |-> <<q, d.name>>, version |-> 0]
<1>1. scopes' = scopes \cup {row(d) : d \in body[q].rows}
  BY DEF InsertScopes, PendingScopes
<1>2. trail' = trail \cup {event(d) : d \in body[q].rows}
  <2>1. trail' = trail \cup {[request |-> q, of |-> i, version |-> 0] :
                               i \in {<<q, d.name>> : d \in body[q].rows}}
    BY DEF InsertScopes, Commit
  <2> QED
    BY <2>1
<1>3. \A d \in body[q].rows : \A s \in scopes : d.name # s.name
  BY DEF InsertScopes, NewScopes, UnknownScopes
<1>4. ASSUME NEW d \in body[q].rows PROVE \E t \in scopes' : t.id = <<q, d.name>>
  <2>1. row(d) \in scopes' /\ row(d).id = <<q, d.name>>
    BY <1>1
  <2> QED
    BY <2>1
<1>5. pc[q] = "open"
  BY DEF InsertScopes, Commit
<1> QED
  BY <1>1, <1>2, <1>3, <1>4, <1>5

\* Approving a scope changes nothing else of it, and no other.
LEMMA Approved ==
  ASSUME TypeOK, NEW q \in Request, NEW s \in loaded[q].scopes, ApproveScope(q, s)
  PROVE  /\ \A t \in scopes' : \E o \in scopes :
              /\ t.id = o.id /\ t.name = o.name /\ t.cidr = o.cidr /\ t.zone = o.zone
              /\ t = IF o.id = s.id THEN [o EXCEPT !.approved = TRUE] ELSE o
              /\ t.approved = (o.approved \/ o.id = s.id)
         /\ \A o \in scopes : \E t \in scopes' : t.id = o.id
         /\ scopes' \subseteq Scope
<1> DEFINE new(o) == IF o.id = s.id THEN [o EXCEPT !.approved = TRUE] ELSE o
<1>1. scopes' = {new(o) : o \in scopes}
  BY DEF ApproveScope
<1>2. ASSUME NEW o \in scopes
      PROVE  /\ new(o) \in Scope
             /\ new(o).id = o.id /\ new(o).name = o.name
             /\ new(o).cidr = o.cidr /\ new(o).zone = o.zone
             /\ new(o).approved = (o.approved \/ o.id = s.id)
  <2>1. o \in Scope
    BY DEF TypeOK
  <2>2. CASE o.id = s.id
    BY <2>1, <2>2 DEF Scope
  <2>3. CASE o.id # s.id
    BY <2>1, <2>3 DEF Scope
  <2> QED
    BY <2>2, <2>3
<1>3. \A t \in scopes' : \E o \in scopes : t = new(o)
  BY <1>1
<1>4. \A o \in scopes : new(o) \in scopes'
  BY <1>1
<1>5. \A t \in scopes' : \E o \in scopes :
        /\ t.id = o.id /\ t.name = o.name /\ t.cidr = o.cidr /\ t.zone = o.zone
        /\ t = new(o)
        /\ t.approved = (o.approved \/ o.id = s.id)
  <2> SUFFICES ASSUME NEW t \in scopes'
               PROVE  \E o \in scopes :
                        /\ t.id = o.id /\ t.name = o.name /\ t.cidr = o.cidr
                        /\ t.zone = o.zone /\ t = new(o)
                        /\ t.approved = (o.approved \/ o.id = s.id)
    OBVIOUS
  <2>1. PICK o \in scopes : t = new(o)
    BY <1>3
  <2> HIDE DEF new
  <2> QED
    BY <1>2, <2>1
<1>6. \A o \in scopes : \E t \in scopes' : t.id = o.id
  <2> HIDE DEF new
  <2> QED
    BY <1>2, <1>4
<1>7. scopes' \subseteq Scope
  <2> HIDE DEF new
  <2> QED
    BY <1>2, <1>3
<1> QED
  BY <1>5, <1>6, <1>7

\* Arithmetic.
LEMMA Ordered ==
  ASSUME NEW i \in Nat, NEW j \in Nat, NEW z \in Nat, i < j
  PROVE  i * z + z <= j * z
<1>1. j * z = i * z + (j - i) * z /\ j - i \in Nat /\ j - i >= 1
  BY SMT
<1> DEFINE d == j - i
<1>2. d \in Nat /\ d >= 1 /\ d * z = (d - 1) * z + z /\ d - 1 \in Nat
  BY <1>1
<1>3. (d - 1) * z \in Nat
  BY <1>2
<1> QED
  BY <1>1, <1>2, <1>3

LEMMA Located ==
  ASSUME NEW c \in Nat, NEW z \in Nat \ {0}, NEW y \in Nat, y < c * z
  PROVE  \E i \in 0 .. c - 1 : i * z <= y /\ y < i * z + z
<1> DEFINE i == y \div z
<1>1. i \in Nat /\ i * z <= y /\ y < i * z + z
  BY SMT
<1>2. i < c
  <2>1. ASSUME c < i PROVE FALSE
    <3>1. c * z + z <= i * z
      BY <1>1, <2>1, Ordered
    <3>2. c * z \in Nat /\ i * z \in Nat
      BY <1>1
    <3> QED
      BY <1>1, <3>1, <3>2
  <2>2. c # i
    BY <1>1
  <2> QED
    BY <1>1, <2>1, <2>2
<1> HIDE DEF i
<1>3. i \in 0 .. c - 1
  BY <1>1, <1>2
<1> QED
  BY <1>1, <1>3

LEMMA Intervals ==
  ASSUME NEW b \in Nat, NEW a \in Nat, NEW z \in Nat, NEW e \in Nat, a + z <= e
  PROVE  /\ (b + a .. b + a + z - 1) \subseteq (b .. b + e - 1)
         /\ (b + a .. b + a + z - 1) \cap (b + e .. b + e + z - 1) = {}
OBVIOUS

\* The shards of a network that is wider than a shard, by number.
Numbered(n, i) == [base |-> n.base + i * Size(ShardPrefix), prefix |-> ShardPrefix]

\* A network is as large as its shards.
LEMMA ShardSizes ==
  ASSUME NEW n \in Network, n.prefix < ShardPrefix
  PROVE  /\ Size(ShardPrefix) \in Nat \ {0}
         /\ 2 ^ (ShardPrefix - n.prefix) \in Nat \ {0}
         /\ Size(n.prefix) = 2 ^ (ShardPrefix - n.prefix) * Size(ShardPrefix)
         /\ Shards(n) = {Numbered(n, i) : i \in 0 .. 2 ^ (ShardPrefix - n.prefix) - 1}
<1> DEFINE j == ShardPrefix - n.prefix
           k == Width - ShardPrefix
<1>1. j \in 0 .. Width /\ k \in 0 .. Width /\ j + k = Width - n.prefix
  BY SettingsAssumption DEF Network
<1>2. 2 ^ j \in Nat \ {0} /\ 2 ^ k \in Nat \ {0} /\ 2 ^ (j + k) = 2 ^ j * 2 ^ k
  BY <1>1, PowerAssumption
<1>3. ~(n.prefix >= ShardPrefix)
  BY SettingsAssumption DEF Network
<1> QED
  BY <1>1, <1>2, <1>3 DEF Size, Shards, Numbered

LEMMA ShardsAreNetworks ==
  ASSUME NEW n \in Network
  PROVE  Shards(n) \subseteq Network
<1>1. CASE n.prefix >= ShardPrefix
  BY <1>1 DEF Shards
<1>2. CASE n.prefix < ShardPrefix
  <2> DEFINE z == Size(ShardPrefix)
             c == 2 ^ (ShardPrefix - n.prefix)
  <2>1. z \in Nat /\ c \in Nat /\ Shards(n) = {Numbered(n, i) : i \in 0 .. c - 1}
    BY <1>2, ShardSizes
  <2> HIDE DEF c
  <2>2. ASSUME NEW i \in 0 .. c - 1 PROVE Numbered(n, i) \in Network
    <3>1. i \in Nat
      BY <2>1
    <3>2. i * z \in Nat
      BY <2>1, <3>1
    <3> QED
      BY <3>2, SettingsAssumption DEF Numbered, Network
  <2> QED
    BY <2>1, <2>2
<1> QED
  BY <1>1, <1>2, SettingsAssumption DEF Network

\* Shards are disjoint, of the size that is asked for, and cover what they are made of.
LEMMA ShardsPartition ==
  ASSUME NEW n \in Network
  PROVE  /\ UNION {Addresses(m) : m \in Shards(n)} = Addresses(n)
         /\ \A l, m \in Shards(n) : l # m => Addresses(l) \cap Addresses(m) = {}
         /\ \A m \in Shards(n) : m.prefix >= ShardPrefix
<1>1. CASE n.prefix >= ShardPrefix
  BY <1>1 DEF Shards
<1>2. CASE n.prefix < ShardPrefix
  <2> DEFINE z == Size(ShardPrefix)
             c == 2 ^ (ShardPrefix - n.prefix)
  <2>1. /\ z \in Nat \ {0} /\ c \in Nat \ {0} /\ Size(n.prefix) = c * z
        /\ Shards(n) = {Numbered(n, i) : i \in 0 .. c - 1}
    BY <1>2, ShardSizes
  <2>2. Addresses(n) = n.base .. n.base + c * z - 1
    BY <2>1 DEF Addresses
  <2>3. n.base \in Nat /\ ShardPrefix \in Nat
    BY SettingsAssumption DEF Network
  <2>4. \A i : /\ Addresses(Numbered(n, i)) = n.base + i * z .. n.base + i * z + z - 1
               /\ Numbered(n, i).prefix = ShardPrefix
    BY DEF Addresses, Numbered
  <2> HIDE DEF z, c
  <2>5. ASSUME NEW x \in Addresses(n) PROVE \E m \in Shards(n) : x \in Addresses(m)
    <3> DEFINE y == x - n.base
    <3>1. c * z \in Nat
      BY <2>1
    <3>2. y \in Nat /\ y < c * z /\ x = n.base + y
      BY <2>2, <2>3, <3>1
    <3>3. PICK i \in 0 .. c - 1 : i * z <= y /\ y < i * z + z
      BY <2>1, <3>2, Located
    <3>4. i \in Nat /\ i * z \in Nat
      BY <2>1, <3>3
    <3>5. x \in Addresses(Numbered(n, i))
      BY <2>1, <2>3, <2>4, <3>2, <3>3, <3>4
    <3> QED
      BY <2>1, <3>5
  <2>6. ASSUME NEW i \in 0 .. c - 1 PROVE Addresses(Numbered(n, i)) \subseteq Addresses(n)
    <3>1. i \in Nat /\ i < c /\ i * z \in Nat /\ c * z \in Nat
      BY <2>1
    <3>2. i * z + z <= c * z
      BY <2>1, <3>1, Ordered
    <3>3. (n.base + i * z .. n.base + i * z + z - 1) \subseteq (n.base .. n.base + c * z - 1)
      BY <2>1, <2>3, <3>1, <3>2, Intervals
    <3> QED
      BY <2>2, <2>4, <3>3
  <2>7. ASSUME NEW i \in 0 .. c - 1, NEW j \in 0 .. c - 1, i < j
        PROVE  Addresses(Numbered(n, i)) \cap Addresses(Numbered(n, j)) = {}
    <3>1. i \in Nat /\ j \in Nat /\ i * z \in Nat /\ j * z \in Nat
      BY <2>1
    <3>2. i * z + z <= j * z
      BY <2>1, <2>7, <3>1, Ordered
    <3>3. (n.base + i * z .. n.base + i * z + z - 1)
            \cap (n.base + j * z .. n.base + j * z + z - 1) = {}
      BY <2>1, <2>3, <3>1, <3>2, Intervals
    <3> QED
      BY <2>4, <3>3
  <2>8. ASSUME NEW l \in Shards(n), NEW m \in Shards(n), l # m
        PROVE  Addresses(l) \cap Addresses(m) = {}
    <3>1. PICK i \in 0 .. c - 1, j \in 0 .. c - 1 : l = Numbered(n, i) /\ m = Numbered(n, j)
      BY <2>1
    <3>2. i < j \/ j < i
      BY <2>1, <2>8, <3>1
    <3> QED
      BY <2>7, <3>1, <3>2
  <2>9. \A m \in Shards(n) : Addresses(m) \subseteq Addresses(n) /\ m.prefix >= ShardPrefix
    BY <2>1, <2>3, <2>4, <2>6
  <2> QED
    BY <2>5, <2>8, <2>9
<1> QED
  BY <1>1, <1>2, SettingsAssumption DEF Network

\* A network that may be sharded has no more shards than the settings allow.
LEMMA FewShards ==
  ASSUME NEW n \in Network, Shardable(n)
  PROVE  Cardinality(Shards(n)) = 1 \/ Cardinality(Shards(n)) <= MaxShards
<1>1. CASE n.prefix >= ShardPrefix
  BY <1>1, FS_Singleton DEF Shards
<1>2. CASE ~(n.prefix >= ShardPrefix)
  BY <1>2 DEF Shardable
<1> QED
  BY <1>1, <1>2

\* Every step keeps the types.
LEMMA TypeKept ==
  ASSUME TypeOK, Bounded, [Next]_vars
  PROVE  TypeOK'
<1>1. ASSUME Bootstrap PROVE TypeOK'
  BY <1>1 DEF Bootstrap, TypeOK, Session, Role
<1>2. ASSUME NEW q \in Request, Begin(q) PROVE TypeOK'
  <2>1. /\ WantedScopes(q) \subseteq Scope /\ WantedProfiles(q) \subseteq Profile
        /\ Provisionings(body[q].subject) \subseteq Request
    BY ReadFromTables DEF TypeOK, Provisionings
  <2>2. body[q].subject \in Subject
    BY BodyAssumption DEF Body
  <2> QED
    BY <1>2, <2>1, <2>2 DEF Begin, tables, TypeOK, Session, Role, NoRole
<1>3. ASSUME NEW q \in Request, Provision(q) PROVE TypeOK'
  <2>1. body[q].subject \in Subject /\ body[q].role \in Role
    BY BodyAssumption DEF Body
  <2>2. [request |-> q, of |-> body[q].subject, version |-> 0] \in Event
    BY <2>1 DEF Event
  <2>3. trail' \subseteq Event
    BY <1>3, <2>2 DEF Provision, Commit, TypeOK
  <2>4. role' \in [Subject -> Role \cup {NoRole}]
    BY <1>3, <2>1 DEF Provision, TypeOK
  <2>5. loaded' \in [Request -> Session]
    BY <1>3 DEF Provision, Commit, TypeOK, Session
  <2>6. pc' \in [Request -> {"new", "open", "committed"}]
    BY <1>3 DEF Provision, Commit, TypeOK
  <2> QED
    BY <1>3, <2>3, <2>4, <2>5, <2>6 DEF Provision, TypeOK
<1>4. ASSUME NEW q \in Request, Op(q) \in {"addScope", "importScopes"},
            InsertScopes(q) PROVE TypeOK'
  <2>1. ASSUME NEW d \in body[q].rows
        PROVE  /\ [id |-> <<q, d.name>>, name |-> d.name, cidr |-> d.cidr, zone |-> d.zone,
                   approved |-> FALSE] \in Scope
               /\ [request |-> q, of |-> <<q, d.name>>, version |-> 0] \in Event
    <3>1. d.name \in Name /\ d.cidr \in Network /\ d.zone \in Zone
      BY BodyAssumption DEF Body, Draft
    <3>2. <<q, d.name>> \in ScopeId
      BY <3>1 DEF ScopeId
    <3> QED
      BY <3>1, <3>2 DEF Scope, Event
  <2>2. scopes' \subseteq Scope
    <3> SUFFICES ASSUME NEW t \in scopes' PROVE t \in Scope
      OBVIOUS
    <3>1. t \in scopes \/
            \E d \in body[q].rows :
              t = [id |-> <<q, d.name>>, name |-> d.name, cidr |-> d.cidr, zone |-> d.zone,
                   approved |-> FALSE]
      BY <1>4, Inserted
    <3>2. scopes \subseteq Scope
      BY DEF TypeOK
    <3> QED
      BY <2>1, <3>1, <3>2
  <2>3. trail' \subseteq Event
    <3> SUFFICES ASSUME NEW e \in trail' PROVE e \in Event
      OBVIOUS
    <3>1. e \in trail \/
            \E d \in body[q].rows : e = [request |-> q, of |-> <<q, d.name>>, version |-> 0]
      BY <1>4, Inserted
    <3>2. trail \subseteq Event
      BY DEF TypeOK
    <3> QED
      BY <2>1, <3>1, <3>2
  <2>4. loaded' \in [Request -> Session]
    BY <1>4 DEF InsertScopes, Commit, TypeOK, Session
  <2>5. pc' \in [Request -> {"new", "open", "committed"}]
    BY <1>4 DEF InsertScopes, Commit, TypeOK
  <2> QED
    BY <1>4, <2>2, <2>3, <2>4, <2>5 DEF InsertScopes, TypeOK
<1>5. ASSUME NEW q \in Request, AddProfile(q) PROVE TypeOK'
  <2> DEFINE v == LatestVersion(loaded[q].profiles) + 1
             p == [id |-> q, name |-> body[q].profile, version |-> v, zone |-> body[q].zone]
  <2>1. v \in Nat
    BY NewVersion
  <2>2. p \in Profile
    BY <2>1, BodyAssumption DEF Profile, Body
  <2>3. profiles' = profiles \cup {p} /\ trail' = trail \cup {[request |-> q, of |-> q, version |-> v]}
    BY <1>5 DEF AddProfile, Commit
  <2>4. [request |-> q, of |-> q, version |-> v] \in Event
    BY <2>1 DEF Event
  <2> HIDE DEF p
  <2>5. profiles' \subseteq Profile /\ trail' \subseteq Event
    BY <2>2, <2>3, <2>4 DEF TypeOK
  <2> QED
    BY <1>5, <2>5 DEF AddProfile, Commit, TypeOK, Session
<1>6. ASSUME NEW q \in Request, NEW s \in loaded[q].scopes, ApproveScope(q, s) PROVE
            TypeOK'
  <2>1. scopes' \subseteq Scope
    BY <1>6, Approved
  <2>2. [request |-> q, of |-> s.id, version |-> 0] \in Event
    BY DEF Event, TypeOK, Session, Scope
  <2> QED
    BY <1>6, <2>1, <2>2 DEF ApproveScope, Commit, TypeOK, Session
<1>7. ASSUME NEW q \in Request, NEW s \in loaded[q].scopes, DeleteScope(q, s) PROVE
            TypeOK'
  BY <1>7 DEF DeleteScope, Commit, TypeOK, Session, Event, Scope
<1>8. ASSUME NEW q \in Request, NEW p \in loaded[q].profiles, DeleteProfile(q, p)
            PROVE TypeOK'
  BY <1>8 DEF DeleteProfile, Commit, TypeOK, Session, Event, Profile
<1>9. ASSUME NEW q \in Request, NEW s \in loaded[q].scopes, NEW p \in
            loaded[q].profiles, AddSchedule(q, s, p) PROVE TypeOK'
  <2>1. s.id \in ScopeId /\ p.id \in Request
    BY DEF TypeOK, Session, Scope, Profile
  <2>2. [id |-> q, name |-> body[q].schedule, scope |-> s.id, profile |-> p.id] \in Schedule
    BY <2>1, BodyAssumption DEF Schedule, Body
  <2>3. [request |-> q, of |-> q, version |-> 0] \in Event
    BY DEF Event
  <2> QED
    BY <1>9, <2>2, <2>3 DEF AddSchedule, Commit, TypeOK, Session
<1>10. ASSUME NEW q \in Request, NEW s \in loaded[q].scopes, NEW p \in
            loaded[q].profiles, CreateRun(q, s, p) PROVE TypeOK'
  <2>1. s \in Scope /\ p \in Profile
    BY DEF TypeOK, Session
  <2>2. Shards(s.cidr) \subseteq Network
    BY <2>1, ShardsAreNetworks DEF Scope
  <2>3. [id |-> q, scope |-> s.id, profile |-> p.id, shards |-> Shards(s.cidr)] \in Run
    BY <2>1, <2>2 DEF Run, Scope, Profile
  <2>4. [request |-> q, of |-> q, version |-> 0] \in Event
    BY DEF Event
  <2> QED
    BY <1>10, <2>3, <2>4 DEF CreateRun, Commit, TypeOK, Session
<1>11. CASE UNCHANGED vars
  BY <1>11 DEF vars, tables, TypeOK, Session
<1> QED
  BY <1>1, <1>2, <1>3, <1>4, <1>5, <1>6, <1>7, <1>8, <1>9, <1>10, <1>11 DEF Next,
     Write, AddScope, ImportScopes

\* The bound grows with the versions.
LEMMA BoundKept ==
  ASSUME TypeOK, Bounded, [Next]_vars
  PROVE  Bounded'
<1>1. ASSUME Bootstrap PROVE Bounded'
  BY <1>1 DEF Bootstrap, Bounded
<1>2. ASSUME NEW q \in Request, Begin(q) PROVE Bounded'
  <2>1. PICK b \in Nat : /\ \A p \in profiles : p.version <= b
                         /\ \A x \in Request : \A p \in loaded[x].profiles : p.version <= b
    BY DEF Bounded
  <2>2. profiles' = profiles /\ WantedProfiles(q) \subseteq profiles
    BY <1>2, ReadFromTables DEF Begin, tables
  <2>3. \A x \in Request : loaded'[x].profiles \subseteq profiles \cup loaded[x].profiles
    BY <1>2, <2>2 DEF Begin, TypeOK, Session
  <2> QED
    BY <2>1, <2>2, <2>3 DEF Bounded
<1>3. ASSUME NEW q \in Request, Provision(q) PROVE Bounded'
  BY <1>3 DEF Provision, Commit, Bounded
<1>4. ASSUME NEW q \in Request, Op(q) \in {"addScope", "importScopes"},
            InsertScopes(q) PROVE Bounded'
  BY <1>4 DEF InsertScopes, Commit, PendingScopes, Bounded
<1>5. ASSUME NEW q \in Request, AddProfile(q) PROVE Bounded'
  <2>1. PICK b \in Nat : /\ \A p \in profiles : p.version <= b
                         /\ \A x \in Request : \A p \in loaded[x].profiles : p.version <= b
    BY DEF Bounded
  <2> DEFINE v == LatestVersion(loaded[q].profiles) + 1
             c == IF v <= b THEN b ELSE v
  <2>2. v \in Nat
    BY NewVersion
  <2>3. \A p \in profiles : p.version \in Nat
    BY DEF TypeOK, Profile
  <2>4. \A x \in Request : \A p \in loaded[x].profiles : p.version \in Nat
    BY DEF TypeOK, Session, Profile
  <2>5. \A p \in profiles' : p \in profiles \/ p.version = v
    BY <1>5 DEF AddProfile
  <2>6. \A x \in Request : loaded'[x].profiles \subseteq loaded[x].profiles
    BY <1>5 DEF AddProfile, Commit, TypeOK, Session
  <2> HIDE DEF v
  <2>7. c \in Nat /\ b <= c /\ v <= c
    BY <2>2
  <2>8. \A p \in profiles' : p.version <= c
    BY <2>1, <2>3, <2>5, <2>7
  <2>9. \A x \in Request : \A p \in loaded'[x].profiles : p.version <= c
    BY <2>1, <2>4, <2>6, <2>7
  <2> QED
    BY <2>7, <2>8, <2>9 DEF Bounded
<1>6. ASSUME NEW q \in Request, NEW s \in loaded[q].scopes, ApproveScope(q, s) PROVE
            Bounded'
  BY <1>6 DEF ApproveScope, Commit, Bounded
<1>7. ASSUME NEW q \in Request, NEW s \in loaded[q].scopes, DeleteScope(q, s) PROVE
            Bounded'
  BY <1>7 DEF DeleteScope, Commit, Bounded
<1>8. ASSUME NEW q \in Request, NEW p \in loaded[q].profiles, DeleteProfile(q, p)
            PROVE Bounded'
  BY <1>8 DEF DeleteProfile, Commit, Bounded
<1>9. ASSUME NEW q \in Request, NEW s \in loaded[q].scopes, NEW p \in
            loaded[q].profiles, AddSchedule(q, s, p) PROVE Bounded'
  BY <1>9 DEF AddSchedule, Commit, Bounded
<1>10. ASSUME NEW q \in Request, NEW s \in loaded[q].scopes, NEW p \in
            loaded[q].profiles, CreateRun(q, s, p) PROVE Bounded'
  BY <1>10 DEF CreateRun, Commit, Bounded
<1>11. CASE UNCHANGED vars
  BY <1>11 DEF vars, tables, Bounded
<1> QED
  BY <1>1, <1>2, <1>3, <1>4, <1>5, <1>6, <1>7, <1>8, <1>9, <1>10, <1>11 DEF Next,
     Write, AddScope, ImportScopes

\* A session keeps what it has read, until it commits.
LEMMA CheckedKept ==
  ASSUME TypeOK, Checked, [Next]_vars
  PROVE  Checked'
<1>1. ASSUME Bootstrap PROVE Checked'
  BY <1>1 DEF Bootstrap, Checked, TypeOK, Session
<1>2. ASSUME NEW q \in Request, Begin(q) PROVE Checked'
  BY <1>2, BodyAssumption
     DEF Begin, tables, Checked, TypeOK, Session, Accepts, ScopesAcceptable,
         CanSchedule, CanRun, CanRefer, Runnable
<1>3. ASSUME NEW q \in Request, Provision(q) PROVE Checked'
  BY <1>3 DEF Provision, Commit, Checked, TypeOK, Session
<1>4. ASSUME NEW q \in Request, Op(q) \in {"addScope", "importScopes"},
            InsertScopes(q) PROVE Checked'
  BY <1>4 DEF InsertScopes, Commit, PendingScopes, Checked, TypeOK, Session
<1>5. ASSUME NEW q \in Request, AddProfile(q) PROVE Checked'
  BY <1>5 DEF AddProfile, Commit, Checked, TypeOK, Session
<1>6. ASSUME NEW q \in Request, NEW s \in loaded[q].scopes, ApproveScope(q, s) PROVE
            Checked'
  BY <1>6 DEF ApproveScope, Commit, Checked, TypeOK, Session
<1>7. ASSUME NEW q \in Request, NEW s \in loaded[q].scopes, DeleteScope(q, s) PROVE
            Checked'
  BY <1>7 DEF DeleteScope, Commit, Checked, TypeOK, Session
<1>8. ASSUME NEW q \in Request, NEW p \in loaded[q].profiles, DeleteProfile(q, p)
            PROVE Checked'
  BY <1>8 DEF DeleteProfile, Commit, Checked, TypeOK, Session
<1>9. ASSUME NEW q \in Request, NEW s \in loaded[q].scopes, NEW p \in
            loaded[q].profiles, AddSchedule(q, s, p) PROVE Checked'
  BY <1>9 DEF AddSchedule, Commit, Checked, TypeOK, Session
<1>10. ASSUME NEW q \in Request, NEW s \in loaded[q].scopes, NEW p \in
            loaded[q].profiles, CreateRun(q, s, p) PROVE Checked'
  BY <1>10 DEF CreateRun, Commit, Checked, TypeOK, Session
<1>11. CASE UNCHANGED vars
  BY <1>11 DEF vars, tables, Checked, TypeOK, Session
<1> QED
  BY <1>1, <1>2, <1>3, <1>4, <1>5, <1>6, <1>7, <1>8, <1>9, <1>10, <1>11 DEF Next,
     Write, AddScope, ImportScopes

\* Who has committed stays so.
LEMMA CommittedKept ==
  ASSUME TypeOK, Committed, [Next]_vars
  PROVE  Committed'
<1>1. ASSUME Bootstrap PROVE Committed'
  BY <1>1 DEF Bootstrap, Committed, TypeOK, Session, ScopeId
<1>2. ASSUME NEW q \in Request, Begin(q) PROVE Committed'
  BY <1>2
     DEF Begin, tables, Committed, TypeOK, Session, ScopeId, WantedScopes,
         WantedProfiles, Provisionings
<1>3. ASSUME NEW q \in Request, Provision(q) PROVE Committed'
  BY <1>3 DEF Provision, Commit, Committed, TypeOK, Session, ScopeId
<1>4. ASSUME NEW q \in Request, Op(q) \in {"addScope", "importScopes"},
            InsertScopes(q) PROVE Committed'
  BY <1>4
     DEF InsertScopes, Commit, PendingScopes, Committed, TypeOK, Session, ScopeId
<1>5. ASSUME NEW q \in Request, AddProfile(q) PROVE Committed'
  BY <1>5 DEF AddProfile, Commit, Committed, TypeOK, Session, ScopeId
<1>6. ASSUME NEW q \in Request, NEW s \in loaded[q].scopes, ApproveScope(q, s) PROVE
            Committed'
  <2>1. \A t \in scopes' : \E o \in scopes : t.id = o.id
    BY <1>6, Approved
  <2> QED
    BY <1>6, <2>1 DEF ApproveScope, Commit, Committed, TypeOK, Session, ScopeId, Scope
<1>7. ASSUME NEW q \in Request, NEW s \in loaded[q].scopes, DeleteScope(q, s) PROVE
            Committed'
  BY <1>7 DEF DeleteScope, Commit, Committed, TypeOK, Session, ScopeId
<1>8. ASSUME NEW q \in Request, NEW p \in loaded[q].profiles, DeleteProfile(q, p)
            PROVE Committed'
  BY <1>8 DEF DeleteProfile, Commit, Committed, TypeOK, Session, ScopeId
<1>9. ASSUME NEW q \in Request, NEW s \in loaded[q].scopes, NEW p \in
            loaded[q].profiles, AddSchedule(q, s, p) PROVE Committed'
  BY <1>9 DEF AddSchedule, Commit, Committed, TypeOK, Session, ScopeId
<1>10. ASSUME NEW q \in Request, NEW s \in loaded[q].scopes, NEW p \in
            loaded[q].profiles, CreateRun(q, s, p) PROVE Committed'
  BY <1>10 DEF CreateRun, Commit, Committed, TypeOK, Session, ScopeId
<1>11. CASE UNCHANGED vars
  BY <1>11 DEF vars, tables, Committed, TypeOK, Session, ScopeId
<1> QED
  BY <1>1, <1>2, <1>3, <1>4, <1>5, <1>6, <1>7, <1>8, <1>9, <1>10, <1>11 DEF Next,
     Write, AddScope, ImportScopes

\* Ids are not given out again, and names are unique.
LEMMA ScopesKept ==
  ASSUME TypeOK, Checked, Committed, ScopesKeep, [Next]_vars
  PROVE  ScopesKeep'
<1>1. ASSUME Bootstrap PROVE ScopesKeep'
  BY <1>1 DEF Bootstrap, ScopesKeep, SameScope, TypeOK, Scope, Session, ScopeId
<1>2. ASSUME NEW q \in Request, Begin(q) PROVE ScopesKeep'
  BY <1>2
     DEF Begin, tables, ScopesKeep, SameScope, TypeOK, Scope, Session, ScopeId,
         WantedScopes
<1>3. ASSUME NEW q \in Request, Provision(q) PROVE ScopesKeep'
  BY <1>3
     DEF Provision, Commit, ScopesKeep, SameScope, TypeOK, Scope, Session, ScopeId
<1>4. ASSUME NEW q \in Request, Op(q) \in {"addScope", "importScopes"},
            InsertScopes(q) PROVE ScopesKeep'
  <2>1. \A d, e \in body[q].rows : d # e => d.name # e.name
    BY <1>4, Inserted DEF Checked
  <2>2. \A t \in scopes' : t.id[2] = t.name
    BY <1>4, Inserted DEF ScopesKeep
  <2>3. ASSUME NEW s \in scopes', NEW t \in scopes', s.name = t.name PROVE s = t
    <3>1. CASE s \in scopes /\ t \in scopes
      BY <2>3, <3>1 DEF ScopesKeep
    <3>2. CASE s \in scopes /\ t \notin scopes
      BY <1>4, <2>3, <3>2, Inserted
    <3>3. CASE s \notin scopes /\ t \in scopes
      BY <1>4, <2>3, <3>3, Inserted
    <3>4. CASE s \notin scopes /\ t \notin scopes
      <4>1. PICK d \in body[q].rows :
              s = [id |-> <<q, d.name>>, name |-> d.name, cidr |-> d.cidr, zone |-> d.zone,
                   approved |-> FALSE]
        BY <1>4, <3>4, Inserted
      <4>2. PICK e \in body[q].rows :
              t = [id |-> <<q, e.name>>, name |-> e.name, cidr |-> e.cidr, zone |-> e.zone,
                   approved |-> FALSE]
        BY <1>4, <3>4, Inserted
      <4> QED
        BY <2>1, <2>3, <4>1, <4>2
    <3> QED
      BY <3>1, <3>2, <3>3, <3>4
  <2>4. \A x \in Request : loaded'[x].scopes \subseteq loaded[x].scopes
    BY <1>4 DEF InsertScopes, Commit, TypeOK, Session
  <2>5. \A x \in Request : \A s \in loaded[x].scopes : s.id[1] # q
    BY <1>4, Inserted DEF Committed
  <2>6. \A t \in scopes' : t \in scopes \/ t.id[1] = q
    BY <1>4, Inserted
  <2>7. \A x \in Request : \A s \in loaded'[x].scopes, t \in scopes' : SameScope(s, t)
    BY <2>4, <2>5, <2>6 DEF ScopesKeep, SameScope
  <2> QED
    BY <2>2, <2>3, <2>7 DEF ScopesKeep
<1>5. ASSUME NEW q \in Request, AddProfile(q) PROVE ScopesKeep'
  BY <1>5
     DEF AddProfile, Commit, ScopesKeep, SameScope, TypeOK, Scope, Session, ScopeId
<1>6. ASSUME NEW q \in Request, NEW s \in loaded[q].scopes, ApproveScope(q, s) PROVE
            ScopesKeep'
  <2>1. \A t \in scopes' : \E o \in scopes :
          /\ t.id = o.id /\ t.name = o.name /\ t.cidr = o.cidr /\ t.zone = o.zone
          /\ t = IF o.id = s.id THEN [o EXCEPT !.approved = TRUE] ELSE o
          /\ t.approved = (o.approved \/ o.id = s.id)
    BY <1>6, Approved
  <2>2. \A t \in scopes' : t.id[2] = t.name
    BY <2>1 DEF ScopesKeep
  <2>3. \A t, u \in scopes' : t.name = u.name => t = u
    BY <2>1 DEF ScopesKeep
  <2>4. \A x \in Request : loaded'[x].scopes \subseteq loaded[x].scopes
    BY <1>6 DEF ApproveScope, Commit, TypeOK, Session
  <2>5. \A x \in Request : \A r \in loaded'[x].scopes, t \in scopes' : SameScope(r, t)
    <3> SUFFICES ASSUME NEW x \in Request, NEW r \in loaded[x].scopes, NEW t \in scopes',
                        r.id = t.id
                 PROVE  r.zone = t.zone /\ r.cidr = t.cidr /\ (r.approved => t.approved)
      BY <2>4 DEF SameScope
    <3>1. PICK o \in scopes : /\ t.id = o.id /\ t.cidr = o.cidr /\ t.zone = o.zone
                              /\ t.approved = (o.approved \/ o.id = s.id)
      BY <2>1
    <3>2. SameScope(r, o)
      BY DEF ScopesKeep
    <3> QED
      BY <3>1, <3>2 DEF SameScope
  <2> QED
    BY <2>2, <2>3, <2>5 DEF ScopesKeep
<1>7. ASSUME NEW q \in Request, NEW s \in loaded[q].scopes, DeleteScope(q, s) PROVE
            ScopesKeep'
  BY <1>7
     DEF DeleteScope, Commit, ScopesKeep, SameScope, TypeOK, Scope, Session, ScopeId
<1>8. ASSUME NEW q \in Request, NEW p \in loaded[q].profiles, DeleteProfile(q, p)
            PROVE ScopesKeep'
  BY <1>8
     DEF DeleteProfile, Commit, ScopesKeep, SameScope, TypeOK, Scope, Session,
         ScopeId
<1>9. ASSUME NEW q \in Request, NEW s \in loaded[q].scopes, NEW p \in
            loaded[q].profiles, AddSchedule(q, s, p) PROVE ScopesKeep'
  BY <1>9
     DEF AddSchedule, Commit, ScopesKeep, SameScope, TypeOK, Scope, Session, ScopeId
<1>10. ASSUME NEW q \in Request, NEW s \in loaded[q].scopes, NEW p \in
            loaded[q].profiles, CreateRun(q, s, p) PROVE ScopesKeep'
  BY <1>10
     DEF CreateRun, Commit, ScopesKeep, SameScope, TypeOK, Scope, Session, ScopeId
<1>11. CASE UNCHANGED vars
  BY <1>11 DEF vars, tables, ScopesKeep, SameScope, TypeOK, Scope, Session, ScopeId
<1> QED
  BY <1>1, <1>2, <1>3, <1>4, <1>5, <1>6, <1>7, <1>8, <1>9, <1>10, <1>11 DEF Next,
     Write, AddScope, ImportScopes

\* Nor are the ids of profiles, nor the numbers of those that are there.
LEMMA ProfilesKept ==
  ASSUME TypeOK, Committed, ProfilesKeep, [Next]_vars
  PROVE  ProfilesKeep'
<1>1. ASSUME Bootstrap PROVE ProfilesKeep'
  BY <1>1 DEF Bootstrap, ProfilesKeep, TypeOK, Profile, Session
<1>2. ASSUME NEW q \in Request, Begin(q) PROVE ProfilesKeep'
  BY <1>2 DEF Begin, tables, ProfilesKeep, TypeOK, Profile, Session, WantedProfiles
<1>3. ASSUME NEW q \in Request, Provision(q) PROVE ProfilesKeep'
  BY <1>3 DEF Provision, Commit, ProfilesKeep, TypeOK, Profile, Session
<1>4. ASSUME NEW q \in Request, Op(q) \in {"addScope", "importScopes"},
            InsertScopes(q) PROVE ProfilesKeep'
  BY <1>4
     DEF InsertScopes, Commit, PendingScopes, ProfilesKeep, TypeOK, Profile, Session
<1>5. ASSUME NEW q \in Request, AddProfile(q) PROVE ProfilesKeep'
  BY <1>5 DEF AddProfile, Commit, ProfilesKeep, TypeOK, Profile, Session, Committed
<1>6. ASSUME NEW q \in Request, NEW s \in loaded[q].scopes, ApproveScope(q, s) PROVE
            ProfilesKeep'
  BY <1>6 DEF ApproveScope, Commit, ProfilesKeep, TypeOK, Profile, Session
<1>7. ASSUME NEW q \in Request, NEW s \in loaded[q].scopes, DeleteScope(q, s) PROVE
            ProfilesKeep'
  BY <1>7 DEF DeleteScope, Commit, ProfilesKeep, TypeOK, Profile, Session
<1>8. ASSUME NEW q \in Request, NEW p \in loaded[q].profiles, DeleteProfile(q, p)
            PROVE ProfilesKeep'
  BY <1>8 DEF DeleteProfile, Commit, ProfilesKeep, TypeOK, Profile, Session
<1>9. ASSUME NEW q \in Request, NEW s \in loaded[q].scopes, NEW p \in
            loaded[q].profiles, AddSchedule(q, s, p) PROVE ProfilesKeep'
  BY <1>9 DEF AddSchedule, Commit, ProfilesKeep, TypeOK, Profile, Session
<1>10. ASSUME NEW q \in Request, NEW s \in loaded[q].scopes, NEW p \in
            loaded[q].profiles, CreateRun(q, s, p) PROVE ProfilesKeep'
  BY <1>10 DEF CreateRun, Commit, ProfilesKeep, TypeOK, Profile, Session
<1>11. CASE UNCHANGED vars
  BY <1>11 DEF vars, tables, ProfilesKeep, TypeOK, Profile, Session
<1> QED
  BY <1>1, <1>2, <1>3, <1>4, <1>5, <1>6, <1>7, <1>8, <1>9, <1>10, <1>11 DEF Next,
     Write, AddScope, ImportScopes

\* A reference is made to what fits and is there, and keeps it there.
LEMMA ReferencesKept ==
  ASSUME TypeOK, Checked, ScopesKeep, ProfilesKeep, ReferencesStayRunnable,
         [Next]_vars
  PROVE  ReferencesStayRunnable'
<1>1. ASSUME Bootstrap PROVE ReferencesStayRunnable'
  BY <1>1 DEF Bootstrap, ReferencesStayRunnable, Referring
<1>2. ASSUME NEW q \in Request, Begin(q) PROVE ReferencesStayRunnable'
  BY <1>2 DEF Begin, tables, ReferencesStayRunnable, Referring
<1>3. ASSUME NEW q \in Request, Provision(q) PROVE ReferencesStayRunnable'
  BY <1>3 DEF Provision, Commit, ReferencesStayRunnable, Referring
<1>4. ASSUME NEW q \in Request, Op(q) \in {"addScope", "importScopes"},
            InsertScopes(q) PROVE ReferencesStayRunnable'
  BY <1>4 DEF InsertScopes, Commit, PendingScopes, ReferencesStayRunnable, Referring
<1>5. ASSUME NEW q \in Request, AddProfile(q) PROVE ReferencesStayRunnable'
  BY <1>5 DEF AddProfile, Commit, ReferencesStayRunnable, Referring
<1>6. ASSUME NEW q \in Request, NEW s \in loaded[q].scopes, ApproveScope(q, s) PROVE
            ReferencesStayRunnable'
  BY <1>6 DEF ApproveScope, Commit, ReferencesStayRunnable, Referring, TypeOK, Scope
<1>7. ASSUME NEW q \in Request, NEW s \in loaded[q].scopes, DeleteScope(q, s) PROVE
            ReferencesStayRunnable'
  BY <1>7 DEF DeleteScope, Commit, ReferencesStayRunnable, Referring, Unreferenced
<1>8. ASSUME NEW q \in Request, NEW p \in loaded[q].profiles, DeleteProfile(q, p)
            PROVE ReferencesStayRunnable'
  BY <1>8 DEF DeleteProfile, Commit, ReferencesStayRunnable, Referring, Unreferenced
<1>9. ASSUME NEW q \in Request, NEW s \in loaded[q].scopes, NEW p \in
            loaded[q].profiles, AddSchedule(q, s, p) PROVE ReferencesStayRunnable'
  BY <1>9
     DEF AddSchedule, Commit, ReferencesStayRunnable, Referring, Checked,
         ScopesKeep, SameScope, ProfilesKeep, Present, TypeOK, Session, Scope,
         Profile
<1>10. ASSUME NEW q \in Request, NEW s \in loaded[q].scopes, NEW p \in
            loaded[q].profiles, CreateRun(q, s, p) PROVE ReferencesStayRunnable'
  BY <1>10
     DEF CreateRun, Commit, ReferencesStayRunnable, Referring, Checked, ScopesKeep,
         SameScope, ProfilesKeep, Present, TypeOK, Session, Scope, Profile
<1>11. CASE UNCHANGED vars
  BY <1>11 DEF vars, tables, ReferencesStayRunnable, Referring
<1> QED
  BY <1>1, <1>2, <1>3, <1>4, <1>5, <1>6, <1>7, <1>8, <1>9, <1>10, <1>11 DEF Next,
     Write, AddScope, ImportScopes

\* An event is told once, when its profile is created.
LEMMA VersionsKept ==
  ASSUME TypeOK, Committed, VersionsAreTold, [Next]_vars
  PROVE  VersionsAreTold'
<1>1. ASSUME Bootstrap PROVE VersionsAreTold'
  BY <1>1 DEF Bootstrap, VersionsAreTold, Committed, TypeOK
<1>2. ASSUME NEW q \in Request, Begin(q) PROVE VersionsAreTold'
  BY <1>2 DEF Begin, tables, VersionsAreTold, Committed, TypeOK
<1>3. ASSUME NEW q \in Request, Provision(q) PROVE VersionsAreTold'
  BY <1>3 DEF Provision, Commit, VersionsAreTold, Committed, TypeOK
<1>4. ASSUME NEW q \in Request, Op(q) \in {"addScope", "importScopes"},
            InsertScopes(q) PROVE VersionsAreTold'
  BY <1>4
     DEF InsertScopes, Commit, PendingScopes, VersionsAreTold, Committed, TypeOK
<1>5. ASSUME NEW q \in Request, AddProfile(q) PROVE VersionsAreTold'
  BY <1>5 DEF AddProfile, Commit, VersionsAreTold, Committed, TypeOK
<1>6. ASSUME NEW q \in Request, NEW s \in loaded[q].scopes, ApproveScope(q, s) PROVE
            VersionsAreTold'
  BY <1>6 DEF ApproveScope, Commit, VersionsAreTold, Committed, TypeOK
<1>7. ASSUME NEW q \in Request, NEW s \in loaded[q].scopes, DeleteScope(q, s) PROVE
            VersionsAreTold'
  BY <1>7 DEF DeleteScope, Commit, VersionsAreTold, Committed, TypeOK
<1>8. ASSUME NEW q \in Request, NEW p \in loaded[q].profiles, DeleteProfile(q, p)
            PROVE VersionsAreTold'
  BY <1>8 DEF DeleteProfile, Commit, VersionsAreTold, Committed, TypeOK
<1>9. ASSUME NEW q \in Request, NEW s \in loaded[q].scopes, NEW p \in
            loaded[q].profiles, AddSchedule(q, s, p) PROVE VersionsAreTold'
  BY <1>9 DEF AddSchedule, Commit, VersionsAreTold, Committed, TypeOK
<1>10. ASSUME NEW q \in Request, NEW s \in loaded[q].scopes, NEW p \in
            loaded[q].profiles, CreateRun(q, s, p) PROVE VersionsAreTold'
  BY <1>10 DEF CreateRun, Commit, VersionsAreTold, Committed, TypeOK
<1>11. CASE UNCHANGED vars
  BY <1>11 DEF vars, tables, VersionsAreTold, Committed, TypeOK
<1> QED
  BY <1>1, <1>2, <1>3, <1>4, <1>5, <1>6, <1>7, <1>8, <1>9, <1>10, <1>11 DEF Next,
     Write, AddScope, ImportScopes

\* Runs keep their shards, and scopes their ranges.
LEMMA ShardsKept ==
  ASSUME TypeOK, Checked, Committed, ScopesKeep, ReferencesStayRunnable,
         ShardsOfScope, [Next]_vars
  PROVE  ShardsOfScope'
<1>1. ASSUME Bootstrap PROVE ShardsOfScope'
  BY <1>1 DEF Bootstrap, ShardsOfScope
<1>2. ASSUME NEW q \in Request, Begin(q) PROVE ShardsOfScope'
  BY <1>2 DEF Begin, tables, ShardsOfScope
<1>3. ASSUME NEW q \in Request, Provision(q) PROVE ShardsOfScope'
  BY <1>3 DEF Provision, Commit, ShardsOfScope
<1>4. ASSUME NEW q \in Request, Op(q) \in {"addScope", "importScopes"},
            InsertScopes(q) PROVE ShardsOfScope'
  BY <1>4
     DEF InsertScopes, Commit, PendingScopes, ShardsOfScope, ReferencesStayRunnable,
         Referring, Committed, TypeOK, ScopeId, Scope, Run
<1>5. ASSUME NEW q \in Request, AddProfile(q) PROVE ShardsOfScope'
  BY <1>5 DEF AddProfile, Commit, ShardsOfScope
<1>6. ASSUME NEW q \in Request, NEW s \in loaded[q].scopes, ApproveScope(q, s) PROVE
            ShardsOfScope'
  BY <1>6 DEF ApproveScope, Commit, ShardsOfScope, TypeOK, Scope
<1>7. ASSUME NEW q \in Request, NEW s \in loaded[q].scopes, DeleteScope(q, s) PROVE
            ShardsOfScope'
  BY <1>7 DEF DeleteScope, Commit, ShardsOfScope
<1>8. ASSUME NEW q \in Request, NEW p \in loaded[q].profiles, DeleteProfile(q, p)
            PROVE ShardsOfScope'
  BY <1>8 DEF DeleteProfile, Commit, ShardsOfScope
<1>9. ASSUME NEW q \in Request, NEW s \in loaded[q].scopes, NEW p \in
            loaded[q].profiles, AddSchedule(q, s, p) PROVE ShardsOfScope'
  BY <1>9 DEF AddSchedule, Commit, ShardsOfScope
<1>10. ASSUME NEW q \in Request, NEW s \in loaded[q].scopes, NEW p \in
            loaded[q].profiles, CreateRun(q, s, p) PROVE ShardsOfScope'
  BY <1>10
     DEF CreateRun, Commit, ShardsOfScope, Checked, ScopesKeep, SameScope, TypeOK,
         Session, Scope
<1>11. CASE UNCHANGED vars
  BY <1>11 DEF vars, tables, ShardsOfScope
<1> QED
  BY <1>1, <1>2, <1>3, <1>4, <1>5, <1>6, <1>7, <1>8, <1>9, <1>10, <1>11 DEF Next,
     Write, AddScope, ImportScopes

\* Scopes are told of when they are created, before anybody has read them.
LEMMA TalesKept ==
  ASSUME TypeOK, TrailTellsScopes, ScopesAreTold, [Next]_vars
  PROVE  ScopesAreTold'
<1>1. ASSUME Bootstrap PROVE ScopesAreTold'
  BY <1>1 DEF Bootstrap, ScopesAreTold, Told, TypeOK, Session, ScopeId
<1>2. ASSUME NEW q \in Request, Begin(q) PROVE ScopesAreTold'
  <2>1. \A s \in scopes :
          Told({"addScope", "importScopes"}, s.id) /\ (s.approved => Told({"approve"}, s.id))
    BY DEF TrailTellsScopes
  <2>2. \A x \in Request : loaded'[x].scopes \subseteq scopes \cup loaded[x].scopes
    BY <1>2, ReadFromTables DEF Begin, TypeOK, Session
  <2>3. trail' = trail
    BY <1>2 DEF Begin, tables
  <2> QED
    BY <2>1, <2>2, <2>3 DEF ScopesAreTold, Told
<1>3. ASSUME NEW q \in Request, Provision(q) PROVE ScopesAreTold'
  BY <1>3 DEF Provision, Commit, ScopesAreTold, Told, TypeOK, Session, ScopeId
<1>4. ASSUME NEW q \in Request, Op(q) \in {"addScope", "importScopes"},
            InsertScopes(q) PROVE ScopesAreTold'
  <2>1. \A d \in body[q].rows : d.name \in Name
    BY BodyAssumption DEF Body, Draft
  <2>2. \A x \in Request : loaded'[x].scopes \subseteq loaded[x].scopes
    BY <1>4 DEF InsertScopes, Commit, TypeOK, Session
  <2>3. \A e \in trail' : e \in trail \/ \E d \in body[q].rows :
          /\ e.request = q /\ e.of = <<q, d.name>> /\ e.of \in ScopeId /\ e.of[1] = e.request
    BY <1>4, <2>1, Inserted DEF ScopeId
  <2>4. \A ops, id : Told(ops, id) => Told(ops, id)'
    BY <1>4, Inserted DEF Told
  <2> QED
    BY <1>4, <2>2, <2>3, <2>4 DEF ScopesAreTold
<1>5. ASSUME NEW q \in Request, AddProfile(q) PROVE ScopesAreTold'
  BY <1>5 DEF AddProfile, Commit, ScopesAreTold, Told, TypeOK, Session, ScopeId
<1>6. ASSUME NEW q \in Request, NEW s \in loaded[q].scopes, ApproveScope(q, s) PROVE
            ScopesAreTold'
  BY <1>6 DEF ApproveScope, Commit, ScopesAreTold, Told, TypeOK, Session, ScopeId
<1>7. ASSUME NEW q \in Request, NEW s \in loaded[q].scopes, DeleteScope(q, s) PROVE
            ScopesAreTold'
  BY <1>7 DEF DeleteScope, Commit, ScopesAreTold, Told, TypeOK, Session, ScopeId
<1>8. ASSUME NEW q \in Request, NEW p \in loaded[q].profiles, DeleteProfile(q, p)
            PROVE ScopesAreTold'
  BY <1>8 DEF DeleteProfile, Commit, ScopesAreTold, Told, TypeOK, Session, ScopeId
<1>9. ASSUME NEW q \in Request, NEW s \in loaded[q].scopes, NEW p \in
            loaded[q].profiles, AddSchedule(q, s, p) PROVE ScopesAreTold'
  BY <1>9 DEF AddSchedule, Commit, ScopesAreTold, Told, TypeOK, Session, ScopeId
<1>10. ASSUME NEW q \in Request, NEW s \in loaded[q].scopes, NEW p \in
            loaded[q].profiles, CreateRun(q, s, p) PROVE ScopesAreTold'
  BY <1>10 DEF CreateRun, Commit, ScopesAreTold, Told, TypeOK, Session, ScopeId
<1>11. CASE UNCHANGED vars
  BY <1>11 DEF vars, tables, ScopesAreTold, Told, TypeOK, Session, ScopeId
<1> QED
  BY <1>1, <1>2, <1>3, <1>4, <1>5, <1>6, <1>7, <1>8, <1>9, <1>10, <1>11 DEF Next,
     Write, AddScope, ImportScopes

\* Events that are not about scopes tell nothing of them.
LEMMA OthersTellNothing ==
  ASSUME TrailTellsScopes, NEW q \in Request, scopes' = scopes,
         Op(q) \notin {"addScope", "importScopes", "approve", "deleteScope"},
         \A e \in trail : e \in trail', \A e \in trail' : e \in trail \/ e.request = q
  PROVE  TrailTellsScopes'
<1>1. ASSUME NEW id,
             NEW ops \in {{"addScope", "importScopes"}, {"deleteScope"}, {"approve"}}
      PROVE  Told(ops, id)' <=> Told(ops, id)
  BY DEF Told
<1> SUFFICES ASSUME NEW id \in {t.id : t \in scopes'} \cup {e.of : e \in trail'}
             PROVE  /\ (\E t \in scopes' : t.id = id) <=>
                         /\ Told({"addScope", "importScopes"}, id)'
                         /\ ~Told({"deleteScope"}, id)'
                    /\ \A t \in scopes' : t.id = id => (t.approved <=> Told({"approve"}, id)')
  BY DEF TrailTellsScopes
<1>2. CASE id \in {t.id : t \in scopes} \cup {e.of : e \in trail}
  BY <1>1, <1>2 DEF TrailTellsScopes
<1>3. CASE id \notin {t.id : t \in scopes} \cup {e.of : e \in trail}
  <2>1. ~Told({"addScope", "importScopes"}, id)
    BY <1>3 DEF Told
  <2> QED
    BY <1>1, <1>3, <2>1
<1> QED
  BY <1>2, <1>3

\* What is there is told, and nothing else.
LEMMA TrailKept ==
  ASSUME TypeOK, Committed, ScopesKeep, ScopesAreTold, TrailTellsScopes, [Next]_vars
  PROVE  TrailTellsScopes'
<1>1. ASSUME Bootstrap PROVE TrailTellsScopes'
  BY <1>1 DEF Bootstrap, TrailTellsScopes, Told, TypeOK
<1>2. ASSUME NEW q \in Request, Begin(q) PROVE TrailTellsScopes'
  BY <1>2 DEF Begin, tables, TrailTellsScopes, Told, TypeOK
<1>3. ASSUME NEW q \in Request, Provision(q) PROVE TrailTellsScopes'
  <2>1. /\ scopes' = scopes
        /\ Op(q) \notin {"addScope", "importScopes", "approve", "deleteScope"}
        /\ \A e \in trail : e \in trail'
        /\ \A e \in trail' : e \in trail \/ e.request = q
    BY <1>3 DEF Provision, Commit
  <2> QED
    BY <2>1, OthersTellNothing
<1>4. ASSUME NEW q \in Request, Op(q) \in {"addScope", "importScopes"},
            InsertScopes(q) PROVE TrailTellsScopes'
  <2>0. /\ \A e \in trail' : e \in trail \/
             \E d \in body[q].rows : e.request = q /\ e.of = <<q, d.name>>
        /\ \A d \in body[q].rows : \E e \in trail' : e.request = q /\ e.of = <<q, d.name>>
        /\ trail \subseteq trail'
    <3>1. \A e \in trail' : e \in trail \/
            \E d \in body[q].rows : e.request = q /\ e.of = <<q, d.name>>
      BY <1>4, Inserted
    <3>2. ASSUME NEW d \in body[q].rows
          PROVE  \E e \in trail' : e.request = q /\ e.of = <<q, d.name>>
      <4> DEFINE f == [request |-> q, of |-> <<q, d.name>>, version |-> 0]
      <4>1. f \in trail' /\ f.request = q /\ f.of = <<q, d.name>>
        BY <1>4, Inserted
      <4> QED
        BY <4>1
    <3>3. trail \subseteq trail'
      BY <1>4, Inserted
    <3> QED
      BY <3>1, <3>2, <3>3
  <2>1. ASSUME NEW id, NEW ops
        PROVE  Told(ops, id)' <=> \/ Told(ops, id)
                                  \/ Op(q) \in ops /\ \E d \in body[q].rows : id = <<q, d.name>>
    BY <2>0 DEF Told
  <2>2. \A d \in body[q].rows : ~Told({"deleteScope"}, <<q, d.name>>)
                                /\ ~Told({"approve"}, <<q, d.name>>)
    <3> SUFFICES ASSUME NEW d \in body[q].rows, NEW ops \in {{"deleteScope"}, {"approve"}},
                        Told(ops, <<q, d.name>>)
                 PROVE  FALSE
      OBVIOUS
    <3>1. Told({"addScope", "importScopes"}, <<q, d.name>>)
      BY DEF Told, ScopesAreTold
    <3>2. pc[q] = "committed"
      BY <3>1 DEF Told, ScopesAreTold, Committed
    <3> QED
      BY <1>4, <3>2, Inserted
  <2>3. \A id : (\E t \in scopes' : t.id = id) <=>
          (\E t \in scopes : t.id = id) \/ \E d \in body[q].rows : id = <<q, d.name>>
    BY <1>4, Inserted
  <2>4. \A t \in scopes' :
          t \in scopes \/ (~t.approved /\ \E d \in body[q].rows : t.id = <<q, d.name>>)
    BY <1>4, Inserted
  <2> SUFFICES ASSUME NEW id \in {t.id : t \in scopes'} \cup {e.of : e \in trail'}
               PROVE  /\ (\E t \in scopes' : t.id = id) <=>
                           /\ Told({"addScope", "importScopes"}, id)'
                           /\ ~Told({"deleteScope"}, id)'
                      /\ \A t \in scopes' : t.id = id => (t.approved <=> Told({"approve"}, id)')
    BY DEF TrailTellsScopes
  <2>5. CASE \E d \in body[q].rows : id = <<q, d.name>>
    <3>1. Told({"addScope", "importScopes"}, id)' /\ ~Told({"deleteScope"}, id)'
      BY <1>4, <2>1, <2>2, <2>5
    <3>2. ~Told({"approve"}, id)'
      BY <1>4, <2>1, <2>2, <2>5
    <3>3. \A t \in scopes : t.id # id
      BY <1>4, <2>5, Inserted DEF Committed
    <3> QED
      BY <2>3, <2>4, <2>5, <3>1, <3>2, <3>3
  <2>6. CASE ~\E d \in body[q].rows : id = <<q, d.name>>
    <3>1. id \in {t.id : t \in scopes} \cup {e.of : e \in trail}
      BY <1>4, <2>6, Inserted
    <3>2. \A ops : Told(ops, id)' <=> Told(ops, id)
      BY <2>1, <2>6
    <3>3. (\E t \in scopes' : t.id = id) <=> \E t \in scopes : t.id = id
      BY <2>3, <2>6
    <3>4. \A t \in scopes' : t.id = id => t \in scopes
      BY <2>4, <2>6
    <3>5. /\ (\E t \in scopes : t.id = id) <=>
               Told({"addScope", "importScopes"}, id) /\ ~Told({"deleteScope"}, id)
          /\ \A t \in scopes : t.id = id => (t.approved <=> Told({"approve"}, id))
      BY <3>1 DEF TrailTellsScopes
    <3> QED
      BY <3>2, <3>3, <3>4, <3>5
  <2> QED
    BY <2>5, <2>6
<1>5. ASSUME NEW q \in Request, AddProfile(q) PROVE TrailTellsScopes'
  <2>1. /\ scopes' = scopes
        /\ Op(q) \notin {"addScope", "importScopes", "approve", "deleteScope"}
        /\ \A e \in trail : e \in trail'
        /\ \A e \in trail' : e \in trail \/ e.request = q
    BY <1>5 DEF AddProfile, Commit
  <2> QED
    BY <2>1, OthersTellNothing
<1>6. ASSUME NEW q \in Request, NEW s \in loaded[q].scopes, ApproveScope(q, s) PROVE
            TrailTellsScopes'
  <2>1. /\ Op(q) = "approve" /\ \A e \in trail : e \in trail'
        /\ \A e \in trail' : e \in trail \/ (e.request = q /\ e.of = s.id)
        /\ [request |-> q, of |-> s.id, version |-> 0] \in trail'
    BY <1>6 DEF ApproveScope, Commit
  <2>2. \A id, ops : Told(ops, id)' <=> Told(ops, id) \/ (Op(q) \in ops /\ id = s.id)
    BY <2>1 DEF Told
  <2>3. Told({"addScope", "importScopes"}, s.id)
    BY DEF ScopesAreTold
  <2>4. s.id \in {e.of : e \in trail}
    BY <2>3 DEF Told
  <2>5. \A t \in scopes' : \E o \in scopes :
          t.id = o.id /\ t.approved = (o.approved \/ o.id = s.id)
    BY <1>6, Approved
  <2>6. \A o \in scopes : o.approved \in BOOLEAN
    BY DEF TypeOK, Scope
  <2>7. \A id : (\E t \in scopes' : t.id = id) <=> \E t \in scopes : t.id = id
    BY <1>6, Approved
  <2> SUFFICES ASSUME NEW id \in {t.id : t \in scopes'} \cup {e.of : e \in trail'}
               PROVE  /\ (\E t \in scopes' : t.id = id) <=>
                           /\ Told({"addScope", "importScopes"}, id)'
                           /\ ~Told({"deleteScope"}, id)'
                      /\ \A t \in scopes' : t.id = id => (t.approved <=> Told({"approve"}, id)')
    BY DEF TrailTellsScopes
  <2>8. id \in {t.id : t \in scopes} \cup {e.of : e \in trail}
    BY <2>1, <2>4, <2>7
  <2>9. (\E t \in scopes' : t.id = id) <=>
          Told({"addScope", "importScopes"}, id)' /\ ~Told({"deleteScope"}, id)'
    BY <2>1, <2>2, <2>7, <2>8 DEF TrailTellsScopes
  <2>10. ASSUME NEW t \in scopes', t.id = id PROVE t.approved <=> Told({"approve"}, id)'
    <3>1. PICK o \in scopes : o.id = id /\ t.approved = (o.approved \/ o.id = s.id)
      BY <2>5, <2>10
    <3>2. o.approved <=> Told({"approve"}, id)
      BY <3>1, <2>8 DEF TrailTellsScopes
    <3> QED
      BY <2>1, <2>2, <3>1, <3>2
  <2> QED
    BY <2>9, <2>10
<1>7. ASSUME NEW q \in Request, NEW s \in loaded[q].scopes, DeleteScope(q, s) PROVE
            TrailTellsScopes'
  <2>1. /\ Op(q) = "deleteScope" /\ \A e \in trail : e \in trail'
        /\ \A e \in trail' : e \in trail \/ (e.request = q /\ e.of = s.id)
        /\ [request |-> q, of |-> s.id, version |-> 0] \in trail'
        /\ scopes' = {t \in scopes : t.id # s.id}
    BY <1>7 DEF DeleteScope, Commit
  <2>2. \A id, ops : Told(ops, id)' <=> Told(ops, id) \/ (Op(q) \in ops /\ id = s.id)
    BY <2>1 DEF Told
  <2>3. Told({"addScope", "importScopes"}, s.id)
    BY DEF ScopesAreTold
  <2>4. s.id \in {e.of : e \in trail}
    BY <2>3 DEF Told
  <2> SUFFICES ASSUME NEW id \in {t.id : t \in scopes'} \cup {e.of : e \in trail'}
               PROVE  /\ (\E t \in scopes' : t.id = id) <=>
                           /\ Told({"addScope", "importScopes"}, id)'
                           /\ ~Told({"deleteScope"}, id)'
                      /\ \A t \in scopes' : t.id = id => (t.approved <=> Told({"approve"}, id)')
    BY DEF TrailTellsScopes
  <2>5. id \in {t.id : t \in scopes} \cup {e.of : e \in trail}
    BY <2>1, <2>4
  <2>6. CASE id = s.id
    BY <2>1, <2>2, <2>6
  <2>7. CASE id # s.id
    BY <2>1, <2>2, <2>5, <2>7 DEF TrailTellsScopes
  <2> QED
    BY <2>6, <2>7
<1>8. ASSUME NEW q \in Request, NEW p \in loaded[q].profiles, DeleteProfile(q, p)
            PROVE TrailTellsScopes'
  <2>1. /\ scopes' = scopes
        /\ Op(q) \notin {"addScope", "importScopes", "approve", "deleteScope"}
        /\ \A e \in trail : e \in trail'
        /\ \A e \in trail' : e \in trail \/ e.request = q
    BY <1>8 DEF DeleteProfile, Commit
  <2> QED
    BY <2>1, OthersTellNothing
<1>9. ASSUME NEW q \in Request, NEW s \in loaded[q].scopes, NEW p \in
            loaded[q].profiles, AddSchedule(q, s, p) PROVE TrailTellsScopes'
  <2>1. /\ scopes' = scopes
        /\ Op(q) \notin {"addScope", "importScopes", "approve", "deleteScope"}
        /\ \A e \in trail : e \in trail'
        /\ \A e \in trail' : e \in trail \/ e.request = q
    BY <1>9 DEF AddSchedule, Commit
  <2> QED
    BY <2>1, OthersTellNothing
<1>10. ASSUME NEW q \in Request, NEW s \in loaded[q].scopes, NEW p \in
            loaded[q].profiles, CreateRun(q, s, p) PROVE TrailTellsScopes'
  <2>1. /\ scopes' = scopes
        /\ Op(q) \notin {"addScope", "importScopes", "approve", "deleteScope"}
        /\ \A e \in trail : e \in trail'
        /\ \A e \in trail' : e \in trail \/ e.request = q
    BY <1>10 DEF CreateRun, Commit
  <2> QED
    BY <2>1, OthersTellNothing
<1>11. CASE UNCHANGED vars
  BY <1>11 DEF vars, tables, TrailTellsScopes, Told, TypeOK
<1> QED
  BY <1>1, <1>2, <1>3, <1>4, <1>5, <1>6, <1>7, <1>8, <1>9, <1>10, <1>11 DEF Next,
     Write, AddScope, ImportScopes

\* The events of an import are written with it.
LEMMA ImportsKept ==
  ASSUME TypeOK, ImportsAreTold, [Next]_vars
  PROVE  ImportsAreTold'
<1>1. ASSUME Bootstrap PROVE ImportsAreTold'
  BY <1>1 DEF Bootstrap, ImportsAreTold, Told, TypeOK
<1>2. ASSUME NEW q \in Request, Begin(q) PROVE ImportsAreTold'
  BY <1>2 DEF Begin, tables, ImportsAreTold, Told, TypeOK
<1>3. ASSUME NEW q \in Request, Provision(q) PROVE ImportsAreTold'
  BY <1>3 DEF Provision, Commit, ImportsAreTold, Told, TypeOK
<1>4. ASSUME NEW q \in Request, Op(q) \in {"addScope", "importScopes"},
            InsertScopes(q) PROVE ImportsAreTold'
  <2> SUFFICES ASSUME NEW x \in Request, Op(x) = "importScopes", pc'[x] = "committed",
                      NEW d \in body[x].rows
               PROVE  Told({"importScopes"}, <<x, d.name>>)'
    BY DEF ImportsAreTold
  <2>1. CASE x = q
    <3>1. [request |-> q, of |-> <<q, d.name>>, version |-> 0] \in trail'
      BY <1>4, <2>1, Inserted
    <3> QED
      BY <2>1, <3>1 DEF Told
  <2>2. CASE x # q
    <3>1. pc[x] = "committed"
      BY <1>4, <2>2 DEF InsertScopes, Commit, TypeOK
    <3>2. Told({"importScopes"}, <<x, d.name>>)
      BY <3>1 DEF ImportsAreTold
    <3> QED
      BY <1>4, <3>2, Inserted DEF Told
  <2> QED
    BY <2>1, <2>2
<1>5. ASSUME NEW q \in Request, AddProfile(q) PROVE ImportsAreTold'
  BY <1>5 DEF AddProfile, Commit, ImportsAreTold, Told, TypeOK
<1>6. ASSUME NEW q \in Request, NEW s \in loaded[q].scopes, ApproveScope(q, s) PROVE
            ImportsAreTold'
  BY <1>6 DEF ApproveScope, Commit, ImportsAreTold, Told, TypeOK
<1>7. ASSUME NEW q \in Request, NEW s \in loaded[q].scopes, DeleteScope(q, s) PROVE
            ImportsAreTold'
  BY <1>7 DEF DeleteScope, Commit, ImportsAreTold, Told, TypeOK
<1>8. ASSUME NEW q \in Request, NEW p \in loaded[q].profiles, DeleteProfile(q, p)
            PROVE ImportsAreTold'
  BY <1>8 DEF DeleteProfile, Commit, ImportsAreTold, Told, TypeOK
<1>9. ASSUME NEW q \in Request, NEW s \in loaded[q].scopes, NEW p \in
            loaded[q].profiles, AddSchedule(q, s, p) PROVE ImportsAreTold'
  BY <1>9 DEF AddSchedule, Commit, ImportsAreTold, Told, TypeOK
<1>10. ASSUME NEW q \in Request, NEW s \in loaded[q].scopes, NEW p \in
            loaded[q].profiles, CreateRun(q, s, p) PROVE ImportsAreTold'
  BY <1>10 DEF CreateRun, Commit, ImportsAreTold, Told, TypeOK
<1>11. CASE UNCHANGED vars
  BY <1>11 DEF vars, tables, ImportsAreTold, Told, TypeOK
<1> QED
  BY <1>1, <1>2, <1>3, <1>4, <1>5, <1>6, <1>7, <1>8, <1>9, <1>10, <1>11 DEF Next,
     Write, AddScope, ImportScopes

\* Events stay.
LEMMA RolesKept ==
  ASSUME TypeOK, RolesAreGiven, [Next]_vars
  PROVE  RolesAreGiven'
<1>1. ASSUME Bootstrap PROVE RolesAreGiven'
  BY <1>1 DEF Bootstrap, RolesAreGiven, Given, TypeOK, Role, NoRole
<1>2. ASSUME NEW q \in Request, Begin(q) PROVE RolesAreGiven'
  <2>1. \A u, roles : Given(u, roles)' <=> Given(u, roles)
    BY <1>2 DEF Begin, tables, Given
  <2>2. role' = role
    BY <1>2 DEF Begin, tables
  <2>3. body[q].by \in Subject
    BY BodyAssumption DEF Body
  <2>4. \/ Op(q) = "scheduledRun" \/ body[q].by = Root
        \/ Given(body[q].by, Permitted[Op(q)])
    BY <1>2, <2>3 DEF Begin, Authorized, Known, RolesAreGiven, Given
  <2>5. \A x \in Request \ {q} : pc'[x] = pc[x]
    BY <1>2 DEF Begin, TypeOK
  <2> HIDE DEF Given
  <2> QED
    BY <2>1, <2>2, <2>4, <2>5 DEF RolesAreGiven
<1>3. ASSUME NEW q \in Request, Provision(q) PROVE RolesAreGiven'
  <2> DEFINE v == body[q].subject
  <2>1. v \in Subject /\ body[q].role \in Role
    BY BodyAssumption DEF Body
  <2>2. Op(q) = "provision" /\ [request |-> q, of |-> v, version |-> 0] \in trail'
    BY <1>3 DEF Provision, Commit
  <2>3. \A u, roles : Given(u, roles) => Given(u, roles)'
    BY <1>3 DEF Provision, Commit, Given
  <2>4. Given(v, {body[q].role})'
    BY <2>2 DEF Given
  <2>5. role' = role \/ role' = [role EXCEPT ![v] = body[q].role]
    BY <1>3 DEF Provision
  <2>6. \A x \in Request : pc'[x] = "open" => pc[x] = "open"
    BY <1>3 DEF Provision, Commit, TypeOK
  <2>7. \A u \in Subject \ {Root} : role'[u] = NoRole \/ Given(u, {role[u]})'
    <3> SUFFICES ASSUME NEW u \in Subject \ {Root}, role'[u] # NoRole
                 PROVE  Given(u, {role[u]})'
      OBVIOUS
    <3>1. CASE u = v /\ role' # role
      <4>1. role'[u] = body[q].role
        BY <2>1, <2>5, <3>1 DEF TypeOK
      <4> QED
        BY <2>4, <3>1, <4>1 DEF Given
    <3>2. CASE u # v \/ role' = role
      <4>1. role'[u] = role[u]
        BY <2>1, <2>5, <3>2 DEF TypeOK
      <4>2. Given(u, {role[u]})
        BY <4>1 DEF RolesAreGiven
      <4>3. PICK g \in trail : /\ Op(g.request) = "provision" /\ g.of = u
                               /\ body[g.request].role = role[u]
        BY <4>2 DEF Given
      <4>4. trail \subseteq trail'
        BY <1>3 DEF Provision, Commit
      <4> QED
        BY <4>1, <4>3, <4>4 DEF Given
    <3> QED
      BY <3>1, <3>2
  <2> HIDE DEF Given
  <2> QED
    BY <2>3, <2>6, <2>7 DEF RolesAreGiven
<1>4. ASSUME NEW q \in Request, Op(q) \in {"addScope", "importScopes"},
            InsertScopes(q) PROVE RolesAreGiven'
  BY <1>4
     DEF InsertScopes, Commit, PendingScopes, RolesAreGiven, Given, TypeOK, Role,
         NoRole
<1>5. ASSUME NEW q \in Request, AddProfile(q) PROVE RolesAreGiven'
  BY <1>5 DEF AddProfile, Commit, RolesAreGiven, Given, TypeOK, Role, NoRole
<1>6. ASSUME NEW q \in Request, NEW s \in loaded[q].scopes, ApproveScope(q, s) PROVE
            RolesAreGiven'
  BY <1>6 DEF ApproveScope, Commit, RolesAreGiven, Given, TypeOK, Role, NoRole
<1>7. ASSUME NEW q \in Request, NEW s \in loaded[q].scopes, DeleteScope(q, s) PROVE
            RolesAreGiven'
  BY <1>7 DEF DeleteScope, Commit, RolesAreGiven, Given, TypeOK, Role, NoRole
<1>8. ASSUME NEW q \in Request, NEW p \in loaded[q].profiles, DeleteProfile(q, p)
            PROVE RolesAreGiven'
  BY <1>8 DEF DeleteProfile, Commit, RolesAreGiven, Given, TypeOK, Role, NoRole
<1>9. ASSUME NEW q \in Request, NEW s \in loaded[q].scopes, NEW p \in
            loaded[q].profiles, AddSchedule(q, s, p) PROVE RolesAreGiven'
  BY <1>9 DEF AddSchedule, Commit, RolesAreGiven, Given, TypeOK, Role, NoRole
<1>10. ASSUME NEW q \in Request, NEW s \in loaded[q].scopes, NEW p \in
            loaded[q].profiles, CreateRun(q, s, p) PROVE RolesAreGiven'
  BY <1>10 DEF CreateRun, Commit, RolesAreGiven, Given, TypeOK, Role, NoRole
<1>11. CASE UNCHANGED vars
  BY <1>11 DEF vars, tables, RolesAreGiven, Given, TypeOK, Role, NoRole
<1> QED
  BY <1>1, <1>2, <1>3, <1>4, <1>5, <1>6, <1>7, <1>8, <1>9, <1>10, <1>11 DEF Next,
     Write, AddScope, ImportScopes

\* Who writes no role leaves the last writer what it is.
LEMMA OthersWriteNoRole ==
  ASSUME LastWriter, NEW q \in Request, Op(q) # "provision", role' = role,
         \A x \in Request \ {q} : pc'[x] = pc[x],
         \A x \in Request :
           loaded'[x].before = loaded[x].before /\ loaded'[x].role = loaded[x].role
  PROVE  LastWriter'
<1> SUFFICES ASSUME NEW u \in Subject
             PROVE  IF Provisionings(u)' # {}
                      THEN \E g \in Provisionings(u)' : WroteLast(g, u)'
                      ELSE \A h \in Request :
                             pc'[h] = "open" /\ Op(h) = "provision" /\ body[h].subject = u =>
                               loaded'[h].role = NoRole \/ loaded'[h].role = role'[u]
  BY DEF LastWriter
<1>1. \A h \in Request : Op(h) = "provision" => pc'[h] = pc[h]
  OBVIOUS
<1>2. Provisionings(u)' = Provisionings(u)
  BY <1>1 DEF Provisionings
<1>3. \A g : WroteLast(g, u) => WroteLast(g, u)'
  BY <1>1 DEF WroteLast
<1>4. CASE Provisionings(u) # {}
  BY <1>2, <1>3, <1>4 DEF LastWriter
<1>5. CASE Provisionings(u) = {}
  BY <1>1, <1>2, <1>5 DEF LastWriter
<1> QED
  BY <1>4, <1>5

\* A writer is the last, or another has written.
LEMMA WriterKept ==
  ASSUME TypeOK, Committed, LastWriter, [Next]_vars
  PROVE  LastWriter'
<1>1. ASSUME Bootstrap PROVE LastWriter'
  <2>1. /\ pc' = pc /\ loaded' = loaded /\ role[Root] = NoRole
        /\ \A u \in Subject : u # Root => role'[u] = role[u]
    BY <1>1 DEF Bootstrap, TypeOK
  <2> SUFFICES ASSUME NEW u \in Subject
               PROVE  IF Provisionings(u)' # {}
                        THEN \E g \in Provisionings(u)' : WroteLast(g, u)'
                        ELSE \A h \in Request :
                               pc'[h] = "open" /\ Op(h) = "provision" /\ body[h].subject = u =>
                                 loaded'[h].role = NoRole \/ loaded'[h].role = role'[u]
    BY DEF LastWriter
  <2>2. Provisionings(u)' = Provisionings(u)
    BY <2>1 DEF Provisionings
  <2>3. CASE Provisionings(u) = {}
    BY <2>1, <2>2, <2>3 DEF LastWriter
  <2>4. CASE Provisionings(u) # {}
    <3>1. PICK g \in Provisionings(u) : WroteLast(g, u)
      BY <2>4 DEF LastWriter
    <3>2. role[u] \in Role /\ NoRole \notin Role
      BY <3>1, BodyAssumption DEF Provisionings, WroteLast, Body, Role, NoRole
    <3>3. WroteLast(g, u)'
      BY <2>1, <3>1, <3>2 DEF WroteLast
    <3> QED
      BY <2>2, <2>4, <3>1, <3>3
  <2> QED
    BY <2>3, <2>4
<1>2. ASSUME NEW q \in Request, Begin(q) PROVE LastWriter'
  <2>1. /\ role' = role /\ pc[q] = "new" /\ pc'[q] = "open"
        /\ \A x \in Request \ {q} : pc'[x] = pc[x] /\ loaded'[x] = loaded[x]
    BY <1>2 DEF Begin, tables, TypeOK
  <2>2. Op(q) = "provision" =>
          /\ loaded'[q].role = role[body[q].subject]
          /\ loaded'[q].before = Provisionings(body[q].subject)
    BY <1>2 DEF Begin, TypeOK
  <2> SUFFICES ASSUME NEW u \in Subject
               PROVE  IF Provisionings(u)' # {}
                        THEN \E g \in Provisionings(u)' : WroteLast(g, u)'
                        ELSE \A h \in Request :
                               pc'[h] = "open" /\ Op(h) = "provision" /\ body[h].subject = u =>
                                 loaded'[h].role = NoRole \/ loaded'[h].role = role'[u]
    BY DEF LastWriter
  <2>3. Provisionings(u)' = Provisionings(u)
    BY <2>1 DEF Provisionings
  <2>4. CASE Provisionings(u) = {}
    BY <2>1, <2>2, <2>3, <2>4 DEF LastWriter
  <2>5. CASE Provisionings(u) # {}
    <3>1. PICK g \in Provisionings(u) : WroteLast(g, u)
      BY <2>5 DEF LastWriter
    <3>2. WroteLast(g, u)'
      BY <2>1, <2>2, <3>1 DEF WroteLast
    <3> QED
      BY <2>3, <2>5, <3>1, <3>2
  <2> QED
    BY <2>4, <2>5
<1>3. ASSUME NEW q \in Request, Provision(q) PROVE LastWriter'
  <2> DEFINE v == body[q].subject
  <2>1. v \in Subject /\ body[q].role \in Role /\ NoRole \notin Role
    BY BodyAssumption DEF Body, Role, NoRole
  <2>2. /\ Op(q) = "provision" /\ pc[q] = "open" /\ pc'[q] = "committed"
        /\ \A x \in Request \ {q} : pc'[x] = pc[x]
        /\ \A x \in Request :
             loaded'[x].before = loaded[x].before /\ loaded'[x].role = loaded[x].role
    BY <1>3 DEF Provision, Commit, TypeOK, Session
  <2>3. \A u \in Subject :
          Provisionings(u)' = Provisionings(u) \cup (IF u = v THEN {q} ELSE {})
    BY <2>2 DEF Provisionings
  <2>4. \A x \in Request : q \notin loaded[x].before
    BY <2>2 DEF Committed
  <2> SUFFICES ASSUME NEW u \in Subject
               PROVE  IF Provisionings(u)' # {}
                        THEN \E g \in Provisionings(u)' : WroteLast(g, u)'
                        ELSE \A h \in Request :
                               pc'[h] = "open" /\ Op(h) = "provision" /\ body[h].subject = u =>
                                 loaded'[h].role = NoRole \/ loaded'[h].role = role'[u]
    BY DEF LastWriter
  <2>5. CASE u # v
    <3>1. role'[u] = role[u] /\ Provisionings(u)' = Provisionings(u)
      BY <1>3, <2>3, <2>5 DEF Provision, TypeOK
    <3>2. \A g : WroteLast(g, u) => WroteLast(g, u)'
      BY <2>2, <2>5, <3>1 DEF WroteLast
    <3> QED
      BY <2>2, <2>5, <3>1, <3>2 DEF LastWriter
  <2>6. CASE u = v /\ loaded[q].role # body[q].role
    <3>1. role'[u] = body[q].role
      BY <1>3, <2>1, <2>6 DEF Provision, TypeOK
    <3>2. WroteLast(q, u)'
      BY <2>2, <2>4, <3>1 DEF WroteLast
    <3> QED
      BY <2>3, <2>6, <3>2
  <2>7. CASE u = v /\ loaded[q].role = body[q].role
    <3>1. role' = role
      BY <1>3, <2>7 DEF Provision
    <3>2. CASE Provisionings(u) = {}
      <4>1. role[u] = body[q].role
        BY <2>1, <2>2, <2>7, <3>2 DEF LastWriter
      <4>2. WroteLast(q, u)'
        BY <2>2, <2>4, <3>1, <4>1 DEF WroteLast
      <4> QED
        BY <2>3, <2>7, <4>2
    <3>3. CASE Provisionings(u) # {}
      <4>1. PICK g \in Provisionings(u) : WroteLast(g, u)
        BY <3>3 DEF LastWriter
      <4>2. WroteLast(g, u)'
        BY <2>2, <2>7, <3>1, <4>1 DEF WroteLast
      <4> QED
        BY <2>3, <4>1, <4>2
    <3> QED
      BY <3>2, <3>3
  <2> QED
    BY <2>5, <2>6, <2>7
<1>4. ASSUME NEW q \in Request, Op(q) \in {"addScope", "importScopes"},
            InsertScopes(q)
      PROVE  LastWriter'
  <2>1. /\ Op(q) # "provision" /\ role' = role
        /\ \A x \in Request \ {q} : pc'[x] = pc[x]
        /\ \A x \in Request :
             loaded'[x].before = loaded[x].before /\ loaded'[x].role = loaded[x].role
    BY <1>4 DEF InsertScopes, Commit, TypeOK, Session
  <2> QED
    BY <2>1, OthersWriteNoRole
<1>5. ASSUME NEW q \in Request, AddProfile(q)
      PROVE  LastWriter'
  <2>1. /\ Op(q) # "provision" /\ role' = role
        /\ \A x \in Request \ {q} : pc'[x] = pc[x]
        /\ \A x \in Request :
             loaded'[x].before = loaded[x].before /\ loaded'[x].role = loaded[x].role
    BY <1>5 DEF AddProfile, Commit, TypeOK, Session
  <2> QED
    BY <2>1, OthersWriteNoRole
<1>6. ASSUME NEW q \in Request, NEW s \in loaded[q].scopes, ApproveScope(q, s)
      PROVE  LastWriter'
  <2>1. /\ Op(q) # "provision" /\ role' = role
        /\ \A x \in Request \ {q} : pc'[x] = pc[x]
        /\ \A x \in Request :
             loaded'[x].before = loaded[x].before /\ loaded'[x].role = loaded[x].role
    BY <1>6 DEF ApproveScope, Commit, TypeOK, Session
  <2> QED
    BY <2>1, OthersWriteNoRole
<1>7. ASSUME NEW q \in Request, NEW s \in loaded[q].scopes, DeleteScope(q, s)
      PROVE  LastWriter'
  <2>1. /\ Op(q) # "provision" /\ role' = role
        /\ \A x \in Request \ {q} : pc'[x] = pc[x]
        /\ \A x \in Request :
             loaded'[x].before = loaded[x].before /\ loaded'[x].role = loaded[x].role
    BY <1>7 DEF DeleteScope, Commit, TypeOK, Session
  <2> QED
    BY <2>1, OthersWriteNoRole
<1>8. ASSUME NEW q \in Request, NEW p \in loaded[q].profiles, DeleteProfile(q, p)
      PROVE  LastWriter'
  <2>1. /\ Op(q) # "provision" /\ role' = role
        /\ \A x \in Request \ {q} : pc'[x] = pc[x]
        /\ \A x \in Request :
             loaded'[x].before = loaded[x].before /\ loaded'[x].role = loaded[x].role
    BY <1>8 DEF DeleteProfile, Commit, TypeOK, Session
  <2> QED
    BY <2>1, OthersWriteNoRole
<1>9. ASSUME NEW q \in Request, NEW s \in loaded[q].scopes, NEW p \in
            loaded[q].profiles, AddSchedule(q, s, p)
      PROVE  LastWriter'
  <2>1. /\ Op(q) # "provision" /\ role' = role
        /\ \A x \in Request \ {q} : pc'[x] = pc[x]
        /\ \A x \in Request :
             loaded'[x].before = loaded[x].before /\ loaded'[x].role = loaded[x].role
    BY <1>9 DEF AddSchedule, Commit, TypeOK, Session
  <2> QED
    BY <2>1, OthersWriteNoRole
<1>10. ASSUME NEW q \in Request, NEW s \in loaded[q].scopes, NEW p \in
            loaded[q].profiles, CreateRun(q, s, p)
      PROVE  LastWriter'
  <2>1. /\ Op(q) # "provision" /\ role' = role
        /\ \A x \in Request \ {q} : pc'[x] = pc[x]
        /\ \A x \in Request :
             loaded'[x].before = loaded[x].before /\ loaded'[x].role = loaded[x].role
    BY <1>10 DEF CreateRun, Commit, TypeOK, Session
  <2> QED
    BY <2>1, OthersWriteNoRole
<1>11. CASE UNCHANGED vars
  BY <1>11
     DEF vars, tables, LastWriter, WroteLast, Provisionings, TypeOK, Session,
         Committed
<1> QED
  BY <1>1, <1>2, <1>3, <1>4, <1>5, <1>6, <1>7, <1>8, <1>9, <1>10, <1>11 DEF Next,
     Write, AddScope, ImportScopes

-----------------------------------------------------------------------------
\* The first state.
LEMMA InitHolds == Init => IInv
<1> SUFFICES ASSUME Init PROVE IInv
  OBVIOUS
<1>1. TypeOK
  BY BodyAssumption DEF Init, TypeOK, Session, Role, NoRole
<1>2. Bounded
  BY DEF Init, Bounded
<1>3. Checked /\ Committed /\ ScopesKeep /\ ProfilesKeep /\ VersionsAreTold
  BY DEF Init, Checked, Committed, ScopesKeep, ProfilesKeep, VersionsAreTold
<1>4. ReferencesStayRunnable /\ ShardsOfScope
  BY DEF Init, ReferencesStayRunnable, Referring, ShardsOfScope
<1>5. ScopesAreTold /\ TrailTellsScopes /\ ImportsAreTold
  BY DEF Init, ScopesAreTold, TrailTellsScopes, ImportsAreTold
<1>6. RolesAreGiven /\ LastWriter
  BY DEF Init, RolesAreGiven, LastWriter, Provisionings
<1> QED
  BY <1>1, <1>2, <1>3, <1>4, <1>5, <1>6 DEF IInv

\* The invariant is inductive.
LEMMA StepKeeps == IInv /\ [Next]_vars => IInv'
<1> SUFFICES ASSUME IInv, [Next]_vars PROVE IInv'
  OBVIOUS
<1> USE DEF IInv
<1>1. TypeOK' /\ Bounded' /\ Checked' /\ Committed'
  BY TypeKept, BoundKept, CheckedKept, CommittedKept
<1>2. ScopesKeep' /\ ProfilesKeep' /\ ReferencesStayRunnable'
  BY ScopesKept, ProfilesKept, ReferencesKept
<1>3. VersionsAreTold' /\ ShardsOfScope' /\ ScopesAreTold' /\ TrailTellsScopes'
  BY VersionsKept, ShardsKept, TalesKept, TrailKept
<1>4. ImportsAreTold' /\ RolesAreGiven' /\ LastWriter'
  BY ImportsKept, RolesKept, WriterKept
<1> QED
  BY <1>1, <1>2, <1>3, <1>4

LEMMA Invariance == Spec => []IInv
<1>1. Init => IInv
  BY InitHolds
<1>2. IInv /\ [Next]_vars => IInv'
  BY StepKeeps
<1> QED
  BY <1>1, <1>2, PTL DEF Spec

\* Every variable keeps its type, whatever is asked for, by whom and in which order.
THEOREM TypeCorrect == Spec => []TypeOK
<1>1. IInv => TypeOK
  BY DEF IInv
<1> QED
  BY <1>1, Invariance, PTL

\* Runs and schedules refer to an approved scope and to a profile of its zone
\* (create_run, add_schedule, delete_scope, delete_profile).
THEOREM ReferencesAreRunnable == Spec => []ReferencesStayRunnable
<1>1. IInv => ReferencesStayRunnable
  BY DEF IInv
<1> QED
  BY <1>1, Invariance, PTL

\* The shards of a run partition the addresses of its scope, for addresses of any
\* width and any shard size (shard_cidr).
THEOREM RunsPartitionTheirScope == Spec => []ShardsPartitionTheScope
<1>1. IInv => ShardsPartitionTheScope
  <2> SUFFICES ASSUME IInv, NEW r \in runs, NEW s \in scopes, s.id = r.scope
               PROVE  /\ UNION {Addresses(n) : n \in r.shards} = Addresses(s.cidr)
                      /\ \A m, n \in r.shards : m # n => Addresses(m) \cap Addresses(n) = {}
                      /\ \A n \in r.shards : n.prefix >= ShardPrefix
                      /\ Cardinality(r.shards) = 1 \/ Cardinality(r.shards) <= MaxShards
    BY DEF ShardsPartitionTheScope
  <2>1. s.cidr \in Network
    BY DEF IInv, TypeOK, Scope
  <2>2. r.shards = Shards(s.cidr) /\ Shardable(s.cidr)
    BY DEF IInv, ShardsOfScope
  <2> QED
    BY <2>1, <2>2, ShardsPartition, FewShards
<1> QED
  BY <1>1, Invariance, PTL

\* Name and version tell what a run has scanned with, although numbers are given
\* out again (add_profile, delete_profile).
THEOREM RunsTellTheirProfile == Spec => []RunsNameOneProfile
<1>1. IInv => RunsNameOneProfile
  <2> SUFFICES ASSUME IInv, NEW r1 \in runs, NEW r2 \in runs,
                      body[r1.profile].profile = body[r2.profile].profile,
                      NEW v \in VersionsTold(r1.profile) \cap VersionsTold(r2.profile)
               PROVE  r1.profile = r2.profile
    BY DEF RunsNameOneProfile
  <2>1. PICK p1 \in profiles : p1.id = r1.profile
    BY DEF IInv, ReferencesStayRunnable, Referring
  <2>2. PICK p2 \in profiles : p2.id = r2.profile
    BY DEF IInv, ReferencesStayRunnable, Referring
  <2>3. p1.version = v /\ p2.version = v
    BY <2>1, <2>2 DEF IInv, VersionsTold, VersionsAreTold
  <2>4. p1.name = p2.name
    BY <2>1, <2>2 DEF IInv, ProfilesKeep
  <2> QED
    BY <2>1, <2>2, <2>3, <2>4 DEF IInv, ProfilesKeep
<1> QED
  BY <1>1, Invariance, PTL

\* The audit trail tells which scopes there are and which are approved (audit).
THEOREM TrailIsTrue == Spec => []TrailTellsScopes
<1>1. IInv => TrailTellsScopes
  BY DEF IInv
<1> QED
  BY <1>1, Invariance, PTL

\* An import is stored as a whole or not at all (import_scopes_csv).
THEOREM ImportsAreAtomic == Spec => []ImportsAreWhole
<1>1. IInv => ImportsAreWhole
  <2> SUFFICES ASSUME IInv, NEW q \in Request, Op(q) = "importScopes"
               PROVE  {d \in body[q].rows : Told({"importScopes"}, <<q, d.name>>)}
                        \in {{}, body[q].rows}
    BY DEF ImportsAreWhole
  <2>1. CASE pc[q] = "committed"
    BY <2>1 DEF IInv, ImportsAreTold
  <2>2. CASE pc[q] # "committed"
    <3>1. ASSUME NEW d \in body[q].rows, NEW e \in trail, Op(e.request) = "importScopes",
                 e.of = <<q, d.name>>
          PROVE  FALSE
      BY <2>2, <3>1 DEF IInv, Committed, ScopesAreTold
    <3> QED
      BY <3>1 DEF Told
  <2> QED
    BY <2>1, <2>2
<1> QED
  BY <1>1, Invariance, PTL

\* A role that was taken away is not given back by a request that had read it
\* earlier, unless that began before (provision_user).
THEOREM DemotionsAreKept == Spec => []NoLostDemotion
<1>1. IInv => NoLostDemotion
  BY DEF IInv, LastWriter, WroteLast, NoLostDemotion, Provisionings
<1> QED
  BY <1>1, Invariance, PTL

\* Whoever does something has been given a role for it (current_user, require_roles).
THEOREM ActsHaveRoles == Spec => ActsAreAuthorized
<1> DEFINE Allowed(e) ==
             \/ Op(e.request) = "scheduledRun"
             \/ body[e.request].by = Root
             \/ \E g \in trail : /\ Op(g.request) = "provision" /\ g.of = body[e.request].by
                                 /\ body[g.request].role \in Permitted[Op(e.request)]
<1>1. IInv /\ [Next]_vars => [\A e \in trail' \ trail : Allowed(e)]_vars
  <2> SUFFICES ASSUME IInv, Next, NEW e \in trail' \ trail PROVE Allowed(e)
    BY DEF vars, tables
  <2>1. PICK q \in Request : Write(q)
    <3>1. ~Bootstrap /\ \A q \in Request : ~Begin(q)
      BY DEF Bootstrap, Begin, tables
    <3> QED
      BY <3>1 DEF Next
  <2>2. PICK resources, version : Commit(q, resources, version)
    BY <2>1
       DEF Write, Provision, AddScope, ImportScopes, InsertScopes, AddProfile, ApproveScope,
           DeleteScope, DeleteProfile, AddSchedule, CreateRun
  <2>3. pc[q] = "open" /\ e.request = q
    BY <2>2 DEF Commit
  <2> QED
    BY <2>3 DEF IInv, RolesAreGiven, Given
<1>2. [][\A e \in trail' \ trail : Allowed(e)]_vars => ActsAreAuthorized
  BY PTL DEF ActsAreAuthorized
<1> QED
  BY <1>1, <1>2, Invariance, PTL DEF Spec
=============================================================================
