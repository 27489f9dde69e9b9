--------------------------- MODULE DatabaseProofs ---------------------------
(***************************************************************************)
(* Theorems about Database, for every set of requests of each kind, either  *)
(* adapter, any file version to start from and any number of crashes.       *)
(***************************************************************************)
EXTENDS Database, FiniteSetTheorems, TLAPS

\* What one list of schema changes makes, together.
All(s) == UNION {s[i] : i \in 1..Len(s)}

\* What the first n statements of the bootstrap make.
Bootstrapped(n) == UNION {Bootstrap[i] : i \in 1..n}

-----------------------------------------------------------------------------
\* The schema.

\* What two lists make is what the one and the other make.
LEMMA AllOfBoth ==
  ASSUME NEW a, NEW b, Len(a) \in Nat, Len(b) \in Nat, Len(a \o b) = Len(a) + Len(b),
         \A i \in 1..Len(a) : (a \o b)[i] = a[i],
         \A i \in 1..Len(b) : (a \o b)[Len(a) + i] = b[i]
  PROVE  All(a \o b) = All(a) \cup All(b)
<1>1. ASSUME NEW x, x \in All(a \o b) PROVE x \in All(a) \cup All(b)
  <2>1. PICK i \in 1..Len(a) + Len(b) : x \in (a \o b)[i]  BY <1>1 DEF All
  <2>2. CASE i <= Len(a)  BY <2>1, <2>2 DEF All
  <2>3. CASE i > Len(a)
    <3>1. i - Len(a) \in 1..Len(b) /\ i = Len(a) + (i - Len(a))  BY <2>3
    <3>2. x \in b[i - Len(a)]  BY <3>1, <2>1
    <3> QED  BY <3>1, <3>2 DEF All
  <2> QED  BY <2>2, <2>3
<1>2. ASSUME NEW x, x \in All(a) PROVE x \in All(a \o b)
  <2>1. PICK i \in 1..Len(a) : x \in a[i]  BY <1>2 DEF All
  <2>2. i \in 1..Len(a \o b) /\ x \in (a \o b)[i]  BY <2>1
  <2> QED  BY <2>2 DEF All
<1>3. ASSUME NEW x, x \in All(b) PROVE x \in All(a \o b)
  <2>1. PICK i \in 1..Len(b) : x \in b[i]  BY <1>3 DEF All
  <2>2. Len(a) + i \in 1..Len(a \o b) /\ x \in (a \o b)[Len(a) + i]  BY <2>1
  <2> QED  BY <2>2 DEF All
<1> QED  BY <1>1, <1>2, <1>3

\* Indexing the concatenation of two sequences.
LEMMA Concat ==
  ASSUME NEW S, NEW a \in Seq(S), NEW b \in Seq(S)
  PROVE  /\ a \o b \in Seq(S) /\ Len(a) \in Nat /\ Len(b) \in Nat
         /\ Len(a \o b) = Len(a) + Len(b)
         /\ \A i \in 1..Len(a) : (a \o b)[i] = a[i]
         /\ \A i \in 1..Len(b) : (a \o b)[Len(a) + i] = b[i]
         /\ All(a \o b) = All(a) \cup All(b)
<1>1. /\ a \o b \in Seq(S) /\ Len(a) \in Nat /\ Len(b) \in Nat
      /\ Len(a \o b) = Len(a) + Len(b)
      /\ \A i \in 1..Len(a) : (a \o b)[i] = a[i]
      /\ \A i \in 1..Len(b) : (a \o b)[Len(a) + i] = b[i]
  OBVIOUS
<1>2. All(a \o b) = All(a) \cup All(b)  BY <1>1, AllOfBoth
<1> QED  BY <1>1, <1>2

\* The tables and references of a whole schema.
Whole ==
  T("sessions", {"users", "organizations", "sessions"}) \cup T("messages", {"sessions", "plans"})
    \cup T("plans", {"sessions"}) \cup T("validate_runs", {"sessions", "plans"})
    \cup T("git_checkpoints", {"sessions", "validate_runs"}) \cup T("repo_map_cache", {})
    \cup T("tool_uses", {"messages"}) \cup T("organizations", {})
    \cup T("users", {"organizations"}) \cup T("api_tokens", {"users"})
    \cup T("billing_events", {"organizations", "sessions"})
    \cup T("invite_tokens", {"organizations", "users"}) \cup T("memories", {})
    \cup T("hook_runs", {}) \cup T("file_snapshots", {"sessions"})
    \cup T("memory_embeddings", {"memories"}) \cup T("permission_denials", {"sessions"})
    \cup T("permission_allow_rules", {"sessions", "organizations"})
    \cup T("installed_plugins", {}) \cup T("approval_requests", {"sessions", "plans"})

WithBookkeeping == Whole \cup T("schema_migrations", {})

\* The parts of the two lists.
LEMMA Parts ==
  /\ TaskMigrations \in Seq(SUBSET Whole) /\ Len(TaskMigrations) = 5
  /\ CloudMigrations \in Seq(SUBSET Whole) /\ Len(CloudMigrations) = 6
  /\ LaterMigrations \in Seq(SUBSET Whole) /\ Len(LaterMigrations) = 13
  /\ BootstrapCore \in Seq(SUBSET WithBookkeeping) /\ Len(BootstrapCore) = 13
  /\ BootstrapRest \in Seq(SUBSET WithBookkeeping) /\ Len(BootstrapRest) = 8
<1>1. TaskMigrations \in Seq(SUBSET Whole) /\ Len(TaskMigrations) = 5
  BY DEF TaskMigrations, Whole, T
<1>2. CloudMigrations \in Seq(SUBSET Whole) /\ Len(CloudMigrations) = 6
  BY DEF CloudMigrations, Whole, T
<1>3. LaterMigrations \in Seq(SUBSET Whole) /\ Len(LaterMigrations) = 13
  BY DEF LaterMigrations, Whole, T
<1>4. BootstrapCore \in Seq(SUBSET WithBookkeeping) /\ Len(BootstrapCore) = 13
  BY DEF BootstrapCore, Whole, T, WithBookkeeping
<1>5. BootstrapRest \in Seq(SUBSET WithBookkeeping) /\ Len(BootstrapRest) = 8
  BY DEF BootstrapRest, Whole, T, WithBookkeeping
<1> QED  BY <1>1, <1>2, <1>3, <1>4, <1>5

LEMMA MigrationsAre ==
  /\ Migrations \in Seq(SUBSET Whole) /\ latestSchemaVersion = 24 /\ Len(Migrations) = 24
  /\ All(Migrations) = All(TaskMigrations) \cup All(CloudMigrations) \cup All(LaterMigrations)
<1> DEFINE First == TaskMigrations \o CloudMigrations
<1>1. /\ First \in Seq(SUBSET Whole) /\ Len(First) = 11
      /\ All(First) = All(TaskMigrations) \cup All(CloudMigrations)
  <2>1. TaskMigrations \in Seq(SUBSET Whole) /\ CloudMigrations \in Seq(SUBSET Whole)  BY Parts
  <2>2. /\ First \in Seq(SUBSET Whole) /\ Len(First) = Len(TaskMigrations) + Len(CloudMigrations)
        /\ All(First) = All(TaskMigrations) \cup All(CloudMigrations)
    BY <2>1, Concat
  <2> QED  BY <2>2, Parts
<1>2. Migrations = First \o LaterMigrations  BY DEF Migrations
<1> HIDE DEF First
<1>3. First \in Seq(SUBSET Whole) /\ LaterMigrations \in Seq(SUBSET Whole)  BY <1>1, Parts
<1>4. /\ First \o LaterMigrations \in Seq(SUBSET Whole)
      /\ Len(First \o LaterMigrations) = Len(First) + Len(LaterMigrations)
      /\ All(First \o LaterMigrations) = All(First) \cup All(LaterMigrations)
  BY <1>3, Concat
<1>5. Len(Migrations) = 24  BY <1>1, <1>2, <1>4, Parts
<1> QED  BY <1>1, <1>2, <1>4, <1>5 DEF latestSchemaVersion

LEMMA BootstrapIs ==
  /\ Bootstrap \in Seq(SUBSET WithBookkeeping) /\ Len(Bootstrap) = 21
  /\ All(Bootstrap) = All(BootstrapCore) \cup All(BootstrapRest)
  /\ \A i \in 1..13 : Bootstrap[i] = BootstrapCore[i]
  /\ \A i \in 1..8 : Bootstrap[13 + i] = BootstrapRest[i]
<1>1. /\ BootstrapCore \in Seq(SUBSET WithBookkeeping)
      /\ BootstrapRest \in Seq(SUBSET WithBookkeeping)
  BY Parts
<1>2. /\ Bootstrap \in Seq(SUBSET WithBookkeeping)
      /\ Len(Bootstrap) = Len(BootstrapCore) + Len(BootstrapRest)
      /\ All(Bootstrap) = All(BootstrapCore) \cup All(BootstrapRest)
      /\ \A i \in 1..Len(BootstrapCore) : Bootstrap[i] = BootstrapCore[i]
      /\ \A i \in 1..Len(BootstrapRest) : Bootstrap[Len(BootstrapCore) + i] = BootstrapRest[i]
  BY <1>1, Concat DEF Bootstrap
<1> QED  BY <1>2, Parts

\* An element of a sequence.
LEMMA ElementOf == ASSUME NEW S, NEW t \in Seq(S), NEW i \in 1..Len(t) PROVE t[i] \in S
  OBVIOUS

\* The latest version has the whole schema, and so has a bootstrapped database.
LEMMA WholeSchema == SchemaAt(24) = Whole /\ Bootstrapped(21) = WithBookkeeping
<1>1. /\ \A i \in 1..5 : TaskMigrations[i] \subseteq All(TaskMigrations)
      /\ \A i \in 1..6 : CloudMigrations[i] \subseteq All(CloudMigrations)
      /\ \A i \in 1..13 : LaterMigrations[i] \subseteq All(LaterMigrations)
      /\ \A i \in 1..13 : BootstrapCore[i] \subseteq All(BootstrapCore)
      /\ \A i \in 1..8 : BootstrapRest[i] \subseteq All(BootstrapRest)
  BY Parts DEF All
<1>2. Whole \subseteq All(TaskMigrations) \cup All(CloudMigrations) \cup All(LaterMigrations)
  <2>1. T("sessions", {}) \cup T("messages", {"sessions"}) \cup T("plans", {"sessions"})
         \cup T("validate_runs", {"sessions", "plans"})
         \cup T("git_checkpoints", {"sessions", "validate_runs"}) \cup T("repo_map_cache", {})
         \cup T("tool_uses", {"messages"}) \cup {<<"messages", "plans">>} \subseteq All(TaskMigrations)
    <3>1. TaskMigrations[1] \cup TaskMigrations[3] \cup TaskMigrations[4]
            \subseteq All(TaskMigrations)
      BY <1>1
    <3> QED  BY <3>1 DEF TaskMigrations
  <2>2. T("organizations", {}) \cup T("users", {"organizations"}) \cup T("api_tokens", {"users"})
         \cup {<<"sessions", "users">>, <<"sessions", "organizations">>}
         \cup T("billing_events", {"organizations", "sessions"})
         \cup T("invite_tokens", {"organizations", "users"}) \subseteq All(CloudMigrations)
    <3>1. CloudMigrations[1] \cup CloudMigrations[2] \cup CloudMigrations[3] \cup CloudMigrations[4]
          \cup CloudMigrations[5] \cup CloudMigrations[6]
            \subseteq All(CloudMigrations)
      BY <1>1
    <3> QED  BY <3>1 DEF CloudMigrations
  <2>3. T("memories", {}) \cup T("hook_runs", {}) \cup T("file_snapshots", {"sessions"})
         \cup {<<"sessions", "sessions">>} \cup T("memory_embeddings", {"memories"})
         \cup T("permission_denials", {"sessions"})
         \cup T("permission_allow_rules", {"sessions", "organizations"})
         \cup T("installed_plugins", {}) \cup T("approval_requests", {"sessions", "plans"})
           \subseteq All(LaterMigrations)
    <3>1. LaterMigrations[1] \cup LaterMigrations[2] \cup LaterMigrations[6] \cup LaterMigrations[7]
          \cup LaterMigrations[9] \cup LaterMigrations[10] \cup LaterMigrations[11]
          \cup LaterMigrations[12]
            \subseteq All(LaterMigrations)
      BY <1>1
    <3> QED  BY <3>1 DEF LaterMigrations
  <2> QED  BY <2>1, <2>2, <2>3 DEF Whole, T
<1>3. All(Migrations) = Whole
  <2>1. All(Migrations) \subseteq Whole
    <3>1. ASSUME NEW i \in 1..24 PROVE Migrations[i] \in SUBSET Whole
      BY MigrationsAre, ElementOf
    <3> QED  BY <3>1, MigrationsAre DEF All
  <2> QED  BY <2>1, <1>2, MigrationsAre
<1>4. WithBookkeeping \subseteq All(BootstrapCore) \cup All(BootstrapRest)
  <2>1. T("schema_migrations", {}) \cup T("organizations", {}) \cup T("users", {"organizations"})
         \cup T("sessions", {"sessions", "users", "organizations"})
         \cup T("plans", {"sessions"}) \cup T("messages", {"sessions", "plans"})
         \cup T("validate_runs", {"sessions", "plans"})
         \cup T("git_checkpoints", {"sessions", "validate_runs"}) \cup T("repo_map_cache", {})
         \cup T("tool_uses", {"messages"}) \cup T("billing_events", {"organizations", "sessions"})
         \cup T("api_tokens", {"users"}) \cup T("invite_tokens", {"organizations", "users"})
           \subseteq All(BootstrapCore)
    <3>1. BootstrapCore[1] \cup BootstrapCore[2] \cup BootstrapCore[3] \cup BootstrapCore[4]
          \cup BootstrapCore[5] \cup BootstrapCore[6] \cup BootstrapCore[7] \cup BootstrapCore[8]
          \cup BootstrapCore[9] \cup BootstrapCore[10] \cup BootstrapCore[11] \cup BootstrapCore[12]
          \cup BootstrapCore[13]
            \subseteq All(BootstrapCore)
      BY <1>1
    <3> QED  BY <3>1 DEF BootstrapCore
  <2>2. T("memories", {}) \cup T("hook_runs", {}) \cup T("file_snapshots", {"sessions"})
         \cup T("memory_embeddings", {"memories"}) \cup T("permission_denials", {"sessions"})
         \cup T("permission_allow_rules", {"sessions", "organizations"})
         \cup T("installed_plugins", {}) \cup T("approval_requests", {"sessions", "plans"})
           \subseteq All(BootstrapRest)
    <3>1. BootstrapRest[1] \cup BootstrapRest[2] \cup BootstrapRest[3] \cup BootstrapRest[4]
          \cup BootstrapRest[5] \cup BootstrapRest[6] \cup BootstrapRest[7] \cup BootstrapRest[8]
            \subseteq All(BootstrapRest)
      BY <1>1
    <3> QED  BY <3>1 DEF BootstrapRest
  <2> QED  BY <2>1, <2>2 DEF WithBookkeeping, Whole
<1>5. All(Bootstrap) = WithBookkeeping
  <2>1. All(Bootstrap) \subseteq WithBookkeeping
    <3>1. ASSUME NEW i \in 1..21 PROVE Bootstrap[i] \in SUBSET WithBookkeeping
      BY BootstrapIs, ElementOf
    <3> QED  BY <3>1, BootstrapIs DEF All
  <2> QED  BY <2>1, <1>4, BootstrapIs
<1>6. SchemaAt(24) = All(Migrations)  BY MigrationsAre DEF SchemaAt, All
<1>7. Bootstrapped(21) = All(Bootstrap)  BY BootstrapIs DEF Bootstrapped, All
<1> QED  BY <1>3, <1>5, <1>6, <1>7

\* Each version adds its migration to the version before.
LEMMA SchemaGrows ==
  /\ SchemaAt(0) = {}
  /\ \A v \in 0..23 : SchemaAt(v + 1) = SchemaAt(v) \cup Migrations[v + 1]
  /\ \A v \in 0..24 : SchemaAt(v) \subseteq Whole
<1>1. SchemaAt(0) = {}  BY DEF SchemaAt
<1>2. ASSUME NEW v \in 0..23 PROVE SchemaAt(v + 1) = SchemaAt(v) \cup Migrations[v + 1]
  <2>1. 1..v + 1 = (1..v) \cup {v + 1}  OBVIOUS
  <2> QED  BY <2>1 DEF SchemaAt
<1>3. ASSUME NEW v \in 0..24 PROVE SchemaAt(v) \subseteq SchemaAt(24)  BY DEF SchemaAt
<1> QED  BY <1>1, <1>2, <1>3, WholeSchema

\* The names of the bootstrap's tables, in their order.
BootstrapNames ==
  << "schema_migrations", "organizations", "users", "sessions", "plans", "messages",
     "validate_runs", "git_checkpoints", "repo_map_cache", "tool_uses", "billing_events",
     "api_tokens", "invite_tokens", "memories", "hook_runs", "file_snapshots",
     "memory_embeddings", "permission_denials", "permission_allow_rules", "installed_plugins",
     "approval_requests" >>

\* Each statement of the bootstrap creates one table, and no two the same.
LEMMA BootstrapNamed ==
  /\ \A i \in 1..21 : /\ <<BootstrapNames[i]>> \in Bootstrap[i]
                      /\ \A f \in Bootstrap[i] : f[1] = BootstrapNames[i]
  /\ \A i, j \in 1..21 : BootstrapNames[i] = BootstrapNames[j] => i = j
<1>1. ASSUME NEW i \in 1..13
      PROVE  /\ <<BootstrapNames[i]>> \in BootstrapCore[i]
             /\ \A f \in BootstrapCore[i] : f[1] = BootstrapNames[i]
  BY DEF BootstrapCore, BootstrapNames, T
<1>2. ASSUME NEW i \in 1..8
      PROVE  /\ <<BootstrapNames[13 + i]>> \in BootstrapRest[i]
             /\ \A f \in BootstrapRest[i] : f[1] = BootstrapNames[13 + i]
  BY DEF BootstrapRest, BootstrapNames, T
<1>3. \A i, j \in 1..21 : BootstrapNames[i] = BootstrapNames[j] => i = j
  BY DEF BootstrapNames
<1>4. ASSUME NEW i \in 1..21
      PROVE  /\ <<BootstrapNames[i]>> \in Bootstrap[i]
             /\ \A f \in Bootstrap[i] : f[1] = BootstrapNames[i]
  <2>1. CASE i <= 13
    <3>1. i \in 1..13  BY <2>1
    <3>2. Bootstrap[i] = BootstrapCore[i]  BY <3>1, BootstrapIs
    <3> QED  BY <3>1, <3>2, <1>1
  <2>2. CASE i > 13
    <3>1. i - 13 \in 1..8 /\ i = 13 + (i - 13)  BY <2>2
    <3>2. Bootstrap[i] = BootstrapRest[i - 13]  BY <3>1, BootstrapIs
    <3> QED  BY <3>1, <3>2, <1>2
  <2> QED  BY <2>1, <2>2
<1> QED  BY <1>3, <1>4

\* Each statement of the bootstrap creates its table when the ones before have
\* run, and does nothing when all have.
LEMMA BootstrapGrows ==
  /\ Bootstrapped(0) = {}
  /\ \A n \in 0..20 :
       LET self == {f \in Bootstrap[n + 1] : Len(f) = 1}
       IN /\ ~(self \subseteq Bootstrapped(n))
          /\ Bootstrapped(n + 1) = Bootstrapped(n) \cup Bootstrap[n + 1]
          /\ Bootstrap[n + 1] \subseteq Bootstrapped(21)
<1>1. Bootstrapped(0) = {}  BY DEF Bootstrapped
<1>2. ASSUME NEW n \in 0..20
      PROVE  /\ ~({f \in Bootstrap[n + 1] : Len(f) = 1} \subseteq Bootstrapped(n))
             /\ Bootstrapped(n + 1) = Bootstrapped(n) \cup Bootstrap[n + 1]
             /\ Bootstrap[n + 1] \subseteq Bootstrapped(21)
  <2>1. 1..n + 1 = (1..n) \cup {n + 1}  OBVIOUS
  <2>2. Bootstrapped(n + 1) = Bootstrapped(n) \cup Bootstrap[n + 1]  BY <2>1 DEF Bootstrapped
  <2>3. Bootstrap[n + 1] \subseteq Bootstrapped(21)  BY DEF Bootstrapped
  <2>4. <<BootstrapNames[n + 1]>> \in Bootstrap[n + 1]  BY BootstrapNamed
  <2>5. <<BootstrapNames[n + 1]>> \notin Bootstrapped(n)
    <3> SUFFICES ASSUME NEW i \in 1..n, <<BootstrapNames[n + 1]>> \in Bootstrap[i] PROVE FALSE
      BY DEF Bootstrapped
    <3>1. BootstrapNames[n + 1] = BootstrapNames[i]  BY BootstrapNamed
    <3> QED  BY <3>1, BootstrapNamed
  <2>6. Len(<<BootstrapNames[n + 1]>>) = 1  OBVIOUS
  <2> QED  BY <2>2, <2>3, <2>4, <2>5, <2>6
<1> QED  BY <1>1, <1>2

\* The schema on its way: on SQLite that of the recorded version, and in the
\* open transaction the next one's; on Postgres nothing or everything, and in the
\* transaction what the statements so far have created.
SchemaSteps ==
  /\ phase \in {"boot", "serving", "refused"} /\ backend \in AllBackends
  /\ backend = "sqlite" =>
       /\ version \in 0..latestSchemaVersion + 1
       /\ schema = SchemaAt(IF version > latestSchemaVersion THEN latestSchemaVersion ELSE version)
       /\ mig # None => /\ phase = "boot" /\ version < latestSchemaVersion
                        /\ mig = [at |-> version, schema |-> SchemaAt(version + 1)]
       /\ phase = "serving" => version = latestSchemaVersion
  /\ backend = "postgres" =>
       /\ version \in {0, latestSchemaVersion}
       /\ schema = {} \/ schema = Bootstrapped(Len(Bootstrap))
       /\ mig # None => /\ phase = "boot" /\ mig.at \in 1..Len(Bootstrap)
                        /\ mig.schema = Bootstrapped(IF schema = {} THEN mig.at ELSE Len(Bootstrap))
       /\ phase = "serving" =>
            version = latestSchemaVersion /\ schema = Bootstrapped(Len(Bootstrap))

LEMMA SchemaInit == ASSUME Init PROVE SchemaSteps
<1>1. CASE backend = "sqlite"
  <2>1. version \in 0..25  BY <1>1, BoundsAssumption, MigrationsAre DEF Init
  <2> QED  BY <1>1, <2>1, BackendsAssumption, MigrationsAre DEF Init, SchemaSteps, AllBackends
<1>2. CASE backend # "sqlite"
  <2>1. version = 0 /\ schema = {}  BY <1>2, MigrationsAre, SchemaGrows DEF Init
  <2> QED  BY <1>2, <2>1, BackendsAssumption DEF Init, SchemaSteps, AllBackends
<1> QED  BY <1>1, <1>2

\* The steps of the start keep it, ...
LEMMA BootKeepsSchema ==
  ASSUME SchemaSteps,
         \/ RefuseNewer \/ ApplyMigration \/ CommitMigration
         \/ BootstrapCommit \/ Serve \/ Crash
  PROVE  SchemaSteps'
<1>1. latestSchemaVersion = 24 /\ Len(Bootstrap) = 21  BY MigrationsAre, BootstrapIs
<1>2. \A v \in 0..23 : SchemaAt(v + 1) = SchemaAt(v) \cup Migrations[v + 1]  BY SchemaGrows
<1>3. CASE RefuseNewer  BY <1>1, <1>3 DEF RefuseNewer, SchemaSteps, AllBackends
<1>4. CASE ApplyMigration
  <2>1. version \in 0..23 /\ schema = SchemaAt(version)
    BY <1>1, <1>4 DEF ApplyMigration, SchemaSteps
  <2>2. mig' = [at |-> version, schema |-> SchemaAt(version + 1)]
    BY <1>2, <1>4, <2>1 DEF ApplyMigration
  <2> QED  BY <1>1, <1>4, <2>1, <2>2 DEF ApplyMigration, SchemaSteps, AllBackends
<1>5. CASE CommitMigration
  <2>1. version' = version + 1 /\ version' \in 1..24 /\ schema' = SchemaAt(version')
    BY <1>1, <1>5 DEF CommitMigration, SchemaSteps
  <2> QED  BY <1>1, <1>5, <2>1 DEF CommitMigration, SchemaSteps, AllBackends
<1>6. CASE BootstrapCommit
  <2>1. schema' = Bootstrapped(21)  BY <1>1, <1>6 DEF BootstrapCommit, SchemaSteps
  <2> QED  BY <1>1, <1>6, <2>1 DEF BootstrapCommit, SchemaSteps, AllBackends
<1>7. CASE Serve  BY <1>1, <1>7 DEF Serve, SchemaSteps, AllBackends
<1>8. CASE Crash  BY <1>8 DEF Crash, SchemaSteps, AllBackends
<1> QED  BY <1>3, <1>4, <1>5, <1>6, <1>7, <1>8

\* ... a statement of the bootstrap too, ...
LEMMA BootstrapKeepsSchema ==
  ASSUME SchemaSteps, BootstrapStatement
  PROVE  SchemaSteps'
<1> DEFINE n == IF mig = None THEN 0 ELSE mig.at
           new == Bootstrap[n + 1]
           self == {f \in new : Len(f) = 1}
<1>1. Len(Bootstrap) = 21  BY BootstrapIs
<1>2. backend = "postgres" /\ phase = "boot" /\ n \in 0..20
  BY <1>1 DEF BootstrapStatement, SchemaSteps
<1>3. UNCHANGED <<backend, version, schema>>  BY DEF BootstrapStatement
<1>4. Created(mig) = Bootstrapped(IF schema = {} THEN n ELSE 21)
  BY <1>1, <1>2, BootstrapGrows DEF SchemaSteps, Created
<1>5. CASE mig' = None
  <2>1. phase' \in {"boot", "refused"}  BY <1>2 DEF BootstrapStatement
  <2> QED  BY <1>2, <1>3, <1>5, <2>1 DEF SchemaSteps, AllBackends
<1>6. CASE mig' # None
  <2>1. /\ mig' = [at |-> n + 1, schema |-> IF self \subseteq Created(mig) THEN Created(mig)
                                           ELSE Created(mig) \cup new]
        /\ phase' = phase
    BY <1>6 DEF BootstrapStatement
  <2>2. /\ ~(self \subseteq Bootstrapped(n)) /\ new \subseteq Bootstrapped(21)
        /\ Bootstrapped(n + 1) = Bootstrapped(n) \cup new
    BY <1>2, BootstrapGrows
  <2> HIDE DEF n, new, self
  <2>3. CASE schema = {}
    <3>1. mig' = [at |-> n + 1, schema |-> Bootstrapped(n + 1)]  BY <1>4, <2>1, <2>2, <2>3
    <3>2. /\ mig'.at \in 1..21 /\ mig'.schema = Bootstrapped(mig'.at)
          /\ schema' = {} /\ backend' = "postgres" /\ phase' = "boot" /\ version' = version
      BY <1>2, <1>3, <2>1, <2>3, <3>1
    <3> QED  BY <1>1, <1>2, <3>2 DEF SchemaSteps, AllBackends
  <2>4. CASE schema # {}
    <3>1. mig' = [at |-> n + 1, schema |-> Bootstrapped(21)]  BY <1>4, <2>1, <2>2, <2>4
    <3>2. /\ mig'.at \in 1..21 /\ mig'.schema = Bootstrapped(21)
          /\ schema' = schema /\ backend' = "postgres" /\ phase' = "boot" /\ version' = version
      BY <1>2, <1>3, <2>1, <2>4, <3>1
    <3> QED  BY <1>1, <1>2, <2>4, <3>2 DEF SchemaSteps, AllBackends
  <2> QED  BY <2>3, <2>4
<1> QED  BY <1>5, <1>6

\* ... and no request touches the schema.
Requesting == \E c \in Requests :
  \/ Begin(c) \/ Commit(c) \/ StartWriter(c) \/ InsertRow(c)
  \/ StartDestroy(c) \/ DeleteStatement(c)
  \/ PreCheck(c) \/ ReCheck(c) \/ InsertUser(c) \/ MarkAccepted(c)
  \/ StartErase(c) \/ EraseStatement(c)

LEMMA RequestsLeaveSchema ==
  ASSUME Requesting
  PROVE  UNCHANGED <<backend, phase, version, schema, mig, crashes>> /\ phase = "serving"
<1> PICK c \in Requests :
      \/ Begin(c) \/ Commit(c) \/ StartWriter(c) \/ InsertRow(c)
      \/ StartDestroy(c) \/ DeleteStatement(c)
      \/ PreCheck(c) \/ ReCheck(c) \/ InsertUser(c) \/ MarkAccepted(c)
      \/ StartErase(c) \/ EraseStatement(c)
  BY DEF Requesting
<1>1. CASE Begin(c) \/ Commit(c) \/ StartWriter(c) \/ StartDestroy(c)
  BY <1>1 DEF Begin, Commit, StartWriter, StartDestroy, schemaVars
<1>2. CASE InsertRow(c)  BY <1>2 DEF InsertRow, schemaVars
<1>3. CASE DeleteStatement(c)  BY <1>3 DEF DeleteStatement, Next1, schemaVars
<1>4. CASE PreCheck(c) \/ ReCheck(c)  BY <1>4 DEF PreCheck, ReCheck, Next1, schemaVars
<1>5. CASE InsertUser(c) \/ MarkAccepted(c)
  BY <1>5 DEF InsertUser, MarkAccepted, Next1, schemaVars
<1>6. CASE StartErase(c)  BY <1>6 DEF StartErase, schemaVars
<1>7. CASE EraseStatement(c)  BY <1>7 DEF EraseStatement, Next1, schemaVars
<1> QED  BY <1>1, <1>2, <1>3, <1>4, <1>5, <1>6, <1>7

LEMMA NextIs == 
  Next <=> \/ RefuseNewer \/ ApplyMigration \/ CommitMigration
           \/ BootstrapStatement \/ BootstrapCommit \/ Serve \/ Crash
           \/ Requesting
  BY DEF Next, Requesting

LEMMA SchemaStep ==
  ASSUME SchemaSteps, [Next]_vars
  PROVE  SchemaSteps'
<1>1. CASE Requesting
  <2>1. UNCHANGED <<backend, phase, version, schema, mig>>  BY <1>1, RequestsLeaveSchema
  <2> QED  BY <2>1 DEF SchemaSteps
<1>2. CASE UNCHANGED vars  BY <1>2 DEF SchemaSteps, vars, schemaVars
<1> QED  BY <1>1, <1>2, NextIs, BootKeepsSchema, BootstrapKeepsSchema

-----------------------------------------------------------------------------
\* The invariant.

AcceptOrder == <<"recheck", "insert", "mark">>
WriterScripts == {EngineRows, TokenRows, TurnRows, ChildRows, BillingRows, SnapshotRows}

\* The types of the rest.
Row == [up : SUBSET Keys, val : {"row", "live", "erased", "open", "accepted", "gone"}]
Stored(r) == DOMAIN r \subseteq Keys /\ r \in [DOMAIN r -> Row]

Shaped ==
  /\ backend \in AllBackends
  /\ Stored(rows)
  /\ DOMAIN work = Connections /\ work = [x \in Connections |-> work[x]]
  /\ \A x \in Connections : Stored(work[x])
  /\ owner \in [Connections -> Requests \cup {None}]
  /\ script = [c \in Requests |-> script[c]] /\ at \in [Requests -> Nat]
  /\ state \in [Requests -> {"new", "ready", "open", "done", "failed"}]
  /\ crashes \in 0..MaxCrashes
  /\ acked \subseteq Keys \X (Requests \cup {None})
  /\ late \in [Destroyers -> SUBSET Keys]

\* What a request runs.
Scripted == \A c \in Requests :
  /\ at[c] <= Len(script[c])
  /\ state[c] = "new" => at[c] = 0
  /\ state[c] = "ready" => at[c] = 0 /\ c \notin Writers
  /\ state[c] = "open" /\ c \in Writers => at[c] < Len(script[c])
  /\ state[c] \in {"ready", "open"} =>
       /\ c \in Writers => script[c] \in WriterScripts
       /\ c \in Destroyers => script[c] = DeleteOrder
       /\ c \in Acceptors => script[c] = AcceptOrder
       /\ c \in Erasers => \E u \in DOMAIN rows :
            u[1] = "users" /\ script[c] = << <<"revoke", u>>, <<"anonymise", u>> >>

\* A connection is inside the transaction of the one request that opened it.
Held ==
  /\ \A x \in Connections :
       /\ owner[x] # None => owner[x] \notin Writers /\ state[owner[x]] = "open" /\ Conn(owner[x]) = x
       /\ owner[x] = None => work[x] = NoRows
  /\ \A c \in Requests \ Writers : state[c] = "open" => owner[Conn(c)] = c

\* What may stand uncommitted under a key, by whose transaction it is.
WrittenBy(o, k, row) ==
  /\ row = Gone => o \in Destroyers
  /\ k = Session => row = Gone
  /\ k[1] = "users" =>
       \/ o \in Acceptors /\ k = <<"users", o>> /\ row.val = "live"
       \/ o \in Erasers /\ k \in DOMAIN rows /\ row.val = "erased"
  /\ k[1] = "invite_tokens" => o \in Acceptors /\ k = Invite /\ row.val = "accepted"
  /\ backend = "postgres" => row = Gone \/ k[1] \in {"users", "invite_tokens", "api_tokens"}

Written ==
  /\ \A x \in Connections : \A k \in DOMAIN work[x] : WrittenBy(owner[x], k, work[x][k])
  /\ \A x \in Connections : owner[x] \in Acceptors =>
       /\ at[owner[x]] >= 2 <=> <<"users", owner[x]>> \in DOMAIN work[x]
       /\ at[owner[x]] = 3 <=> Invite \in DOMAIN work[x]
  /\ \A x \in Connections : owner[x] \in Destroyers /\ at[owner[x]] = Len(DeleteOrder) =>
       Session \in DOMAIN work[x] \/ Session \notin DOMAIN rows
  /\ \A k \in DOMAIN rows : rows[k] # Gone

\* The acknowledged rows: committed, or uncommitted with the transaction they
\* ran in, or lost with it.
Acknowledged == \A a \in acked :
  \/ a[1] \in DOMAIN rows
  \/ Session \notin DOMAIN rows
  \/ a[2] # None /\ state[a[2]] = "failed"
  \/ a[2] # None /\ state[a[2]] = "open" /\ a[2] \notin Writers /\ a[1] \in DOMAIN work[Conn(a[2])]

\* The invite: who holds its email, committed and not.
Invited ==
  /\ Invite \in DOMAIN rows
  /\ rows[Invite].val = "accepted" <=> Accepted # {}
  /\ \A j, k \in Accepted : rows[j].val = "live" /\ rows[k].val = "live" => j = k
  /\ \A x \in Connections : owner[x] \in Acceptors /\ at[owner[x]] >= 2 =>
       /\ \A k \in Accepted : rows[k].val # "live"
       /\ \A y \in Connections : owner[y] \in Acceptors /\ at[owner[y]] >= 2 => y = x

\* What a row refers to: rows that are there from the start, or, with the
\* session, rows of a table whose rows are deleted later than its own.
Refers(k, row) ==
  /\ \A j \in row.up \ {Org, Owner, Session} :
       /\ Session \in row.up
       /\ \/ j[1] = "plans" /\ k[1] \in {"messages", "validate_runs"}
          \/ j[1] = "validate_runs" /\ k[1] = "git_checkpoints"
  /\ Session \in row.up =>
       k[1] \in {"messages", "plans", "validate_runs", "git_checkpoints", "file_snapshots",
                 "sessions", "billing_events"}

Referring ==
  /\ \A k \in DOMAIN rows : Refers(k, rows[k])
  /\ \A x \in Connections : \A k \in DOMAIN work[x] : Refers(k, work[x][k])

\* What a deletion has been through has no row of the session, but late ones.
Deleted == \A d \in Destroyers : state[d] = "open" =>
  \A k \in DOMAIN View(Conn(d)), i \in 1..at[d] :
    Session \in View(Conn(d))[k].up /\ k[1] = DeleteOrder[i] /\ k[1] # "sessions" => k \in late[d]

DataInv == Shaped /\ Scripted /\ Held /\ Written /\ Acknowledged /\ Invited /\ Referring /\ Deleted

-----------------------------------------------------------------------------
\* Helpers.

\* None and the shared connection are no requests.
LEMMA Apart ==
  /\ None \notin Requests /\ Shared \notin Requests /\ None # Shared
  /\ {"o", "owner", "s", "i"} \cap Requests = {}
  /\ Writers \cap (Destroyers \cup Acceptors \cup Erasers) = {}
  /\ Destroyers \cap (Acceptors \cup Erasers) = {} /\ Acceptors \cap Erasers = {}
  /\ Requests = Writers \cup Destroyers \cup Acceptors \cup Erasers
  BY RequestsAssumption DEF Requests, Shared

LEMMA ConnIs ==
  /\ \A c \in Requests : Conn(c) \in Connections
  /\ backend = "sqlite" => \A c, d : Conn(c) = Conn(d)
  /\ backend # "sqlite" => \A c : Conn(c) = c
  BY DEF Conn, Connections

\* What a connection sees of a key.
LEMMA ViewIs ==
  ASSUME NEW x
  PROVE  /\ \A k : k \in DOMAIN View(x) <=>
              \/ k \in DOMAIN work[x] /\ work[x][k] # Gone
              \/ k \notin DOMAIN work[x] /\ k \in DOMAIN rows /\ rows[k] # Gone
         /\ \A k \in DOMAIN View(x) :
              View(x)[k] = IF k \in DOMAIN work[x] THEN work[x][k] ELSE rows[k]
         /\ View(x) = [k \in DOMAIN View(x) |-> View(x)[k]]
  BY DEF View

LEMMA OverIs ==
  ASSUME NEW ch, NEW r
  PROVE  /\ DOMAIN Over(ch, r) = DOMAIN ch \cup DOMAIN r
         /\ \A k \in DOMAIN ch : Over(ch, r)[k] = ch[k]
         /\ \A k \in DOMAIN r \ DOMAIN ch : Over(ch, r)[k] = r[k]
  BY DEF Over

LEMMA OverIsFunction ==
  ASSUME NEW ch, NEW r
  PROVE  Over(ch, r) = [k \in DOMAIN Over(ch, r) |-> Over(ch, r)[k]]
  BY DEF Over

\* Tables the requests touch.
Touched == {"sessions", "users", "organizations", "invite_tokens", "messages", "plans",
            "validate_runs", "git_checkpoints", "api_tokens", "billing_events", "file_snapshots"}

LEMMA TouchedAreTables ==
  /\ Touched \subseteq Tables
  /\ \A t \in Touched, c \in Requests : <<t, c>> \in Keys
  /\ {Org, Owner, Session, Invite} \subseteq Keys
<1>1. ASSUME NEW t \in Touched PROVE <<t>> \in Whole  BY DEF Touched, Whole, T
<1>2. Schemas[latestSchemaVersion] = Whole  BY MigrationsAre, WholeSchema DEF Schemas
<1>3. \A t \in Touched : <<t>>[1] = t  OBVIOUS
<1>4. Touched \subseteq Tables  BY <1>1, <1>2, <1>3 DEF Tables
<1> QED  BY <1>4 DEF Keys

\* While the daemon serves, the whole schema is there.
LEMMA ServingWhole ==
  ASSUME SchemaSteps, phase = "serving"
  PROVE  Whole \subseteq schema
  BY MigrationsAre, BootstrapIs, WholeSchema DEF SchemaSteps, AllBackends, WithBookkeeping

-----------------------------------------------------------------------------
\* What a step does to the rows, by its kind.

\* Request c is inside its transaction.
Inside(c) == /\ c \in Requests \ Writers /\ phase = "serving" /\ state[c] = "open"
             /\ owner[Conn(c)] = c /\ Conn(c) \in Connections

Others == <<backend, script, crashes, acked, late>>

\* Its next statement writes ch; or its transaction is undone.
Statement(c, ch) ==
  /\ Inside(c) /\ at[c] < Len(script[c])
  /\ UNCHANGED <<Others, rows, owner, state>>
  /\ work' = [work EXCEPT ![Conn(c)] = Over(ch, work[Conn(c)])]
  /\ at' = [at EXCEPT ![c] = at[c] + 1]

Undone(c) ==
  /\ Inside(c) /\ UNCHANGED <<Others, rows, at>>
  /\ work' = [work EXCEPT ![Conn(c)] = NoRows] /\ owner' = [owner EXCEPT ![Conn(c)] = None]
  /\ state' = [state EXCEPT ![c] = "failed"]

\* A request starts; or nothing happens to the rows or the requests.
Starts(c) ==
  /\ c \in Requests /\ state[c] = "new"
  /\ UNCHANGED <<backend, rows, work, owner, at, crashes, acked, late>>
  /\ \E s : script' = [script EXCEPT ![c] = s]
  /\ \/ c \in Writers /\ state' = [state EXCEPT ![c] = "open"] /\ script'[c] \in WriterScripts
     \/ state' = [state EXCEPT ![c] = "failed"] /\ Len(script'[c]) \in Nat
     \/ /\ c \notin Writers /\ state' = [state EXCEPT ![c] = "ready"]
        /\ c \in Destroyers => script'[c] = DeleteOrder
        /\ c \in Acceptors => script'[c] = AcceptOrder
        /\ c \in Erasers => \E u \in DOMAIN rows :
             u[1] = "users" /\ script'[c] = << <<"revoke", u>>, <<"anonymise", u>> >>

Idle == UNCHANGED <<Others, rows, work, owner, at, state>>

\* The statements of a deletion, an acceptance and an erasure.
Deletes(c) == \E t \in Range(DeleteOrder) :
  /\ c \in Destroyers /\ Statement(c, [k \in Of(Conn(c), t) |-> Gone])
  /\ script[c][at[c] + 1] = t /\ Referencing(Conn(c), Of(Conn(c), t)) = {}

Rechecks(c) == c \in Acceptors /\ script[c][at[c] + 1] = "recheck" /\ Statement(c, NoRows)

InsertsUser(c) ==
  /\ c \in Acceptors /\ script[c][at[c] + 1] = "insert"
  /\ Holders(Conn(c)) = {} /\ \A k \in Locked(Conn(c)) : k[1] # "users"
  /\ Statement(c, Put(<<"users", c>>, [up |-> {Org}, val |-> "live"]))

Marks(c) ==
  /\ c \in Acceptors /\ script[c][at[c] + 1] = "mark"
  /\ Statement(c, Put(Invite, [up |-> {Org, Owner}, val |-> "accepted"]))

Erased(c, hit) == [k \in hit |-> [up |-> View(Conn(c))[k].up, val |-> "erased"]]

Erases(c) == \E u \in DOMAIN rows, stmt \in {"revoke", "anonymise"} :
  LET seen == View(Conn(c))
      hit  == IF stmt = "anonymise" THEN {u} \cap DOMAIN seen
              ELSE {k \in DOMAIN seen : k[1] = "api_tokens" /\ u \in seen[k].up}
  IN c \in Erasers /\ script[c][at[c] + 1] = <<stmt, u>> /\ Statement(c, Erased(c, hit))

\* A commit, at the end of its transaction.
Commits(c) ==
  /\ Inside(c) /\ at[c] = Len(script[c])
  /\ UNCHANGED <<Others, at>> /\ rows' = View(Conn(c))
  /\ work' = [work EXCEPT ![Conn(c)] = NoRows] /\ owner' = [owner EXCEPT ![Conn(c)] = None]
  /\ state' = [state EXCEPT ![c] = "done"]

\* What a writer inserts next.
NextRow(c) == script[c][at[c] + 1]
NextKey(c) == <<NextRow(c)[1], c>>
NextUp(c) == Up(NextRow(c)[1], NextRow(c)[2], c)
NextIns(c) == Put(NextKey(c), [up |-> NextUp(c), val |-> "row"])

\* An insert that is refused; one that is committed at once; and one that runs
\* inside the transaction of another request, on the shared connection.
Refuses(c) ==
  /\ c \in Writers /\ state[c] = "open" /\ state' = [state EXCEPT ![c] = "failed"]
  /\ UNCHANGED <<Others, rows, work, owner, at>>

Inserts(c) ==
  LET x == Conn(c) IN
  /\ c \in Writers /\ phase = "serving" /\ state[c] = "open" /\ at[c] < Len(script[c])
  /\ x \in Connections
  /\ UNCHANGED <<backend, owner, script, crashes>>
  /\ at' = [at EXCEPT ![c] = at[c] + 1]
  /\ state' = [state EXCEPT ![c] = IF at[c] + 1 = Len(script[c]) THEN "done" ELSE "open"]
  /\ acked' = acked \cup {<<NextKey(c), owner[x]>>}
  /\ late' = [d \in Destroyers |-> late[d] \cup {NextKey(c)}]
  /\ \/ owner[x] = None /\ rows' = Over(NextIns(c), rows) /\ UNCHANGED work
     \/ /\ owner[x] # None /\ backend = "sqlite" /\ UNCHANGED rows
        /\ work' = [work EXCEPT ![x] = Over(NextIns(c), work[x])]

Begins(c) ==
  /\ c \in Requests \ Writers /\ state[c] = "ready" /\ Conn(c) \in Connections
  /\ UNCHANGED <<backend, script, crashes, acked, rows, work, at>>
  /\ \/ owner[Conn(c)] # None /\ UNCHANGED <<owner, late>> /\ state' = [state EXCEPT ![c] = "failed"]
     \/ /\ owner[Conn(c)] = None /\ owner' = [owner EXCEPT ![Conn(c)] = c]
        /\ state' = [state EXCEPT ![c] = "open"]
        /\ late' = IF c \in Destroyers THEN [late EXCEPT ![c] = {}] ELSE late

\* What a statement of a transaction does: it writes on the connection it holds.
LEMMA StatementOfTransaction ==
  ASSUME Held, NEW c \in Requests \ Writers, NEW stmt, Next1(c, stmt)
  PROVE  /\ Inside(c) /\ at[c] < Len(script[c]) /\ script[c][at[c] + 1] = stmt
         /\ \A ch : Wrote(c, ch) /\ UNCHANGED Others => Statement(c, ch)
         /\ Rollback(c) /\ UNCHANGED Others => Undone(c)
<1>1. Inside(c) /\ at[c] < Len(script[c]) /\ script[c][at[c] + 1] = stmt
  BY ConnIs DEF Held, Next1, Inside
<1>2. owner[Conn(c)] # None  BY <1>1, Apart DEF Inside
<1>3. ASSUME NEW ch, Wrote(c, ch), UNCHANGED Others PROVE Statement(c, ch)
  BY <1>1, <1>2, <1>3 DEF Wrote, Write, Statement
<1>4. ASSUME Rollback(c), UNCHANGED Others PROVE Undone(c)
  BY <1>1, <1>4 DEF Rollback, Undone
<1> QED  BY <1>1, <1>3, <1>4

LEMMA KindsOfStart ==
  ASSUME Shaped, NEW c \in Requests,
         StartWriter(c) \/ StartDestroy(c) \/ PreCheck(c) \/ StartErase(c)
  PROVE  Starts(c)
<1>1. script = [d \in Requests |-> script[d]] /\ \A s : [script EXCEPT ![c] = s][c] = s
  BY DEF Shaped
<1>2. CASE StartWriter(c)
  BY <1>1, <1>2 DEF StartWriter, Starts, WriterScripts, connVars, historyVars
<1>3. CASE StartDestroy(c)
  BY <1>1, <1>3, Apart DEF StartDestroy, Starts, connVars, historyVars
<1>4. CASE PreCheck(c)
  <2>1. Len(AcceptOrder) \in Nat  BY DEF AcceptOrder
  <2> QED  BY <1>1, <1>4, <2>1, Apart DEF PreCheck, Starts, AcceptOrder, connVars, historyVars
<1>5. CASE StartErase(c)
  BY <1>1, <1>5, Apart DEF StartErase, Starts, connVars, historyVars
<1> QED  BY <1>2, <1>3, <1>4, <1>5

LEMMA KindsOfBegin ==
  ASSUME Shaped, NEW c \in Requests, Begin(c)
  PROVE  Begins(c)
  BY ConnIs DEF Begin, Begins

LEMMA KindsOfCommit ==
  ASSUME Shaped, Scripted, Held, NEW c \in Requests, Commit(c)
  PROVE  Commits(c)
<1>1. c \notin Writers  BY DEF Shaped, Scripted, Commit
<1>2. Inside(c)  BY <1>1, ConnIs DEF Held, Commit, Inside
<1> QED  BY <1>2 DEF Commit, Commits, Others, historyVars

LEMMA KindsOfInsert ==
  ASSUME Shaped, Held, Written, NEW c \in Requests, InsertRow(c)
  PROVE  Refuses(c) \/ Inserts(c)
<1> DEFINE x == Conn(c)
           row == script[c][at[c] + 1]
           key == IF row[1] = "sessions" THEN <<"sessions", c>> ELSE <<row[1], c>>
           up == Up(row[1], row[2], c)
           refused == \/ up \ DOMAIN View(x) # {}
                      \/ row[1] = "file_snapshots" /\ backend = "postgres"
<1>1. /\ c \in Writers /\ phase = "serving" /\ state[c] = "open" /\ at[c] < Len(script[c])
      /\ UNCHANGED <<backend, owner, script, crashes>>
      /\ IF refused
         THEN /\ state' = [state EXCEPT ![c] = "failed"]
              /\ UNCHANGED <<rows, work, at, acked, late>>
         ELSE /\ Write(x, Put(key, [up |-> up, val |-> "row"]))
              /\ at' = [at EXCEPT ![c] = at[c] + 1]
              /\ state' = [state EXCEPT ![c] = IF at'[c] = Len(script[c]) THEN "done" ELSE "open"]
              /\ acked' = acked \cup {<<key, owner[x]>>}
              /\ late' = [d \in Destroyers |-> late[d] \cup {key}]
  BY DEF InsertRow
<1>2. CASE refused
  <2> HIDE DEF refused
  <2> QED  BY <1>1, <1>2 DEF Refuses, Others
<1>3. CASE ~refused
  <2>1. key = NextKey(c) /\ up = NextUp(c) /\ x \in Connections  BY ConnIs DEF NextKey, NextRow, NextUp
  <2>2. /\ Write(x, NextIns(c)) /\ at' = [at EXCEPT ![c] = at[c] + 1]
        /\ state' = [state EXCEPT ![c] = IF at'[c] = Len(script[c]) THEN "done" ELSE "open"]
        /\ acked' = acked \cup {<<NextKey(c), owner[x]>>}
        /\ late' = [d \in Destroyers |-> late[d] \cup {NextKey(c)}]
    <3> HIDE DEF refused, key, up
    <3> QED  BY <1>1, <1>3, <2>1 DEF NextIns
  <2>3. at'[c] = at[c] + 1  BY <2>2 DEF Shaped
  <2>4. CASE owner[x] = None
    <3>1. NextIns(c)[NextKey(c)] # Gone /\ DOMAIN NextIns(c) = {NextKey(c)}
      BY DEF NextIns, Put, Gone
    <3>2. \A k \in DOMAIN Over(NextIns(c), rows) : Over(NextIns(c), rows)[k] # Gone
      <4> SUFFICES ASSUME NEW k \in DOMAIN Over(NextIns(c), rows)
                   PROVE  Over(NextIns(c), rows)[k] # Gone
        OBVIOUS
      <4>0. /\ DOMAIN Over(NextIns(c), rows) = DOMAIN NextIns(c) \cup DOMAIN rows
            /\ \A j \in DOMAIN NextIns(c) : Over(NextIns(c), rows)[j] = NextIns(c)[j]
            /\ \A j \in DOMAIN rows \ DOMAIN NextIns(c) : Over(NextIns(c), rows)[j] = rows[j]
        BY DEF Over
      <4>1. CASE k \in DOMAIN NextIns(c)
        <5>1. Over(NextIns(c), rows)[k] = NextIns(c)[k]  BY <4>0, <4>1
        <5> QED  BY <3>1, <4>1, <5>1
      <4>2. CASE k \notin DOMAIN NextIns(c)
        <5>1. k \in DOMAIN rows /\ Over(NextIns(c), rows)[k] = rows[k]  BY <4>0, <4>2
        <5> QED  BY <5>1 DEF Written
      <4> QED  BY <4>1, <4>2
    <3>3. rows' = Over(NextIns(c), rows) /\ UNCHANGED work
      <4> DEFINE new == Over(NextIns(c), rows)
      <4>1. rows' = Restrict(new, {k \in DOMAIN new : new[k] # Gone}) /\ UNCHANGED work
        BY <2>2, <2>4 DEF Write
      <4>2. {k \in DOMAIN new : new[k] # Gone} = DOMAIN new  BY <3>2
      <4>3. new = [k \in DOMAIN new |-> new[k]]  BY OverIsFunction
      <4> HIDE DEF new
      <4>4. rows' = new  BY <4>1, <4>2, <4>3 DEF Restrict
      <4> QED  BY <4>1, <4>4 DEF new
    <3> QED  BY <1>1, <2>1, <2>2, <2>3, <2>4, <3>3 DEF Inserts
  <2>5. CASE owner[x] # None
    <3>1. owner[x] \notin Writers /\ Conn(owner[x]) = x  BY <2>1, <2>5 DEF Held
    <3>2. backend = "sqlite"  BY <1>1, <3>1, ConnIs
    <3>3. work' = [work EXCEPT ![x] = Over(NextIns(c), work[x])] /\ UNCHANGED rows
      BY <2>2, <2>5 DEF Write
    <3> QED  BY <1>1, <2>1, <2>2, <2>3, <2>5, <3>2, <3>3 DEF Inserts
  <2> QED  BY <2>4, <2>5
<1> QED  BY <1>2, <1>3

LEMMA KindsOfDelete ==
  ASSUME Held, NEW c \in Requests, DeleteStatement(c)
  PROVE  Undone(c) \/ Deletes(c)
<1>1. PICK t \in Range(DeleteOrder) :
        /\ c \in Destroyers /\ Next1(c, t)
        /\ IF Referencing(Conn(c), Of(Conn(c), t)) # {} THEN Rollback(c)
           ELSE Wrote(c, [k \in Of(Conn(c), t) |-> Gone])
        /\ UNCHANGED <<backend, schemaVars, script, crashes, historyVars>>
  BY DEF DeleteStatement
<1>2. UNCHANGED Others  BY <1>1 DEF Others, historyVars
<1>3. c \in Requests \ Writers  BY <1>1, Apart
<1>4. /\ script[c][at[c] + 1] = t
      /\ Rollback(c) => Undone(c)
      /\ Wrote(c, [k \in Of(Conn(c), t) |-> Gone]) => Statement(c, [k \in Of(Conn(c), t) |-> Gone])
  BY <1>1, <1>2, <1>3, StatementOfTransaction
<1> QED  BY <1>1, <1>4 DEF Deletes

LEMMA KindsOfAccept ==
  ASSUME Held, NEW c \in Requests, ReCheck(c) \/ InsertUser(c) \/ MarkAccepted(c)
  PROVE  Undone(c) \/ Rechecks(c) \/ InsertsUser(c) \/ Marks(c)
<1>1. c \in Requests \ Writers  BY Apart DEF ReCheck, InsertUser, MarkAccepted
<1>2. UNCHANGED Others  BY DEF ReCheck, InsertUser, MarkAccepted, Others, historyVars
<1>3. CASE ReCheck(c)
  <2>1. c \in Acceptors /\ Next1(c, "recheck") /\ (Rollback(c) \/ Wrote(c, NoRows))
    BY <1>3 DEF ReCheck
  <2>2. /\ script[c][at[c] + 1] = "recheck"
        /\ Rollback(c) => Undone(c)
        /\ Wrote(c, NoRows) => Statement(c, NoRows)
    BY <1>1, <1>2, <2>1, StatementOfTransaction
  <2> QED  BY <2>1, <2>2 DEF Rechecks
<1>4. CASE InsertUser(c)
  <2> DEFINE ch == Put(<<"users", c>>, [up |-> {Org}, val |-> "live"])
  <2>1. /\ c \in Acceptors /\ Next1(c, "insert")
        /\ \A k \in Locked(Conn(c)) : k[1] # "users"
        /\ IF Holders(Conn(c)) # {} THEN Rollback(c) ELSE Wrote(c, ch)
    BY <1>4 DEF InsertUser
  <2>2. /\ script[c][at[c] + 1] = "insert"
        /\ Rollback(c) => Undone(c)
        /\ Wrote(c, ch) => Statement(c, ch)
    BY <1>1, <1>2, <2>1, StatementOfTransaction
  <2> QED  BY <2>1, <2>2 DEF InsertsUser
<1>5. CASE MarkAccepted(c)
  <2> DEFINE ch == Put(Invite, [up |-> {Org, Owner}, val |-> "accepted"])
  <2>1. c \in Acceptors /\ Next1(c, "mark") /\ Wrote(c, ch)
    BY <1>5 DEF MarkAccepted
  <2>2. /\ script[c][at[c] + 1] = "mark"
        /\ Wrote(c, ch) => Statement(c, ch)
    BY <1>1, <1>2, <2>1, StatementOfTransaction
  <2> QED  BY <2>1, <2>2 DEF Marks
<1> QED  BY <1>3, <1>4, <1>5

LEMMA KindsOfErase ==
  ASSUME Held, NEW c \in Requests, EraseStatement(c)
  PROVE  Erases(c)
<1>1. PICK u \in DOMAIN rows, stmt \in {"revoke", "anonymise"} :
        LET seen == View(Conn(c))
            hit  == IF stmt = "anonymise" THEN {u} \cap DOMAIN seen
                    ELSE {k \in DOMAIN seen : k[1] = "api_tokens" /\ u \in seen[k].up}
        IN /\ c \in Erasers /\ Next1(c, <<stmt, u>>)
           /\ Wrote(c, [k \in hit |-> [up |-> seen[k].up, val |-> "erased"]])
           /\ UNCHANGED <<backend, schemaVars, script, crashes, historyVars>>
  BY DEF EraseStatement
<1> DEFINE seen == View(Conn(c))
           hit  == IF stmt = "anonymise" THEN {u} \cap DOMAIN seen
                   ELSE {k \in DOMAIN seen : k[1] = "api_tokens" /\ u \in seen[k].up}
<1>2. /\ c \in Erasers /\ Next1(c, <<stmt, u>>) /\ Wrote(c, Erased(c, hit))
      /\ UNCHANGED Others
  BY <1>1 DEF Erased, Others, historyVars
<1>3. c \in Requests \ Writers  BY <1>2, Apart
<1> HIDE DEF hit
<1>4. /\ script[c][at[c] + 1] = <<stmt, u>>
      /\ Wrote(c, Erased(c, hit)) => Statement(c, Erased(c, hit))
  BY <1>2, <1>3, StatementOfTransaction
<1> QED  BY <1>2, <1>4 DEF hit, Erases

LEMMA KindsOfRest ==
  ASSUME \/ RefuseNewer \/ ApplyMigration \/ CommitMigration
         \/ BootstrapStatement \/ BootstrapCommit \/ Serve \/ UNCHANGED vars
  PROVE  Idle
  BY DEF RefuseNewer, ApplyMigration, CommitMigration, BootstrapStatement, BootstrapCommit, Serve,
         vars, Idle, Others, connVars, requestVars, historyVars

\* Every step is of one of these kinds.
LEMMA Kinds ==
  ASSUME Shaped, Scripted, Held, Written, [Next]_vars
  PROVE  \/ Idle \/ Crash
         \/ \E c \in Requests :
              \/ Starts(c) \/ Begins(c) \/ Commits(c) \/ Refuses(c) \/ Inserts(c) \/ Undone(c)
              \/ Deletes(c) \/ Rechecks(c) \/ InsertsUser(c) \/ Marks(c) \/ Erases(c)
<1>1. ASSUME NEW c \in Requests,
             \/ Begin(c) \/ Commit(c) \/ StartWriter(c) \/ InsertRow(c)
             \/ StartDestroy(c) \/ DeleteStatement(c)
             \/ PreCheck(c) \/ ReCheck(c) \/ InsertUser(c) \/ MarkAccepted(c)
             \/ StartErase(c) \/ EraseStatement(c)
      PROVE  \/ Starts(c) \/ Begins(c) \/ Commits(c) \/ Refuses(c) \/ Inserts(c) \/ Undone(c)
             \/ Deletes(c) \/ Rechecks(c) \/ InsertsUser(c) \/ Marks(c) \/ Erases(c)
  BY <1>1, KindsOfStart, KindsOfBegin, KindsOfCommit, KindsOfInsert, KindsOfDelete,
     KindsOfAccept, KindsOfErase
<1> QED  BY <1>1, NextIs, KindsOfRest DEF Requesting

-----------------------------------------------------------------------------
\* The kinds, key by key.

LEMMA StatementIs ==
  ASSUME Shaped, NEW c, NEW ch, Statement(c, ch)
  PROVE  /\ work' = [x \in Connections |-> work'[x]] /\ DOMAIN work' = Connections
         /\ DOMAIN work'[Conn(c)] = DOMAIN ch \cup DOMAIN work[Conn(c)]
         /\ \A k \in DOMAIN ch : work'[Conn(c)][k] = ch[k]
         /\ \A k \in DOMAIN work[Conn(c)] \ DOMAIN ch : work'[Conn(c)][k] = work[Conn(c)][k]
         /\ \A y \in Connections \ {Conn(c)} : work'[y] = work[y]
         /\ at' \in [Requests -> Nat] /\ at'[c] = at[c] + 1
         /\ \A d \in Requests \ {c} : at'[d] = at[d]
<1>1. /\ work = [x \in Connections |-> work[x]] /\ at \in [Requests -> Nat]
      /\ c \in Requests /\ Conn(c) \in Connections
      /\ work' = [work EXCEPT ![Conn(c)] = Over(ch, work[Conn(c)])]
      /\ at' = [at EXCEPT ![c] = at[c] + 1]
  BY DEF Shaped, Statement, Inside
<1>2. /\ work' = [x \in Connections |-> work'[x]] /\ DOMAIN work' = Connections
      /\ work'[Conn(c)] = Over(ch, work[Conn(c)])
      /\ \A y \in Connections \ {Conn(c)} : work'[y] = work[y]
  BY <1>1
<1>3. /\ at' \in [Requests -> Nat] /\ at'[c] = at[c] + 1
      /\ \A d \in Requests \ {c} : at'[d] = at[d]
  BY <1>1
<1>4. /\ DOMAIN Over(ch, work[Conn(c)]) = DOMAIN ch \cup DOMAIN work[Conn(c)]
      /\ \A k \in DOMAIN ch : Over(ch, work[Conn(c)])[k] = ch[k]
      /\ \A k \in DOMAIN work[Conn(c)] \ DOMAIN ch : Over(ch, work[Conn(c)])[k] = work[Conn(c)][k]
  BY DEF Over
<1> QED  BY <1>2, <1>3, <1>4

\* A transaction that ends, either way, leaves its connection empty.
LEMMA EndIs ==
  ASSUME Shaped, NEW c, Undone(c) \/ Commits(c)
  PROVE  /\ work' = [x \in Connections |-> work'[x]] /\ DOMAIN work' = Connections
         /\ work'[Conn(c)] = NoRows /\ DOMAIN NoRows = {}
         /\ \A y \in Connections \ {Conn(c)} : work'[y] = work[y]
         /\ owner' \in [Connections -> Requests \cup {None}] /\ owner'[Conn(c)] = None
         /\ \A y \in Connections \ {Conn(c)} : owner'[y] = owner[y]
         /\ state' \in [Requests -> {"new", "ready", "open", "done", "failed"}]
         /\ state'[c] \in {"done", "failed"} /\ \A d \in Requests \ {c} : state'[d] = state[d]
<1>1. /\ work = [x \in Connections |-> work[x]]
      /\ owner \in [Connections -> Requests \cup {None}]
      /\ state \in [Requests -> {"new", "ready", "open", "done", "failed"}]
      /\ c \in Requests /\ Conn(c) \in Connections
      /\ work' = [work EXCEPT ![Conn(c)] = NoRows] /\ owner' = [owner EXCEPT ![Conn(c)] = None]
      /\ \E r \in {"done", "failed"} : state' = [state EXCEPT ![c] = r]
  BY DEF Shaped, Undone, Commits, Inside
<1>2. /\ work' = [x \in Connections |-> work'[x]] /\ DOMAIN work' = Connections
      /\ work'[Conn(c)] = NoRows
      /\ \A y \in Connections \ {Conn(c)} : work'[y] = work[y]
  BY <1>1
<1>3. /\ owner' \in [Connections -> Requests \cup {None}] /\ owner'[Conn(c)] = None
      /\ \A y \in Connections \ {Conn(c)} : owner'[y] = owner[y]
  BY <1>1
<1>4. /\ state' \in [Requests -> {"new", "ready", "open", "done", "failed"}]
      /\ state'[c] \in {"done", "failed"} /\ \A d \in Requests \ {c} : state'[d] = state[d]
  BY <1>1
<1>5. DOMAIN NoRows = {}  BY DEF NoRows
<1> QED  BY <1>2, <1>3, <1>4, <1>5

\* The rows writers insert, with the rows each references.
WriterRows ==
  { <<"plans", {"sessions"}>>, <<"messages", {"sessions", "plans"}>>,
    <<"validate_runs", {"sessions", "plans"}>>,
    <<"git_checkpoints", {"sessions", "validate_runs"}>>, <<"api_tokens", {"users"}>>,
    <<"messages", {"sessions"}>>, <<"sessions", {"sessions"}>>,
    <<"billing_events", {"organizations", "sessions"}>>, <<"file_snapshots", {"sessions"}>> }

LEMMA WriterRowsAre ==
  /\ WriterScripts \subseteq Seq(WriterRows)
  /\ \A w \in WriterScripts : Len(w) \in 1..4
  BY DEF WriterScripts, WriterRows, EngineRows, TokenRows, TurnRows, ChildRows, BillingRows,
         SnapshotRows

LEMMA KeyOfIs ==
  ASSUME NEW c
  PROVE  /\ KeyOf("sessions", c) = Session /\ KeyOf("users", c) = Owner
         /\ KeyOf("organizations", c) = Org /\ KeyOf("plans", c) = <<"plans", c>>
         /\ KeyOf("validate_runs", c) = <<"validate_runs", c>>
  BY DEF KeyOf

\* What a row to insert is, when the whole schema is there.
LEMMA NextRowIs ==
  ASSUME Shaped, Scripted, SchemaSteps, NEW c, Inserts(c)
  PROVE  /\ NextRow(c) \in WriterRows /\ Len(script[c]) \in Nat
         /\ NextKey(c)[1] = NextRow(c)[1] /\ NextKey(c)[2] = c
         /\ NextRow(c)[1] \in Touched \ {"users", "organizations", "invite_tokens"}
         /\ NextKey(c) \in Keys /\ NextUp(c) \subseteq Keys
         /\ NextKey(c) \notin {Session, Invite, Owner, Org}
         /\ Refers(NextKey(c), [up |-> NextUp(c), val |-> "row"])
<1> DEFINE row == NextRow(c)
<1>1. /\ c \in Writers /\ c \in Requests /\ script[c] \in WriterScripts
      /\ at[c] \in Nat /\ at[c] < Len(script[c])
  BY Apart DEF Inserts, Scripted, Shaped
<1>2. script[c] \in Seq(WriterRows) /\ Len(script[c]) \in 1..4  BY <1>1, WriterRowsAre
<1>3. row \in WriterRows  BY <1>1, <1>2 DEF NextRow
<1>4. Whole \subseteq schema  BY ServingWhole DEF Inserts
<1>5. \A q \in row[2] : <<row[1], q>> \in Whole  BY <1>3 DEF WriterRows, Whole, T
<1>6. NextUp(c) = {KeyOf(q, c) : q \in row[2]}  BY <1>4, <1>5 DEF NextUp, Up
<1>7. NextKey(c) = <<row[1], c>>  BY DEF NextKey
<1> HIDE DEF row
<1>8. row[1] \in Touched \ {"users", "organizations", "invite_tokens"}
  BY <1>3 DEF WriterRows, Touched
<1>9. NextKey(c) \in Keys /\ NextKey(c) \notin {Session, Invite, Owner, Org}
  BY <1>1, <1>7, <1>8, TouchedAreTables, Apart DEF Session, Invite, Owner, Org
<1>10. NextUp(c) \subseteq {Session, Owner, Org, <<"plans", c>>, <<"validate_runs", c>>}
  BY <1>3, <1>6, KeyOfIs DEF WriterRows
<1>11. NextUp(c) \subseteq Keys
  <2>1. {Session, Owner, Org} \subseteq Keys  BY TouchedAreTables
  <2>2. "plans" \in Touched /\ "validate_runs" \in Touched  BY DEF Touched
  <2>3. <<"plans", c>> \in Keys /\ <<"validate_runs", c>> \in Keys
    BY <1>1, <2>2, TouchedAreTables
  <2> QED  BY <1>10, <2>1, <2>3
<1>12. Refers(NextKey(c), [up |-> NextUp(c), val |-> "row"])
  <2>1. ASSUME NEW j \in NextUp(c) \ {Org, Owner, Session}
        PROVE  /\ Session \in NextUp(c)
               /\ \/ j[1] = "plans" /\ row[1] \in {"messages", "validate_runs"}
                  \/ j[1] = "validate_runs" /\ row[1] = "git_checkpoints"
    <3>1. PICK q \in row[2] : j = KeyOf(q, c)  BY <1>6
    <3>2. q \notin {"sessions", "users", "organizations"}  BY <3>1, KeyOfIs
    <3>3. /\ "sessions" \in row[2]
          /\ \/ q = "plans" /\ row[1] \in {"messages", "validate_runs"}
             \/ q = "validate_runs" /\ row[1] = "git_checkpoints"
      BY <1>3, <3>2 DEF WriterRows
    <3>4. Session \in NextUp(c)  BY <1>6, <3>3, KeyOfIs
    <3>5. j[1] = q  BY <3>1, <3>3, KeyOfIs
    <3> QED  BY <3>3, <3>4, <3>5
  <2>2. ASSUME Session \in NextUp(c)
        PROVE  row[1] \in {"messages", "plans", "validate_runs", "git_checkpoints",
                           "file_snapshots", "sessions", "billing_events"}
    <3>1. PICK q \in row[2] : Session = KeyOf(q, c)  BY <1>6, <2>2
    <3>2. q # "users"  BY <3>1, KeyOfIs DEF Session, Owner
    <3> QED  BY <1>3, <3>2 DEF WriterRows
  <2>3. NextKey(c)[1] = row[1]  BY <1>7
  <2> QED  BY <2>1, <2>2, <2>3 DEF Refers
<1> QED  BY <1>2, <1>3, <1>7, <1>8, <1>9, <1>11, <1>12 DEF row

NextIsRow(c) == [up |-> NextUp(c), val |-> "row"]

LEMMA InsertsIs ==
  ASSUME Shaped, NEW c, Inserts(c)
  PROVE  /\ c \in Requests /\ Conn(c) \in Connections
         /\ at' \in [Requests -> Nat] /\ at'[c] = at[c] + 1
         /\ \A d \in Requests \ {c} : at'[d] = at[d]
         /\ state' \in [Requests -> {"new", "ready", "open", "done", "failed"}]
         /\ state'[c] = IF at[c] + 1 = Len(script[c]) THEN "done" ELSE "open"
         /\ \A d \in Requests \ {c} : state'[d] = state[d]
         /\ work' = [x \in Connections |-> work'[x]] /\ DOMAIN work' = Connections
         /\ \/ /\ owner[Conn(c)] = None /\ work' = work
               /\ DOMAIN rows' = DOMAIN rows \cup {NextKey(c)} /\ rows'[NextKey(c)] = NextIsRow(c)
               /\ \A k \in DOMAIN rows \ {NextKey(c)} : rows'[k] = rows[k]
            \/ /\ owner[Conn(c)] # None /\ backend = "sqlite" /\ rows' = rows
               /\ \A y \in Connections \ {Conn(c)} : work'[y] = work[y]
               /\ DOMAIN work'[Conn(c)] = DOMAIN work[Conn(c)] \cup {NextKey(c)}
               /\ work'[Conn(c)][NextKey(c)] = NextIsRow(c)
               /\ \A k \in DOMAIN work[Conn(c)] \ {NextKey(c)} : work'[Conn(c)][k] = work[Conn(c)][k]
<1>1. /\ work = [x \in Connections |-> work[x]] /\ at \in [Requests -> Nat]
      /\ state \in [Requests -> {"new", "ready", "open", "done", "failed"}]
      /\ c \in Requests /\ Conn(c) \in Connections
      /\ at' = [at EXCEPT ![c] = at[c] + 1]
      /\ state' = [state EXCEPT ![c] = IF at[c] + 1 = Len(script[c]) THEN "done" ELSE "open"]
  BY Apart DEF Shaped, Inserts
<1>2. /\ at' \in [Requests -> Nat] /\ at'[c] = at[c] + 1
      /\ \A d \in Requests \ {c} : at'[d] = at[d]
  BY <1>1
<1>3. /\ state' \in [Requests -> {"new", "ready", "open", "done", "failed"}]
      /\ state'[c] = IF at[c] + 1 = Len(script[c]) THEN "done" ELSE "open"
      /\ \A d \in Requests \ {c} : state'[d] = state[d]
  BY <1>1
<1>4. /\ DOMAIN NextIns(c) = {NextKey(c)} /\ NextIns(c)[NextKey(c)] = NextIsRow(c)
  BY DEF NextIns, NextIsRow, Put
<1>5. ASSUME NEW r
      PROVE  /\ DOMAIN Over(NextIns(c), r) = DOMAIN r \cup {NextKey(c)}
             /\ Over(NextIns(c), r)[NextKey(c)] = NextIsRow(c)
             /\ \A k \in DOMAIN r \ {NextKey(c)} : Over(NextIns(c), r)[k] = r[k]
  BY <1>4 DEF Over
<1>6. CASE owner[Conn(c)] = None
  <2>1. rows' = Over(NextIns(c), rows) /\ work' = work  BY <1>6 DEF Inserts
  <2>2. work' = [x \in Connections |-> work'[x]] /\ DOMAIN work' = Connections  BY <1>1, <2>1
  <2>3. /\ DOMAIN rows' = DOMAIN rows \cup {NextKey(c)} /\ rows'[NextKey(c)] = NextIsRow(c)
        /\ \A k \in DOMAIN rows \ {NextKey(c)} : rows'[k] = rows[k]
    BY <1>5, <2>1
  <2> QED  BY <1>1, <1>2, <1>3, <1>6, <2>1, <2>2, <2>3
<1>7. CASE owner[Conn(c)] # None
  <2>1. /\ work' = [work EXCEPT ![Conn(c)] = Over(NextIns(c), work[Conn(c)])] /\ rows' = rows
        /\ backend = "sqlite"
    BY <1>7 DEF Inserts
  <2>2. /\ work' = [x \in Connections |-> work'[x]] /\ DOMAIN work' = Connections
        /\ work'[Conn(c)] = Over(NextIns(c), work[Conn(c)])
        /\ \A y \in Connections \ {Conn(c)} : work'[y] = work[y]
    BY <1>1, <2>1
  <2>3. /\ DOMAIN work'[Conn(c)] = DOMAIN work[Conn(c)] \cup {NextKey(c)}
        /\ work'[Conn(c)][NextKey(c)] = NextIsRow(c)
        /\ \A k \in DOMAIN work[Conn(c)] \ {NextKey(c)} : work'[Conn(c)][k] = work[Conn(c)][k]
    BY <1>5, <2>2
  <2> QED  BY <1>1, <1>2, <1>3, <1>7, <2>1, <2>2, <2>3
<1> QED  BY <1>6, <1>7

LEMMA StoredOver ==
  ASSUME NEW ch, NEW r, Stored(ch), Stored(r)
  PROVE  Stored(Over(ch, r))
  BY DEF Stored, Over

LEMMA StoredView ==
  ASSUME Shaped, NEW x \in Connections
  PROVE  Stored(View(x))
<1>1. Stored(rows) /\ Stored(work[x])  BY DEF Shaped
<1>2. \A k \in DOMAIN rows : k \in Keys /\ rows[k] \in Row  BY <1>1 DEF Stored
<1>3. \A k \in DOMAIN work[x] : k \in Keys /\ work[x][k] \in Row  BY <1>1 DEF Stored
<1>4. \A k \in DOMAIN View(x) : k \in Keys /\ View(x)[k] \in Row  BY <1>2, <1>3, ViewIs
<1>5. View(x) = [k \in DOMAIN View(x) |-> View(x)[k]]  BY ViewIs
<1> QED  BY <1>4, <1>5 DEF Stored

LEMMA RowsAre ==
  /\ Gone \in Row
  /\ \A K : K \subseteq Keys => Stored([k \in K |-> Gone])
  /\ Stored(NoRows)
  /\ \A k \in Keys, U \in SUBSET Keys, v \in {"row", "live", "erased", "open", "accepted", "gone"} :
       [up |-> U, val |-> v] \in Row /\ Stored(Put(k, [up |-> U, val |-> v]))
  BY DEF Gone, Row, Stored, NoRows, Put

LEMMA ShapedInit == ASSUME Init PROVE Shaped
<1>1. Stored(rows)  BY TouchedAreTables DEF Init, FirstRows, Stored, Row
<1>2. \A x \in Connections : Stored(work[x])  BY RowsAre DEF Init
<1>3. backend \in AllBackends /\ 0 \in 0..MaxCrashes  BY BackendsAssumption, BoundsAssumption DEF Init
<1> QED  BY <1>1, <1>2, <1>3 DEF Init, Shaped

\* The rows of every statement are rows.
LEMMA StatementStores ==
  ASSUME Shaped, Stored(rows), NEW c, NEW ch, Statement(c, ch), Stored(ch)
  PROVE  Shaped'
<1>1. /\ work' = [x \in Connections |-> work'[x]] /\ DOMAIN work' = Connections
      /\ at' \in [Requests -> Nat]
      /\ \A y \in Connections \ {Conn(c)} : work'[y] = work[y]
  BY StatementIs
<1>2. Conn(c) \in Connections /\ Stored(work[Conn(c)])  BY DEF Statement, Inside, Shaped
<1>3. work'[Conn(c)] = Over(ch, work[Conn(c)])  BY <1>2 DEF Statement, Shaped
<1>4. Stored(work'[Conn(c)])  BY <1>2, <1>3, StoredOver
<1>5. \A x \in Connections : Stored(work'[x])  BY <1>1, <1>4 DEF Shaped
<1>6. UNCHANGED <<rows, backend, owner, script, state, crashes, acked, late>>
  BY DEF Statement, Others
<1> QED  BY <1>1, <1>5, <1>6 DEF Shaped, Stored

LEMMA ShapedStep ==
  ASSUME Shaped, Scripted, Held, Written, SchemaSteps, [Next]_vars
  PROVE  Shaped'
<1>1. CASE Idle  BY <1>1 DEF Idle, Others, Shaped, Stored
<1>2. CASE Crash
  <2>1. \A x \in Connections : Stored(work'[x])  BY <1>2, RowsAre DEF Crash, Stored
  <2> QED  BY <1>2, <2>1, BoundsAssumption DEF Crash, Shaped, Stored, historyVars
<1>3. ASSUME NEW c \in Requests, Starts(c) PROVE Shaped'
  <2>1. /\ script' = [d \in Requests |-> script'[d]]
        /\ state' \in [Requests -> {"new", "ready", "open", "done", "failed"}]
    BY <1>3 DEF Starts, Shaped
  <2> QED  BY <1>3, <2>1 DEF Starts, Shaped, Stored
<1>4. ASSUME NEW c \in Requests, Begins(c) PROVE Shaped'
  <2>1. state' \in [Requests -> {"new", "ready", "open", "done", "failed"}]
    BY <1>4 DEF Begins, Shaped
  <2>2. owner' \in [Connections -> Requests \cup {None}]  BY <1>4 DEF Begins, Shaped
  <2>3. late' \in [Destroyers -> SUBSET Keys]  BY <1>4 DEF Begins, Shaped
  <2> QED  BY <1>4, <2>1, <2>2, <2>3 DEF Begins, Shaped, Stored
<1>5. ASSUME NEW c \in Requests, Undone(c) \/ Commits(c) PROVE Shaped'
  <2>1. Conn(c) \in Connections  BY <1>5 DEF Undone, Commits, Inside
  <2>2. Stored(rows')
    <3>1. Stored(View(Conn(c)))  BY <2>1, StoredView
    <3>2. rows' = rows \/ rows' = View(Conn(c))  BY <1>5 DEF Undone, Commits
    <3>3. Stored(rows)  BY DEF Shaped
    <3> QED  BY <3>1, <3>2, <3>3
  <2>3. \A x \in Connections : Stored(work'[x])
    <3>1. \A y \in Connections \ {Conn(c)} : work'[y] = work[y]  BY <1>5, EndIs
    <3>2. work'[Conn(c)] = NoRows  BY <1>5, EndIs
    <3> QED  BY <3>1, <3>2, RowsAre DEF Shaped
  <2>4. UNCHANGED <<backend, script, at, crashes, acked, late>>
    BY <1>5 DEF Undone, Commits, Others
  <2>5. /\ DOMAIN work' = Connections /\ work' = [x \in Connections |-> work'[x]]
        /\ owner' \in [Connections -> Requests \cup {None}]
        /\ state' \in [Requests -> {"new", "ready", "open", "done", "failed"}]
    BY <1>5, EndIs
  <2> QED  BY <2>2, <2>3, <2>4, <2>5 DEF Shaped, Stored
<1>6. ASSUME NEW c \in Requests, Refuses(c) PROVE Shaped'
  BY <1>6 DEF Refuses, Others, Shaped, Stored
<1>7. ASSUME NEW c \in Requests, Inserts(c) PROVE Shaped'
  <2>1. NextKey(c) \in Keys /\ NextUp(c) \subseteq Keys  BY <1>7, NextRowIs
  <2>2. NextIsRow(c) \in Row  BY <2>1 DEF NextIsRow, Row
  <2>3. /\ Conn(c) \in Connections /\ at' \in [Requests -> Nat]
        /\ state' \in [Requests -> {"new", "ready", "open", "done", "failed"}]
        /\ work' = [x \in Connections |-> work'[x]] /\ DOMAIN work' = Connections
    BY <1>7, InsertsIs
  <2>4. acked' \subseteq Keys \X (Requests \cup {None}) /\ late' \in [Destroyers -> SUBSET Keys]
    <3>1. /\ acked' = acked \cup {<<NextKey(c), owner[Conn(c)]>>}
          /\ late' = [d \in Destroyers |-> late[d] \cup {NextKey(c)}]
      BY <1>7 DEF Inserts
    <3>2. owner[Conn(c)] \in Requests \cup {None}  BY <2>3 DEF Shaped
    <3> QED  BY <2>1, <3>1, <3>2 DEF Shaped
  <2>5. UNCHANGED <<backend, owner, script, crashes>>  BY <1>7 DEF Inserts
  <2>6. Stored(rows') /\ \A x \in Connections : Stored(work'[x])
    <3>1. CASE owner[Conn(c)] = None
      <4>1. rows' = Over(NextIns(c), rows) /\ work' = work  BY <1>7, <3>1 DEF Inserts
      <4>2. Stored(NextIns(c))  BY <2>1, RowsAre DEF NextIns
      <4>3. Stored(rows')  BY <4>1, <4>2, StoredOver DEF Shaped
      <4> QED  BY <4>1, <4>3 DEF Shaped
    <3>2. CASE owner[Conn(c)] # None
      <4>1. /\ rows' = rows
            /\ work' = [work EXCEPT ![Conn(c)] = Over(NextIns(c), work[Conn(c)])]
        BY <1>7, <3>2 DEF Inserts
      <4>2. Stored(NextIns(c))  BY <2>1, RowsAre DEF NextIns
      <4>3. Stored(Over(NextIns(c), work[Conn(c)]))  BY <2>3, <4>2, StoredOver DEF Shaped
      <4> QED  BY <4>1, <4>3 DEF Shaped
    <3> QED  BY <3>1, <3>2
  <2> QED  BY <2>3, <2>4, <2>5, <2>6 DEF Shaped, Stored
<1>8. ASSUME NEW c \in Requests, Deletes(c) PROVE Shaped'
  <2>1. PICK t \in Range(DeleteOrder) : Statement(c, [k \in Of(Conn(c), t) |-> Gone])
    BY <1>8 DEF Deletes
  <2>2. Conn(c) \in Connections  BY <2>1 DEF Statement, Inside
  <2>3. DOMAIN View(Conn(c)) \subseteq Keys  BY <2>2, StoredView DEF Stored
  <2>4. Of(Conn(c), t) \subseteq Keys  BY <2>3 DEF Of
  <2>5. Stored([k \in Of(Conn(c), t) |-> Gone])  BY <2>4, RowsAre
  <2> QED  BY <2>1, <2>5, StatementStores DEF Shaped
<1>9. ASSUME NEW c \in Requests, Rechecks(c) PROVE Shaped'
  BY <1>9, RowsAre, StatementStores DEF Rechecks, Shaped
<1>10. ASSUME NEW c \in Requests, InsertsUser(c) PROVE Shaped'
  <2>1. <<"users", c>> \in Keys /\ Org \in Keys  BY TouchedAreTables DEF Touched
  <2>2. Stored(Put(<<"users", c>>, [up |-> {Org}, val |-> "live"]))  BY <2>1, RowsAre
  <2> QED  BY <1>10, <2>2, StatementStores DEF InsertsUser, Shaped
<1>11. ASSUME NEW c \in Requests, Marks(c) PROVE Shaped'
  <2>1. Stored(Put(Invite, [up |-> {Org, Owner}, val |-> "accepted"]))  BY TouchedAreTables, RowsAre
  <2> QED  BY <1>11, <2>1, StatementStores DEF Marks, Shaped
<1>12. ASSUME NEW c \in Requests, Erases(c) PROVE Shaped'
  <2> DEFINE seen == View(Conn(c))
  <2>1. PICK hit : hit \subseteq DOMAIN seen /\ Statement(c, Erased(c, hit))
    BY <1>12 DEF Erases
  <2>2. Conn(c) \in Connections  BY <2>1 DEF Statement, Inside
  <2>3. Stored(seen)  BY <2>2, StoredView
  <2>4. Stored(Erased(c, hit))  BY <2>1, <2>3 DEF Stored, Erased, Row
  <2> QED  BY <2>1, <2>4, StatementStores DEF Shaped
<1> QED  BY <1>1, <1>2, <1>3, <1>4, <1>5, <1>6, <1>7, <1>8, <1>9, <1>10, <1>11, <1>12, Kinds

\* A row goes from what is committed only when a deletion commits it gone.
LEMMA RowsKept ==
  ASSUME Shaped, Scripted, Held, Written, SchemaSteps, [Next]_vars, NEW k \in DOMAIN rows
  PROVE  \/ k \in DOMAIN rows'
         \/ \E c \in Destroyers : Commits(c) /\ k \in DOMAIN work[Conn(c)] /\ k \notin DOMAIN rows'
<1>1. CASE Idle \/ Crash  BY <1>1 DEF Idle, Crash
<1>2. ASSUME NEW c \in Requests,
             \/ Starts(c) \/ Begins(c) \/ Refuses(c) \/ Undone(c)
             \/ Deletes(c) \/ Rechecks(c) \/ InsertsUser(c) \/ Marks(c) \/ Erases(c)
      PROVE  rows' = rows
  BY <1>2 DEF Starts, Begins, Refuses, Undone, Deletes, Rechecks, InsertsUser, Marks, Erases,
              Statement
<1>3. ASSUME NEW c \in Requests, Inserts(c) PROVE k \in DOMAIN rows'
  BY <1>3, InsertsIs
<1>4. ASSUME NEW c \in Requests, Commits(c), k \notin DOMAIN rows'
      PROVE  c \in Destroyers /\ k \in DOMAIN work[Conn(c)]
  <2>1. rows' = View(Conn(c)) /\ Conn(c) \in Connections /\ owner[Conn(c)] = c
    BY <1>4 DEF Commits, Inside
  <2>2. rows[k] # Gone  BY DEF Written
  <2>3. k \in DOMAIN work[Conn(c)] /\ work[Conn(c)][k] = Gone  BY <1>4, <2>1, <2>2, ViewIs
  <2>4. WrittenBy(c, k, work[Conn(c)][k])  BY <2>1, <2>3 DEF Written
  <2> QED  BY <2>3, <2>4 DEF WrittenBy
<1> QED  BY <1>1, <1>2, <1>3, <1>4, Kinds

\* No deletion takes a user or an invite.
LEMMA UsersStay ==
  ASSUME Shaped, Scripted, Held, Written, SchemaSteps, [Next]_vars, NEW k \in DOMAIN rows,
         k[1] \in {"users", "invite_tokens"}
  PROVE  k \in DOMAIN rows'
<1> SUFFICES ASSUME NEW c \in Destroyers, Commits(c), k \in DOMAIN work[Conn(c)] PROVE FALSE
  BY RowsKept
<1>1. Conn(c) \in Connections /\ owner[Conn(c)] = c  BY DEF Commits, Inside
<1>2. WrittenBy(c, k, work[Conn(c)][k])  BY <1>1 DEF Written
<1> QED  BY <1>2, Apart DEF WrittenBy

\* The length of what a request is running.
LEMMA ScriptLength ==
  ASSUME Scripted, NEW c \in Requests, state[c] \in {"ready", "open"}
  PROVE  Len(script[c]) \in Nat
<1>1. CASE c \in Writers  BY <1>1, WriterRowsAre DEF Scripted
<1>2. CASE c \in Destroyers  BY <1>2 DEF Scripted, DeleteOrder
<1>3. CASE c \in Acceptors  BY <1>3 DEF Scripted, AcceptOrder
<1>4. CASE c \in Erasers
  <2>1. PICK u \in DOMAIN rows : script[c] = << <<"revoke", u>>, <<"anonymise", u>> >>
    BY <1>4 DEF Scripted
  <2> QED  BY <2>1
<1> QED  BY <1>1, <1>2, <1>3, <1>4, Apart

ScriptedOne(c) ==
  /\ at[c] <= Len(script[c])
  /\ state[c] = "new" => at[c] = 0
  /\ state[c] = "ready" => at[c] = 0 /\ c \notin Writers
  /\ state[c] = "open" /\ c \in Writers => at[c] < Len(script[c])
  /\ state[c] \in {"ready", "open"} =>
       /\ c \in Writers => script[c] \in WriterScripts
       /\ c \in Destroyers => script[c] = DeleteOrder
       /\ c \in Acceptors => script[c] = AcceptOrder
       /\ c \in Erasers => \E u \in DOMAIN rows :
            u[1] = "users" /\ script[c] = << <<"revoke", u>>, <<"anonymise", u>> >>

LEMMA ScriptedInit == ASSUME Init PROVE Scripted
  BY DEF Init, Scripted

\* A request that has not moved runs what it ran.
LEMMA ScriptedStays ==
  ASSUME Shaped, Scripted, Held, Written, SchemaSteps, [Next]_vars,
         NEW c \in Requests, at'[c] = at[c], script'[c] = script[c],
         state'[c] = state[c] \/ state'[c] \in {"done", "failed"}
  PROVE  ScriptedOne(c)'
<1>1. ScriptedOne(c)  BY DEF Scripted, ScriptedOne
<1>2. CASE state'[c] = state[c] /\ state[c] \in {"ready", "open"} /\ c \in Erasers
  <2>1. PICK u \in DOMAIN rows : u[1] = "users" /\ script[c] = << <<"revoke", u>>, <<"anonymise", u>> >>
    BY <1>1, <1>2 DEF ScriptedOne
  <2>2. u \in DOMAIN rows'  BY <2>1, UsersStay
  <2> QED  BY <1>1, <1>2, <2>1, <2>2, Apart DEF ScriptedOne
<1>3. CASE ~(state'[c] = state[c] /\ state[c] \in {"ready", "open"} /\ c \in Erasers)
  BY <1>1, <1>3 DEF ScriptedOne
<1> QED  BY <1>2, <1>3

LEMMA ScriptedStep ==
  ASSUME Shaped, Scripted, Held, Written, SchemaSteps, [Next]_vars
  PROVE  Scripted'
<1> SUFFICES ASSUME NEW d \in Requests PROVE ScriptedOne(d)'
  BY DEF Scripted, ScriptedOne
<1>0. /\ script = [c \in Requests |-> script[c]] /\ at \in [Requests -> Nat]
      /\ state \in [Requests -> {"new", "ready", "open", "done", "failed"}]
  BY DEF Shaped
<1>1. CASE Idle  BY <1>1, ScriptedStays DEF Idle, Others
<1>2. CASE Crash
  <2>1. state'[d] = state[d] \/ state'[d] = "failed"  BY <1>0, <1>2 DEF Crash
  <2> QED  BY <1>2, <2>1, ScriptedStays DEF Crash
<1>3. ASSUME NEW c \in Requests, Starts(c) PROVE ScriptedOne(d)'
  <2>1. CASE d # c
    <3>1. at'[d] = at[d] /\ script'[d] = script[d] /\ state'[d] = state[d]
      BY <1>0, <1>3, <2>1 DEF Starts
    <3> QED  BY <3>1, ScriptedStays
  <2>2. CASE d = c
    <3>1. at'[c] = 0 /\ rows' = rows  BY <1>3 DEF Starts, Scripted
    <3>2. CASE c \in Writers /\ state'[c] = "open" /\ script'[c] \in WriterScripts
      <4> DEFINE length == Len(script'[c])
      <4>1. length \in 1..4  BY <3>2, WriterRowsAre
      <4> HIDE DEF length
      <4>2. 0 <= length /\ 0 < length  BY <4>1
      <4>3. c \notin Destroyers /\ c \notin Acceptors /\ c \notin Erasers  BY <3>2, Apart
      <4>4. ScriptedOne(c)'  BY <3>1, <3>2, <4>2, <4>3 DEF ScriptedOne, length
      <4> QED  BY <2>2, <4>4
    <3>3. CASE state'[c] = "failed" /\ Len(script'[c]) \in Nat
      BY <2>2, <3>1, <3>3 DEF ScriptedOne
    <3>4. CASE /\ c \notin Writers /\ state'[c] = "ready"
               /\ c \in Destroyers => script'[c] = DeleteOrder
               /\ c \in Acceptors => script'[c] = AcceptOrder
               /\ c \in Erasers => \E u \in DOMAIN rows :
                    u[1] = "users" /\ script'[c] = << <<"revoke", u>>, <<"anonymise", u>> >>
      <4>1. Len(script'[c]) \in Nat  BY <3>4, Apart DEF DeleteOrder, AcceptOrder
      <4> QED  BY <2>2, <3>1, <3>4, <4>1 DEF ScriptedOne
    <3>5. \/ c \in Writers /\ state'[c] = "open" /\ script'[c] \in WriterScripts
          \/ state'[c] = "failed" /\ Len(script'[c]) \in Nat
          \/ /\ c \notin Writers /\ state'[c] = "ready"
             /\ c \in Destroyers => script'[c] = DeleteOrder
             /\ c \in Acceptors => script'[c] = AcceptOrder
             /\ c \in Erasers => \E u \in DOMAIN rows :
                  u[1] = "users" /\ script'[c] = << <<"revoke", u>>, <<"anonymise", u>> >>
      BY <1>0, <1>3 DEF Starts
    <3> QED  BY <3>2, <3>3, <3>4, <3>5
  <2> QED  BY <2>1, <2>2
<1>4. ASSUME NEW c \in Requests, Begins(c) PROVE ScriptedOne(d)'
  <2>1. at' = at /\ script' = script /\ rows' = rows  BY <1>4 DEF Begins
  <2>2. \/ state'[d] = state[d] \/ state'[d] = "failed"
        \/ d \notin Writers /\ state[d] = "ready" /\ state'[d] = "open"
    BY <1>0, <1>4 DEF Begins
  <2>3. CASE d \notin Writers /\ state[d] = "ready" /\ state'[d] = "open"
    BY <2>1, <2>3 DEF Scripted, ScriptedOne
  <2> QED  BY <2>1, <2>2, <2>3, ScriptedStays
<1>5. ASSUME NEW c \in Requests, Undone(c) \/ Commits(c) PROVE ScriptedOne(d)'
  <2>1. at' = at /\ script' = script  BY <1>5 DEF Undone, Commits, Others
  <2>2. state'[d] = state[d] \/ state'[d] \in {"done", "failed"}  BY <1>5, EndIs
  <2> QED  BY <2>1, <2>2, ScriptedStays
<1>6. ASSUME NEW c \in Requests, Refuses(c) PROVE ScriptedOne(d)'
  <2>1. at' = at /\ script' = script /\ (state'[d] = state[d] \/ state'[d] = "failed")
    BY <1>0, <1>6 DEF Refuses, Others
  <2> QED  BY <2>1, ScriptedStays
<1>7. ASSUME NEW c \in Requests, Inserts(c) PROVE ScriptedOne(d)'
  <2>1. script' = script /\ c \in Writers  BY <1>7 DEF Inserts
  <2>2. CASE d # c
    <3>1. at'[d] = at[d] /\ state'[d] = state[d]  BY <1>7, <2>2, InsertsIs
    <3> QED  BY <2>1, <3>1, ScriptedStays
  <2>3. CASE d = c
    <3>1. /\ at'[c] = at[c] + 1 /\ state'[c] = IF at[c] + 1 = Len(script[c]) THEN "done" ELSE "open"
      BY <1>7, InsertsIs
    <3>2. state[c] = "open" /\ at[c] < Len(script[c])  BY <1>7 DEF Inserts
    <3>3. Len(script[c]) \in Nat /\ at[c] \in Nat  BY <1>0, <3>2, ScriptLength
    <3>4. script[c] \in WriterScripts  BY <2>1, <3>2 DEF Scripted
    <3>5. at'[c] <= Len(script[c]) /\ (state'[c] = "open" => at'[c] < Len(script[c]))
      BY <3>1, <3>2, <3>3
    <3> QED  BY <2>1, <2>3, <3>1, <3>4, <3>5, Apart DEF ScriptedOne
  <2> QED  BY <2>2, <2>3
<1>8. ASSUME NEW c \in Requests, NEW ch, Statement(c, ch) PROVE ScriptedOne(d)'
  <2>1. script' = script /\ state' = state /\ rows' = rows  BY <1>8 DEF Statement, Others
  <2>2. CASE d # c
    <3>1. at'[d] = at[d]  BY <1>8, <2>2, StatementIs
    <3> QED  BY <2>1, <3>1, ScriptedStays
  <2>3. CASE d = c
    <3>1. at'[c] = at[c] + 1  BY <1>8, StatementIs
    <3>2. state[c] = "open" /\ at[c] < Len(script[c]) /\ c \notin Writers
      BY <1>8 DEF Statement, Inside
    <3>3. Len(script[c]) \in Nat /\ at[c] \in Nat  BY <1>0, <3>2, ScriptLength
    <3>4. ScriptedOne(c)  BY DEF Scripted, ScriptedOne
    <3> QED  BY <2>1, <2>3, <3>1, <3>2, <3>3, <3>4 DEF ScriptedOne
  <2> QED  BY <2>2, <2>3
<1>9. ASSUME NEW c \in Requests,
             Deletes(c) \/ Rechecks(c) \/ InsertsUser(c) \/ Marks(c) \/ Erases(c)
      PROVE  ScriptedOne(d)'
  <2>1. \E ch : Statement(c, ch)  BY <1>9 DEF Deletes, Rechecks, InsertsUser, Marks, Erases
  <2> QED  BY <1>8, <2>1
<1> QED  BY <1>1, <1>2, <1>3, <1>4, <1>5, <1>6, <1>7, <1>9, Kinds

-----------------------------------------------------------------------------
\* Whose transaction a connection is in.

LEMMA HeldInit == ASSUME Init PROVE Held
<1>1. \A c \in Requests : Conn(c) \in Connections  BY ConnIs
<1> QED  BY <1>1 DEF Init, Held

HeldConn(x) ==
  /\ owner[x] # None => owner[x] \notin Writers /\ state[owner[x]] = "open" /\ Conn(owner[x]) = x
  /\ owner[x] = None => work[x] = NoRows

LEMMA HeldStep ==
  ASSUME Shaped, Scripted, Held, Written, SchemaSteps, [Next]_vars
  PROVE  Held'
<1>0. /\ owner \in [Connections -> Requests \cup {None}]
      /\ state \in [Requests -> {"new", "ready", "open", "done", "failed"}]
      /\ \A x \in Connections : HeldConn(x)
      /\ \A c \in Requests \ Writers : state[c] = "open" => owner[Conn(c)] = c
      /\ \A c \in Requests : Conn(c) \in Connections
  BY ConnIs DEF Shaped, Held, HeldConn
<1>a. ASSUME \A x \in Connections : HeldConn(x)',
             \A c \in Requests \ Writers : state'[c] = "open" => owner'[Conn(c)'] = c
      PROVE  Held'
  BY <1>a DEF Held, HeldConn
<1>1. CASE Idle  BY <1>1 DEF Idle, Others, Held, Conn
<1>2. CASE Crash
  <2>1. /\ \A x \in Connections : owner'[x] = None /\ work'[x] = NoRows
        /\ \A c \in Requests : state'[c] # "open"
    BY <1>0, <1>2 DEF Crash
  <2> QED  BY <1>a, <2>1 DEF HeldConn
<1>3. ASSUME NEW c \in Requests, Starts(c) PROVE Held'
  <2>1. /\ \A d \in Requests \ {c} : state'[d] = state[d]
        /\ state[c] = "new" /\ (state'[c] = "open" => c \in Writers)
        /\ owner' = owner /\ work' = work /\ \A d : Conn(d)' = Conn(d)
    BY <1>0, <1>3 DEF Starts, Conn
  <2> QED  BY <1>0, <1>a, <2>1, Apart DEF HeldConn
<1>4. ASSUME NEW c \in Requests, Begins(c) PROVE Held'
  <2>1. /\ \A d \in Requests \ {c} : state'[d] = state[d]
        /\ state[c] = "ready" /\ c \notin Writers /\ work' = work /\ \A d : Conn(d)' = Conn(d)
    BY <1>0, <1>4 DEF Begins, Conn
  <2>2. CASE owner' = owner /\ state'[c] = "failed"
    BY <1>0, <1>a, <2>1, <2>2, Apart DEF HeldConn
  <2>3. CASE /\ owner[Conn(c)] = None /\ owner'[Conn(c)] = c /\ state'[c] = "open"
             /\ \A y \in Connections \ {Conn(c)} : owner'[y] = owner[y]
    <3>1. ASSUME NEW x \in Connections PROVE HeldConn(x)'
      <4>1. CASE x = Conn(c)  BY <2>1, <2>3, <4>1, Apart DEF HeldConn
      <4>2. CASE x # Conn(c)
        <5>1. owner'[x] = owner[x]  BY <2>3, <4>2
        <5> QED  BY <1>0, <2>1, <5>1, Apart DEF HeldConn
      <4> QED  BY <4>1, <4>2
    <3>2. ASSUME NEW d \in Requests \ Writers, state'[d] = "open" PROVE owner'[Conn(d)'] = d
      <4>1. CASE d = c  BY <2>1, <2>3, <4>1
      <4>2. CASE d # c
        <5>1. owner[Conn(d)] = d  BY <1>0, <2>1, <3>2, <4>2
        <5>2. Conn(d) # Conn(c)  BY <2>3, <5>1, Apart
        <5> QED  BY <1>0, <2>1, <2>3, <5>1, <5>2
      <4> QED  BY <4>1, <4>2
    <3> QED  BY <1>a, <3>1, <3>2
  <2>4. \/ owner' = owner /\ state'[c] = "failed"
        \/ /\ owner[Conn(c)] = None /\ owner'[Conn(c)] = c /\ state'[c] = "open"
           /\ \A y \in Connections \ {Conn(c)} : owner'[y] = owner[y]
    BY <1>0, <1>4 DEF Begins
  <2> QED  BY <2>2, <2>3, <2>4
<1>5. ASSUME NEW c \in Requests, Undone(c) \/ Commits(c) PROVE Held'
  <2>1. /\ work'[Conn(c)] = NoRows /\ owner'[Conn(c)] = None
        /\ \A y \in Connections \ {Conn(c)} : work'[y] = work[y] /\ owner'[y] = owner[y]
        /\ state'[c] # "open" /\ \A d \in Requests \ {c} : state'[d] = state[d]
    BY <1>5, EndIs
  <2>2. /\ \A d : Conn(d)' = Conn(d)
        /\ owner[Conn(c)] = c
    BY <1>5 DEF Undone, Commits, Inside, Others, Conn
  <2>3. ASSUME NEW x \in Connections PROVE HeldConn(x)'
    <3>1. CASE x = Conn(c)  BY <2>1, <3>1 DEF HeldConn
    <3>2. CASE x # Conn(c)
      <4>1. owner[x] # c  BY <1>0, <3>2, Apart DEF HeldConn
      <4>2. owner'[x] = owner[x] /\ work'[x] = work[x]  BY <2>1, <3>2
      <4> QED  BY <1>0, <2>1, <2>2, <4>1, <4>2 DEF HeldConn
    <3> QED  BY <3>1, <3>2
  <2>4. ASSUME NEW d \in Requests \ Writers, state'[d] = "open" PROVE owner'[Conn(d)'] = d
    <3>1. d # c /\ owner[Conn(d)] = d  BY <1>0, <2>1, <2>4
    <3>2. Conn(d) # Conn(c)  BY <2>2, <3>1
    <3> QED  BY <1>0, <2>1, <2>2, <3>1, <3>2
  <2> QED  BY <1>a, <2>3, <2>4
<1>6. ASSUME NEW c \in Requests, Refuses(c) PROVE Held'
  <2>1. /\ \A d \in Requests \ {c} : state'[d] = state[d]
        /\ c \in Writers /\ owner' = owner /\ work' = work /\ \A d : Conn(d)' = Conn(d)
    BY <1>0, <1>6 DEF Refuses, Others, Conn
  <2> QED  BY <1>0, <1>a, <2>1, Apart DEF HeldConn
<1>7. ASSUME NEW c \in Requests, Inserts(c) PROVE Held'
  <2>1. /\ \A d \in Requests \ {c} : state'[d] = state[d]
        /\ c \in Writers /\ owner' = owner /\ \A d : Conn(d)' = Conn(d)
    BY <1>7, InsertsIs DEF Inserts, Conn
  <2>2. \A x \in Connections : owner[x] = None => work'[x] = work[x]
    BY <1>7, InsertsIs
  <2> QED  BY <1>0, <1>a, <2>1, <2>2, Apart DEF HeldConn
<1>8. ASSUME NEW c \in Requests, NEW ch, Statement(c, ch) PROVE Held'
  <2>1. /\ state' = state /\ owner' = owner /\ owner[Conn(c)] = c /\ \A d : Conn(d)' = Conn(d)
    BY <1>8 DEF Statement, Inside, Others, Conn
  <2>2. \A y \in Connections \ {Conn(c)} : work'[y] = work[y]  BY <1>8, StatementIs
  <2> QED  BY <1>0, <1>a, <2>1, <2>2, Apart DEF HeldConn
<1>9. ASSUME NEW c \in Requests,
             Deletes(c) \/ Rechecks(c) \/ InsertsUser(c) \/ Marks(c) \/ Erases(c)
      PROVE  Held'
  <2>1. \E ch : Statement(c, ch)  BY <1>9 DEF Deletes, Rechecks, InsertsUser, Marks, Erases
  <2> QED  BY <1>8, <2>1
<1> QED  BY <1>1, <1>2, <1>3, <1>4, <1>5, <1>6, <1>7, <1>9, Kinds

-----------------------------------------------------------------------------
\* What the transactions have written.

LEMMA SomeStatement ==
  ASSUME NEW c, Deletes(c) \/ Rechecks(c) \/ InsertsUser(c) \/ Marks(c) \/ Erases(c)
  PROVE  /\ \E ch : Statement(c, ch)
         /\ Inside(c) /\ rows' = rows /\ owner' = owner /\ state' = state
         /\ backend' = backend /\ acked' = acked /\ late' = late
<1>1. PICK ch : Statement(c, ch)  BY DEF Deletes, Rechecks, InsertsUser, Marks, Erases
<1> QED  BY <1>1 DEF Statement, Others

\* A deleted session does not come back.
LEMMA SessionStaysGone ==
  ASSUME Shaped, Scripted, Held, Written, SchemaSteps, [Next]_vars, Session \notin DOMAIN rows
  PROVE  Session \notin DOMAIN rows'
<1>1. CASE Idle \/ Crash  BY <1>1 DEF Idle, Crash
<1>2. ASSUME NEW c \in Requests, Starts(c) \/ Begins(c) \/ Refuses(c) \/ Undone(c)
      PROVE  rows' = rows
  BY <1>2 DEF Starts, Begins, Refuses, Undone
<1>3. ASSUME NEW c \in Requests,
             Deletes(c) \/ Rechecks(c) \/ InsertsUser(c) \/ Marks(c) \/ Erases(c)
      PROVE  rows' = rows
  BY <1>3, SomeStatement
<1>4. ASSUME NEW c \in Requests, Inserts(c) PROVE Session \notin DOMAIN rows'
  <2>1. Session # NextKey(c)  BY <1>4, NextRowIs
  <2>2. DOMAIN rows' \subseteq DOMAIN rows \cup {NextKey(c)}  BY <1>4, InsertsIs
  <2> QED  BY <2>1, <2>2
<1>5. ASSUME NEW c \in Requests, Commits(c) PROVE Session \notin DOMAIN rows'
  <2>1. rows' = View(Conn(c)) /\ Conn(c) \in Connections  BY <1>5 DEF Commits, Inside
  <2>2. Session \in DOMAIN work[Conn(c)] => work[Conn(c)][Session] = Gone
    BY <2>1 DEF Written, WrittenBy
  <2> QED  BY <2>1, <2>2, ViewIs
<1> QED  BY <1>1, <1>2, <1>3, <1>4, <1>5, Kinds

WrittenConn(x) ==
  /\ \A k \in DOMAIN work[x] : WrittenBy(owner[x], k, work[x][k])
  /\ owner[x] \in Acceptors =>
       /\ at[owner[x]] >= 2 <=> <<"users", owner[x]>> \in DOMAIN work[x]
       /\ at[owner[x]] = 3 <=> Invite \in DOMAIN work[x]
  /\ owner[x] \in Destroyers /\ at[owner[x]] = Len(DeleteOrder) =>
       Session \in DOMAIN work[x] \/ Session \notin DOMAIN rows

LEMMA WrittenParts ==
  /\ Written <=> (\A x \in Connections : WrittenConn(x)) /\ \A k \in DOMAIN rows : rows[k] # Gone
  BY DEF Written, WrittenConn

\* A connection on which nothing happened.
LEMMA WrittenStays ==
  ASSUME Shaped, Scripted, Held, Written, SchemaSteps, [Next]_vars, backend' = backend,
         NEW x \in Connections, work'[x] = work[x], owner'[x] = owner[x],
         owner[x] \in Requests => at'[owner[x]] = at[owner[x]]
  PROVE  WrittenConn(x)'
<1>1. WrittenConn(x)  BY WrittenParts
<1>2. ASSUME NEW k \in DOMAIN work'[x] PROVE WrittenBy(owner[x], k, work[x][k])'
  <2>1. WrittenBy(owner[x], k, work[x][k])  BY <1>1 DEF WrittenConn
  <2>2. k[1] = "users" /\ k \in DOMAIN rows => k \in DOMAIN rows'  BY UsersStay
  <2> QED  BY <2>1, <2>2 DEF WrittenBy
<1>3. Session \notin DOMAIN rows => Session \notin DOMAIN rows'  BY SessionStaysGone
<1>4. owner[x] \notin Requests => owner[x] \notin Acceptors \cup Destroyers  BY Apart
<1> QED  BY <1>1, <1>2, <1>3, <1>4 DEF WrittenConn

LEMMA WrittenInit == ASSUME Init PROVE Written
<1>1. \A k \in DOMAIN rows : rows[k] # Gone  BY DEF Init, FirstRows, Gone
<1>2. \A x \in Connections : work[x] = NoRows /\ owner[x] = None  BY DEF Init
<1>3. None \notin Acceptors \cup Destroyers /\ DOMAIN NoRows = {}  BY Apart DEF NoRows
<1> QED  BY <1>1, <1>2, <1>3 DEF Written

\* A statement that writes what its request may write.
LEMMA StatementWrites ==
  ASSUME Shaped, Scripted, Held, Written, SchemaSteps, [Next]_vars, NEW c, NEW ch,
         Statement(c, ch),
         \A k \in DOMAIN ch : WrittenBy(c, k, ch[k]),
         c \in Acceptors =>
           /\ at[c] + 1 >= 2 <=> <<"users", c>> \in DOMAIN ch \cup DOMAIN work[Conn(c)]
           /\ at[c] + 1 = 3 <=> Invite \in DOMAIN ch \cup DOMAIN work[Conn(c)],
         c \in Destroyers /\ at[c] + 1 = Len(DeleteOrder) =>
           Session \in DOMAIN ch \cup DOMAIN work[Conn(c)] \/ Session \notin DOMAIN rows
  PROVE  Written'
<1>1. /\ Inside(c) /\ rows' = rows /\ owner' = owner /\ backend' = backend
      /\ owner[Conn(c)] = c /\ Conn(c) \in Connections /\ c \in Requests
  BY DEF Statement, Inside, Others
<1>2. /\ DOMAIN work'[Conn(c)] = DOMAIN ch \cup DOMAIN work[Conn(c)]
      /\ \A k \in DOMAIN ch : work'[Conn(c)][k] = ch[k]
      /\ \A k \in DOMAIN work[Conn(c)] \ DOMAIN ch : work'[Conn(c)][k] = work[Conn(c)][k]
      /\ \A y \in Connections \ {Conn(c)} : work'[y] = work[y]
      /\ at'[c] = at[c] + 1 /\ \A d \in Requests \ {c} : at'[d] = at[d]
  BY StatementIs
<1>3. ASSUME NEW y \in Connections \ {Conn(c)} PROVE WrittenConn(y)'
  <2>1. owner[y] \in Requests => owner[y] # c  BY <1>3, Apart DEF Held
  <2> QED  BY <1>1, <1>2, <2>1, WrittenStays
<1>4. WrittenConn(Conn(c))'
  <2>1. ASSUME NEW k \in DOMAIN work'[Conn(c)] PROVE WrittenBy(c, k, work'[Conn(c)][k])
    <3>1. CASE k \in DOMAIN ch  BY <1>2, <3>1
    <3>2. CASE k \notin DOMAIN ch
      <4>1. k \in DOMAIN work[Conn(c)] /\ work'[Conn(c)][k] = work[Conn(c)][k]  BY <1>2, <2>1, <3>2
      <4> QED  BY <1>1, <4>1 DEF Written
    <3> QED  BY <3>1, <3>2
  <2>2. \A k \in DOMAIN work'[Conn(c)] : WrittenBy(owner[Conn(c)], k, work[Conn(c)][k])'
    BY <1>1, <2>1 DEF WrittenBy, Conn
  <2> QED  BY <1>1, <1>2, <2>2 DEF WrittenConn, Conn
<1>5. \A k \in DOMAIN rows' : rows'[k] # Gone  BY <1>1 DEF Written
<1>6. \A x \in Connections : WrittenConn(x)'
  <2>1. Conn(c)' = Conn(c)  BY <1>1 DEF Conn
  <2> QED  BY <1>3, <1>4, <2>1
<1> QED  BY <1>5, <1>6 DEF Written, WrittenConn

LEMMA DeletesKeepWritten ==
  ASSUME Shaped, Scripted, Held, Written, SchemaSteps, [Next]_vars, NEW c, Deletes(c)
  PROVE  Written'
<1>1. PICK t \in Range(DeleteOrder) :
        /\ c \in Destroyers /\ Statement(c, [k \in Of(Conn(c), t) |-> Gone])
        /\ script[c][at[c] + 1] = t
  BY DEF Deletes
<1> DEFINE K == Of(Conn(c), t)
           ch == [k \in K |-> Gone]
<1>2. Inside(c)  BY <1>1 DEF Statement
<1>3. script[c] = DeleteOrder /\ c \in Requests /\ at[c] \in Nat
  BY <1>1, <1>2 DEF Inside, Scripted, Shaped
<1>4. ASSUME NEW k \in DOMAIN ch PROVE WrittenBy(c, k, ch[k])
  <2>1. t \notin {"users", "invite_tokens"}  BY DEF Range, DeleteOrder
  <2>2. k[1] = t  BY <1>4 DEF Of, Session
  <2> QED  BY <1>1, <1>4, <2>1, <2>2 DEF WrittenBy
<1>5. ASSUME at[c] + 1 = Len(DeleteOrder)
      PROVE  Session \in DOMAIN ch \cup DOMAIN work[Conn(c)] \/ Session \notin DOMAIN rows
  <2>1. t = "sessions"  BY <1>1, <1>3, <1>5 DEF DeleteOrder
  <2>2. DOMAIN ch = {Session} \cap DOMAIN View(Conn(c))  BY <2>1 DEF Of
  <2>3. Session \in DOMAIN rows => rows[Session] # Gone  BY DEF Written
  <2> QED  BY <2>2, <2>3, ViewIs
<1>6. c \notin Acceptors  BY <1>1, Apart
<1> HIDE DEF ch
<1> QED  BY <1>1, <1>4, <1>5, <1>6, StatementWrites DEF ch

LEMMA AcceptScript ==
  ASSUME Shaped, Scripted, NEW c \in Acceptors, Inside(c), at[c] < Len(script[c])
  PROVE  /\ at[c] \in Nat /\ c \in Requests
         /\ script[c][at[c] + 1] = "recheck" => at[c] = 0
         /\ script[c][at[c] + 1] = "insert" => at[c] = 1
         /\ script[c][at[c] + 1] = "mark" => at[c] = 2
<1>1. script[c] = AcceptOrder /\ at[c] \in Nat /\ c \in Requests  BY DEF Inside, Scripted, Shaped
<1>2. at[c] \in 0..2  BY <1>1 DEF AcceptOrder
<1> QED  BY <1>1, <1>2 DEF AcceptOrder

LEMMA AcceptKeepsWritten ==
  ASSUME Shaped, Scripted, Held, Written, SchemaSteps, [Next]_vars, NEW c,
         Rechecks(c) \/ InsertsUser(c) \/ Marks(c)
  PROVE  Written'
<1>1. /\ c \in Acceptors /\ Inside(c) /\ at[c] < Len(script[c])
      /\ c \in Requests /\ owner[Conn(c)] = c /\ Conn(c) \in Connections
  BY DEF Rechecks, InsertsUser, Marks, Statement, Inside
<1>2. c \notin Destroyers  BY <1>1, Apart
<1>3. /\ at[c] >= 2 <=> <<"users", c>> \in DOMAIN work[Conn(c)]
      /\ at[c] = 3 <=> Invite \in DOMAIN work[Conn(c)]
  BY <1>1 DEF Written
<1>4. CASE Rechecks(c)
  <2>1. at[c] = 0  BY <1>1, <1>4, AcceptScript DEF Rechecks
  <2>2. DOMAIN NoRows = {}  BY DEF NoRows
  <2>3. Statement(c, NoRows)  BY <1>4 DEF Rechecks
  <2>4. /\ at[c] + 1 >= 2 <=> <<"users", c>> \in DOMAIN NoRows \cup DOMAIN work[Conn(c)]
        /\ at[c] + 1 = 3 <=> Invite \in DOMAIN NoRows \cup DOMAIN work[Conn(c)]
    BY <1>3, <2>1, <2>2
  <2> QED  BY <1>2, <2>2, <2>3, <2>4, StatementWrites
<1>5. CASE InsertsUser(c)
  <2> DEFINE ch == Put(<<"users", c>>, [up |-> {Org}, val |-> "live"])
  <2>1. at[c] = 1 /\ Statement(c, ch)  BY <1>1, <1>5, AcceptScript DEF InsertsUser
  <2>2. DOMAIN ch = {<<"users", c>>} /\ ch[<<"users", c>>] = [up |-> {Org}, val |-> "live"]
    BY DEF Put
  <2> HIDE DEF ch
  <2>3. ASSUME NEW k \in DOMAIN ch PROVE WrittenBy(c, k, ch[k])
    <3>1. k = <<"users", c>> /\ k[1] = "users" /\ ch[k] = [up |-> {Org}, val |-> "live"]
      BY <2>2, <2>3
    <3>2. ch[k].val = "live" /\ ch[k] # Gone /\ k # Session  BY <3>1 DEF Gone, Session
    <3> QED  BY <1>1, <3>1, <3>2 DEF WrittenBy
  <2>4. <<"users", c>> # Invite  BY DEF Invite
  <2>5. /\ at[c] + 1 >= 2 <=> <<"users", c>> \in DOMAIN ch \cup DOMAIN work[Conn(c)]
        /\ at[c] + 1 = 3 <=> Invite \in DOMAIN ch \cup DOMAIN work[Conn(c)]
    BY <1>3, <2>1, <2>2, <2>4
  <2> QED  BY <1>2, <2>1, <2>3, <2>5, StatementWrites
<1>6. CASE Marks(c)
  <2> DEFINE ch == Put(Invite, [up |-> {Org, Owner}, val |-> "accepted"])
  <2>1. at[c] = 2 /\ Statement(c, ch)  BY <1>1, <1>6, AcceptScript DEF Marks
  <2>2. DOMAIN ch = {Invite} /\ ch[Invite] = [up |-> {Org, Owner}, val |-> "accepted"]
    BY DEF Put
  <2> HIDE DEF ch
  <2>3. ASSUME NEW k \in DOMAIN ch PROVE WrittenBy(c, k, ch[k])
    <3>1. k = Invite /\ k[1] = "invite_tokens" /\ ch[k] = [up |-> {Org, Owner}, val |-> "accepted"]
      BY <2>2, <2>3 DEF Invite
    <3>2. ch[k].val = "accepted" /\ ch[k] # Gone /\ k # Session  BY <3>1 DEF Gone, Session, Invite
    <3> QED  BY <1>1, <3>1, <3>2 DEF WrittenBy
  <2>4. <<"users", c>> # Invite  BY DEF Invite
  <2>5. /\ at[c] + 1 >= 2 <=> <<"users", c>> \in DOMAIN ch \cup DOMAIN work[Conn(c)]
        /\ at[c] + 1 = 3 <=> Invite \in DOMAIN ch \cup DOMAIN work[Conn(c)]
    BY <1>3, <2>1, <2>2, <2>4
  <2> QED  BY <1>2, <2>1, <2>3, <2>5, StatementWrites
<1> QED  BY <1>4, <1>5, <1>6

LEMMA ErasesKeepWritten ==
  ASSUME Shaped, Scripted, Held, Written, SchemaSteps, [Next]_vars, NEW c, Erases(c)
  PROVE  Written'
<1> DEFINE seen == View(Conn(c))
<1>1. PICK u \in DOMAIN rows, stmt \in {"revoke", "anonymise"}, hit \in SUBSET DOMAIN seen :
        /\ c \in Erasers /\ script[c][at[c] + 1] = <<stmt, u>> /\ Statement(c, Erased(c, hit))
        /\ stmt = "anonymise" => hit \subseteq {u}
        /\ stmt = "revoke" => \A k \in hit : k[1] = "api_tokens"
  BY DEF Erases
<1>2. Inside(c) /\ at[c] < Len(script[c])  BY <1>1 DEF Statement
<1>3. u[1] = "users"
  <2>1. c \in Requests /\ state[c] = "open" /\ at[c] \in Nat  BY <1>2 DEF Inside, Shaped
  <2>2. PICK v : v[1] = "users" /\ script[c] = << <<"revoke", v>>, <<"anonymise", v>> >>
    BY <1>1, <2>1 DEF Scripted
  <2>3. at[c] + 1 \in 1..2  BY <1>2, <2>1, <2>2
  <2>4. script[c][at[c] + 1] = <<"revoke", v>> \/ script[c][at[c] + 1] = <<"anonymise", v>>
    BY <2>2, <2>3
  <2>5. u = v  BY <1>1, <2>4
  <2> QED  BY <2>2, <2>5
<1>4. DOMAIN Erased(c, hit) = hit /\ \A k \in hit : Erased(c, hit)[k].val = "erased"
  BY DEF Erased
<1>5. ASSUME NEW k \in hit PROVE WrittenBy(c, k, Erased(c, hit)[k])
  <2>1. Erased(c, hit)[k].val = "erased" /\ Erased(c, hit)[k] # Gone  BY <1>4, <1>5 DEF Gone
  <2>2. CASE stmt = "anonymise"
    <3>1. k = u  BY <1>1, <1>5, <2>2
    <3>2. k[1] = "users" /\ k # Session  BY <1>3, <3>1 DEF Session
    <3> QED  BY <1>1, <2>1, <3>1, <3>2 DEF WrittenBy
  <2>3. CASE stmt = "revoke"
    <3>1. k[1] = "api_tokens" /\ k # Session  BY <1>1, <1>5, <2>3 DEF Session
    <3> QED  BY <2>1, <3>1 DEF WrittenBy
  <2> QED  BY <1>1, <2>2, <2>3
<1>6. c \notin Acceptors \cup Destroyers  BY <1>1, Apart
<1> QED  BY <1>1, <1>4, <1>5, <1>6, StatementWrites

LEMMA InsertsKeepWritten ==
  ASSUME Shaped, Scripted, Held, Written, SchemaSteps, [Next]_vars, NEW c, Inserts(c)
  PROVE  Written'
<1> DEFINE x == Conn(c)
           key == NextKey(c)
<1>1. /\ owner' = owner /\ backend' = backend /\ c \in Writers /\ x \in Connections
      /\ \A y : Conn(y)' = Conn(y)
  BY DEF Inserts, Conn
<1>2. /\ key # Session /\ key # Invite /\ key[1] \notin {"users", "invite_tokens"}
      /\ key[1] = NextRow(c)[1]
  BY NextRowIs
<1>3. \A d \in Requests \ {c} : at'[d] = at[d]  BY InsertsIs
<1>4. \A y \in Connections : owner[y] \in Requests => owner[y] # c
  BY <1>1, Apart DEF Held
<1>5. NextIsRow(c) # Gone  BY DEF NextIsRow, Gone
<1>6. \A k \in DOMAIN rows : rows[k] # Gone  BY DEF Written
<1> HIDE DEF key
<1>7. CASE owner[x] = None
  <2>1. /\ work' = work /\ DOMAIN rows' = DOMAIN rows \cup {key} /\ rows'[key] = NextIsRow(c)
        /\ \A k \in DOMAIN rows \ {key} : rows'[k] = rows[k]
    BY <1>7, InsertsIs DEF key
  <2>2. \A y \in Connections : WrittenConn(y)'  BY <1>1, <1>3, <1>4, <2>1, WrittenStays
  <2>3. \A k \in DOMAIN rows' : rows'[k] # Gone  BY <1>5, <1>6, <2>1
  <2> QED  BY <2>2, <2>3 DEF Written, WrittenConn
<1>8. CASE owner[x] # None
  <2>1. /\ rows' = rows /\ backend = "sqlite"
        /\ \A y \in Connections \ {x} : work'[y] = work[y]
        /\ DOMAIN work'[x] = DOMAIN work[x] \cup {key} /\ work'[x][key] = NextIsRow(c)
        /\ \A k \in DOMAIN work[x] \ {key} : work'[x][k] = work[x][k]
    BY <1>8, InsertsIs DEF key
  <2>2. \A y \in Connections \ {x} : WrittenConn(y)'  BY <1>1, <1>3, <1>4, <2>1, WrittenStays
  <2>3. WrittenConn(x)'
    <3>1. owner[x] \in Requests \ {c}  BY <1>1, <1>4, <1>8 DEF Shaped
    <3>2. ASSUME NEW k \in DOMAIN work'[x] PROVE WrittenBy(owner[x], k, work'[x][k])
      <4>1. CASE k = key  BY <1>2, <1>5, <2>1, <4>1 DEF WrittenBy
      <4>2. CASE k # key
        <5>1. k \in DOMAIN work[x] /\ work'[x][k] = work[x][k]  BY <2>1, <3>2, <4>2
        <5> QED  BY <1>1, <5>1 DEF Written
      <4> QED  BY <4>1, <4>2
    <3>3. \A k \in DOMAIN work'[x] : (WrittenBy(owner[x], k, work[x][k]))'
      BY <1>1, <2>1, <3>2 DEF WrittenBy
    <3>4. owner[x] \in Acceptors => <<"users", owner[x]>> # key
      <4>1. <<"users", owner[x]>>[1] = "users"  OBVIOUS
      <4> QED  BY <1>2, <4>1
    <3>5. WrittenConn(x) /\ at'[owner[x]] = at[owner[x]]  BY <1>1, <1>3, <3>1, WrittenParts
    <3> QED  BY <1>1, <1>2, <2>1, <3>3, <3>4, <3>5 DEF WrittenConn
  <2>4. \A y \in Connections : WrittenConn(y)'
    <3> HIDE DEF x
    <3>1. x' = x  BY <1>1 DEF x
    <3> QED  BY <2>2, <2>3, <3>1
  <2> QED  BY <1>6, <2>1, <2>4 DEF Written, WrittenConn
<1> QED  BY <1>7, <1>8

LEMMA EndKeepsWritten ==
  ASSUME Shaped, Scripted, Held, Written, SchemaSteps, [Next]_vars, NEW c,
         Undone(c) \/ Commits(c)
  PROVE  Written'
<1>1. /\ backend' = backend /\ at' = at /\ owner[Conn(c)] = c /\ Conn(c) \in Connections
      /\ c \in Requests /\ Conn(c)' = Conn(c)
      /\ rows' = rows \/ rows' = View(Conn(c))
  BY DEF Undone, Commits, Inside, Others, Conn
<1>2. /\ work'[Conn(c)] = NoRows /\ DOMAIN NoRows = {} /\ owner'[Conn(c)] = None
      /\ \A y \in Connections \ {Conn(c)} : work'[y] = work[y] /\ owner'[y] = owner[y]
  BY EndIs
<1>3. WrittenConn(Conn(c))'  BY <1>1, <1>2, Apart DEF WrittenConn
<1>4. \A y \in Connections \ {Conn(c)} : WrittenConn(y)'  BY <1>1, <1>2, WrittenStays
<1>5. \A k \in DOMAIN rows' : rows'[k] # Gone
  <2>1. CASE rows' = rows  BY <2>1 DEF Written
  <2>2. CASE rows' = View(Conn(c))
    <3>1. \A k \in DOMAIN View(Conn(c)) : View(Conn(c))[k] # Gone  BY ViewIs
    <3> QED  BY <2>2, <3>1
  <2> QED  BY <1>1, <2>1, <2>2
<1>6. \A y \in Connections : WrittenConn(y)'  BY <1>1, <1>3, <1>4
<1> QED  BY <1>5, <1>6 DEF Written, WrittenConn

LEMMA WrittenStep ==
  ASSUME Shaped, Scripted, Held, Written, SchemaSteps, [Next]_vars
  PROVE  Written'
<1>0. \A k \in DOMAIN rows : rows[k] # Gone  BY DEF Written
<1>1. ASSUME work' = work, owner' = owner, at' = at, rows' = rows, backend' = backend
      PROVE  Written'
  <2>1. \A y \in Connections : WrittenConn(y)'  BY <1>1, WrittenStays
  <2> QED  BY <1>0, <1>1, <2>1 DEF Written, WrittenConn
<1>2. CASE Idle  BY <1>1, <1>2 DEF Idle, Others
<1>3. CASE Crash
  <2>1. /\ \A x \in Connections : work'[x] = NoRows /\ owner'[x] = None
        /\ rows' = rows /\ DOMAIN NoRows = {}
    BY <1>3 DEF Crash, NoRows
  <2> QED  BY <1>0, <2>1, Apart DEF Written
<1>4. ASSUME NEW c \in Requests, Starts(c) \/ Refuses(c) PROVE Written'
  BY <1>1, <1>4 DEF Starts, Refuses, Others
<1>5. ASSUME NEW c \in Requests, Begins(c) PROVE Written'
  <2>1. /\ work' = work /\ at' = at /\ rows' = rows /\ backend' = backend
        /\ state[c] = "ready" /\ Conn(c) \in Connections /\ Conn(c)' = Conn(c)
    BY <1>5 DEF Begins, Conn
  <2>2. CASE owner' = owner  BY <1>1, <2>1, <2>2
  <2>3. CASE owner[Conn(c)] = None /\ owner' = [owner EXCEPT ![Conn(c)] = c]
    <3>1. /\ owner'[Conn(c)] = c
          /\ \A y \in Connections \ {Conn(c)} : owner'[y] = owner[y]
      BY <2>1, <2>3 DEF Shaped
    <3>2. \A y \in Connections \ {Conn(c)} : WrittenConn(y)'  BY <2>1, <3>1, WrittenStays
    <3>3. work[Conn(c)] = NoRows /\ DOMAIN NoRows = {}  BY <2>1, <2>3 DEF Held, NoRows
    <3>4. at[c] = 0  BY <2>1 DEF Scripted
    <3>5. Len(DeleteOrder) = 11  BY DEF DeleteOrder
    <3>6. WrittenConn(Conn(c))'  BY <2>1, <3>1, <3>3, <3>4, <3>5 DEF WrittenConn
    <3>7. \A y \in Connections : WrittenConn(y)'  BY <2>1, <3>2, <3>6
    <3> QED  BY <1>0, <2>1, <3>7 DEF Written, WrittenConn
  <2> QED  BY <1>5, <2>2, <2>3 DEF Begins
<1> QED  BY <1>2, <1>3, <1>4, <1>5, DeletesKeepWritten, AcceptKeepsWritten, ErasesKeepWritten,
           InsertsKeepWritten, EndKeepsWritten, Kinds

-----------------------------------------------------------------------------
\* Acknowledged rows.

AcknowledgedOne(a) ==
  \/ a[1] \in DOMAIN rows
  \/ Session \notin DOMAIN rows
  \/ a[2] # None /\ state[a[2]] = "failed"
  \/ a[2] # None /\ state[a[2]] = "open" /\ a[2] \notin Writers /\ a[1] \in DOMAIN work[Conn(a[2])]

LEMMA AcknowledgedInit == ASSUME Init PROVE Acknowledged
  BY DEF Init, Acknowledged

\* A request that has ended has ended.
LEMMA EndedStays ==
  ASSUME Shaped, Scripted, Held, Written, [Next]_vars, NEW d \in Requests,
         state[d] \in {"done", "failed"}
  PROVE  state'[d] = state[d]
<1>0. state \in [Requests -> {"new", "ready", "open", "done", "failed"}]  BY DEF Shaped
<1>1. CASE Idle  BY <1>1 DEF Idle
<1>2. CASE Crash  BY <1>0, <1>2 DEF Crash
<1>3. ASSUME NEW c \in Requests, Starts(c) \/ Begins(c) \/ Refuses(c) PROVE state'[d] = state[d]
  BY <1>0, <1>3 DEF Starts, Begins, Refuses
<1>4. ASSUME NEW c \in Requests, Commits(c) \/ Undone(c) PROVE state'[d] = state[d]
  BY <1>0, <1>4, EndIs DEF Commits, Undone, Inside
<1>5. ASSUME NEW c \in Requests, Inserts(c) PROVE state'[d] = state[d]
  BY <1>0, <1>5, InsertsIs DEF Inserts
<1>6. ASSUME NEW c \in Requests,
             Deletes(c) \/ Rechecks(c) \/ InsertsUser(c) \/ Marks(c) \/ Erases(c)
      PROVE  state'[d] = state[d]
  BY <1>6, SomeStatement
<1> QED  BY <1>1, <1>2, <1>3, <1>4, <1>5, <1>6, Kinds

\* When a deletion has committed, the session is gone.
LEMMA DeletionTakesSession ==
  ASSUME Shaped, Scripted, Held, Written, NEW c \in Destroyers, Commits(c)
  PROVE  Session \notin DOMAIN rows'
<1>1. /\ owner[Conn(c)] = c /\ Conn(c) \in Connections /\ rows' = View(Conn(c))
      /\ state[c] = "open" /\ at[c] = Len(script[c]) /\ c \in Requests
  BY DEF Commits, Inside
<1>2. script[c] = DeleteOrder  BY <1>1 DEF Scripted
<1>3. Session \in DOMAIN work[Conn(c)] \/ Session \notin DOMAIN rows  BY <1>1, <1>2 DEF Written
<1>4. Session \in DOMAIN work[Conn(c)] => work[Conn(c)][Session] = Gone
  BY <1>1 DEF Written, WrittenBy
<1> QED  BY <1>1, <1>3, <1>4, ViewIs

\* A transaction only writes more, until it ends.
LEMMA WritesGrow ==
  ASSUME Shaped, Scripted, Held, Written, SchemaSteps, [Next]_vars,
         NEW o \in Requests \ Writers, state[o] = "open", NEW k \in DOMAIN work[Conn(o)]
  PROVE  \/ state'[o] = "failed"
         \/ Commits(o)
         \/ state'[o] = "open" /\ k \in DOMAIN (work[Conn(o)])'
<1>0. /\ state \in [Requests -> {"new", "ready", "open", "done", "failed"}]
      /\ owner[Conn(o)] = o /\ Conn(o) \in Connections
  BY ConnIs DEF Shaped, Held
<1>1. CASE Idle  BY <1>1 DEF Idle, Others, Conn
<1>2. CASE Crash  BY <1>0, <1>2 DEF Crash
<1>3. ASSUME NEW c \in Requests, Starts(c) \/ Begins(c) \/ Refuses(c)
      PROVE  state'[o] = "open" /\ k \in DOMAIN (work[Conn(o)])'
  <2>1. c # o  BY <1>3 DEF Starts, Begins, Refuses
  <2> QED  BY <1>0, <1>3, <2>1 DEF Starts, Begins, Refuses, Others, Conn
<1>4. ASSUME NEW c \in Requests, Commits(c) \/ Undone(c), ~Commits(o)
      PROVE  state'[o] = "failed" \/ (state'[o] = "open" /\ k \in DOMAIN (work[Conn(o)])')
  <2>1. owner[Conn(c)] = c /\ \A d : Conn(d)' = Conn(d)
    BY <1>4 DEF Commits, Undone, Inside, Others, Conn
  <2>2. CASE c = o
    <3>1. Undone(o)  BY <1>4, <2>2
    <3>2. state' = [state EXCEPT ![o] = "failed"]  BY <3>1 DEF Undone
    <3>3. state'[o] = "failed"  BY <1>0, <3>2
    <3> QED  BY <3>3
  <2>3. CASE c # o
    <3>1. Conn(o) # Conn(c)  BY <1>0, <2>1, <2>3
    <3>2. state'[o] = "open" /\ work'[Conn(o)] = work[Conn(o)]  BY <1>0, <1>4, <2>3, <3>1, EndIs
    <3> QED  BY <2>1, <3>2
  <2> QED  BY <2>2, <2>3
<1>5. ASSUME NEW c \in Requests, Inserts(c)
      PROVE  state'[o] = "open" /\ k \in DOMAIN (work[Conn(o)])'
  <2>1. c # o /\ \A d : Conn(d)' = Conn(d)  BY <1>5 DEF Inserts, Conn
  <2>0. \A d \in Requests \ {c} : state'[d] = state[d]  BY <1>5, InsertsIs
  <2>2. state'[o] = state[o]  BY <2>0, <2>1
  <2>3. k \in DOMAIN work'[Conn(o)]  BY <1>0, <1>5, InsertsIs
  <2> QED  BY <2>1, <2>2, <2>3
<1>6. ASSUME NEW c \in Requests,
             Deletes(c) \/ Rechecks(c) \/ InsertsUser(c) \/ Marks(c) \/ Erases(c)
      PROVE  state'[o] = "open" /\ k \in DOMAIN (work[Conn(o)])'
  <2>1. PICK ch : Statement(c, ch)  BY <1>6, SomeStatement
  <2>2. state' = state /\ \A d : Conn(d)' = Conn(d)  BY <2>1 DEF Statement, Others, Conn
  <2>3. k \in DOMAIN work'[Conn(o)]  BY <1>0, <2>1, StatementIs
  <2> QED  BY <2>2, <2>3
<1> QED  BY <1>1, <1>2, <1>3, <1>4, <1>5, <1>6, Kinds

\* An insert is acknowledged once it is committed, or written in the
\* transaction that was open.
LEMMA NewlyAcknowledged ==
  ASSUME Shaped, Scripted, Held, Written, SchemaSteps, [Next]_vars,
         NEW a \in acked' \ acked
  PROVE  AcknowledgedOne(a)'
<1>1. PICK c \in Requests : Inserts(c)
  <2>1. CASE Idle \/ Crash  BY <2>1 DEF Idle, Crash, Others, historyVars
  <2>2. ASSUME NEW c \in Requests,
               Starts(c) \/ Begins(c) \/ Refuses(c) \/ Undone(c) \/ Commits(c)
        PROVE  acked' = acked
    BY <2>2 DEF Starts, Begins, Refuses, Undone, Commits, Others
  <2>3. ASSUME NEW c \in Requests,
               Deletes(c) \/ Rechecks(c) \/ InsertsUser(c) \/ Marks(c) \/ Erases(c)
        PROVE  acked' = acked
    BY <2>3, SomeStatement
  <2> QED  BY <2>1, <2>2, <2>3, Kinds
<1>2. a = <<NextKey(c), owner[Conn(c)]>> /\ \A d : Conn(d)' = Conn(d)  BY <1>1 DEF Inserts, Conn
<1>3. a[1] = NextKey(c) /\ a[2] = owner[Conn(c)]  BY <1>2
<1>4. CASE owner[Conn(c)] = None
  <2>1. NextKey(c) \in DOMAIN rows'  BY <1>1, <1>4, InsertsIs
  <2> QED  BY <1>3, <2>1 DEF AcknowledgedOne
<1>5. CASE owner[Conn(c)] # None
  <2>1. /\ Conn(c) \in Connections
        /\ NextKey(c) \in DOMAIN work'[Conn(c)]
    BY <1>1, <1>5, InsertsIs
  <2>2. /\ owner[Conn(c)] \notin Writers /\ state[owner[Conn(c)]] = "open"
        /\ Conn(owner[Conn(c)]) = Conn(c) /\ owner[Conn(c)] \in Requests
    BY <1>5, <2>1 DEF Held, Shaped
  <2>3. state'[owner[Conn(c)]] = "open"
    <3>1. owner[Conn(c)] # c  BY <1>1, <2>2 DEF Inserts
    <3>2. \A d \in Requests \ {c} : state'[d] = state[d]  BY <1>1, InsertsIs
    <3> QED  BY <2>2, <3>1, <3>2
  <2> QED  BY <1>2, <1>3, <1>5, <2>1, <2>2, <2>3 DEF AcknowledgedOne
<1> QED  BY <1>4, <1>5

LEMMA AcknowledgedStep ==
  ASSUME Shaped, Scripted, Held, Written, SchemaSteps, Acknowledged, [Next]_vars
  PROVE  Acknowledged'
<1> SUFFICES ASSUME NEW a \in acked' PROVE AcknowledgedOne(a)'
  BY DEF Acknowledged, AcknowledgedOne
<1>1. CASE a \notin acked  BY <1>1, NewlyAcknowledged
<1>2. CASE a \in acked
  <2>1. AcknowledgedOne(a)  BY <1>2 DEF Acknowledged, AcknowledgedOne
  <2>2. a[2] # None => a[2] \in Requests  BY <1>2 DEF Shaped
  <2>3. CASE a[1] \in DOMAIN rows
    <3>1. a[1] \in DOMAIN rows' \/ Session \notin DOMAIN rows'
      BY <2>3, RowsKept, DeletionTakesSession
    <3> QED  BY <3>1 DEF AcknowledgedOne
  <2>4. CASE Session \notin DOMAIN rows  BY <2>4, SessionStaysGone DEF AcknowledgedOne
  <2>5. CASE a[2] # None /\ state[a[2]] = "failed"
    BY <2>2, <2>5, EndedStays DEF AcknowledgedOne
  <2>6. CASE /\ a[2] # None /\ state[a[2]] = "open" /\ a[2] \notin Writers
             /\ a[1] \in DOMAIN work[Conn(a[2])]
    <3>1. CASE Commits(a[2])
      <4>1. CASE a[2] \in Destroyers  BY <3>1, <4>1, DeletionTakesSession DEF AcknowledgedOne
      <4>2. CASE a[2] \notin Destroyers
        <5>1. /\ Conn(a[2]) \in Connections /\ owner[Conn(a[2])] = a[2]
              /\ rows' = View(Conn(a[2]))
          BY <3>1 DEF Commits, Inside
        <5>2. work[Conn(a[2])][a[1]] # Gone  BY <2>6, <4>2, <5>1 DEF Written, WrittenBy
        <5>3. a[1] \in DOMAIN rows'  BY <2>6, <5>1, <5>2, ViewIs
        <5> QED  BY <5>3 DEF AcknowledgedOne
      <4> QED  BY <4>1, <4>2
    <3>2. CASE state'[a[2]] = "failed"  BY <2>6, <3>2 DEF AcknowledgedOne
    <3>3. CASE state'[a[2]] = "open" /\ a[1] \in DOMAIN (work[Conn(a[2])])'
      BY <2>6, <3>3 DEF AcknowledgedOne
    <3> QED  BY <2>2, <2>6, <3>1, <3>2, <3>3, WritesGrow
  <2> QED  BY <2>1, <2>3, <2>4, <2>5, <2>6 DEF AcknowledgedOne
<1> QED  BY <1>1, <1>2

-----------------------------------------------------------------------------
\* The invite.

LEMMA InvitedInit == ASSUME Init PROVE Invited
<1>1. rows = FirstRows /\ \A x \in Connections : owner[x] = None  BY DEF Init
<1>2. Invite \notin {Org, Owner, Session}  BY DEF Invite, Org, Owner, Session
<1>3. Invite \in DOMAIN rows /\ rows[Invite].val = "open"  BY <1>1, <1>2 DEF FirstRows
<1>4. Accepted = {}
  <2>1. DOMAIN rows = {Org, Owner, Session, Invite}  BY <1>1 DEF FirstRows
  <2>2. Org[1] # "users" /\ Session[1] # "users" /\ Invite[1] # "users"
    BY DEF Org, Session, Invite
  <2> QED  BY <2>1, <2>2 DEF Accepted
<1> QED  BY <1>1, <1>3, <1>4, Apart DEF Invited

\* Neither users nor the invite change, and no acceptance has newly inserted.
LEMMA InvitedStays ==
  ASSUME Invited, Invite \in DOMAIN rows', rows'[Invite] = rows[Invite],
         \A k : k[1] = "users" => (k \in DOMAIN rows' <=> k \in DOMAIN rows),
         \A k \in DOMAIN rows : k[1] = "users" /\ rows'[k].val = "live" => rows[k].val = "live",
         \A x \in Connections : owner'[x] \in Acceptors /\ at'[owner'[x]] >= 2 =>
           owner[x] = owner'[x] /\ at[owner[x]] >= 2
  PROVE  Invited'
<1>1. Accepted' = Accepted  BY DEF Accepted
<1>2. \A k \in Accepted : k[1] = "users" /\ k \in DOMAIN rows  BY DEF Accepted
<1>3. \A k \in Accepted : rows'[k].val = "live" => rows[k].val = "live"  BY <1>2
<1>4. rows'[Invite].val = "accepted" <=> Accepted' # {}  BY <1>1 DEF Invited
<1>5. \A j, k \in Accepted' : rows'[j].val = "live" /\ rows'[k].val = "live" => j = k
  BY <1>1, <1>3 DEF Invited
<1>6. ASSUME NEW x \in Connections, owner'[x] \in Acceptors, at'[owner'[x]] >= 2
      PROVE  /\ \A k \in Accepted' : rows'[k].val # "live"
             /\ \A y \in Connections : owner'[y] \in Acceptors /\ at'[owner'[y]] >= 2 => y = x
  <2>1. owner[x] \in Acceptors /\ at[owner[x]] >= 2  BY <1>6
  <2>2. \A k \in Accepted : rows[k].val # "live"  BY <2>1 DEF Invited
  <2>3. \A y \in Connections : owner[y] \in Acceptors /\ at[owner[y]] >= 2 => y = x
    BY <2>1 DEF Invited
  <2> QED  BY <1>1, <1>3, <2>2, <2>3
<1> QED  BY <1>4, <1>5, <1>6 DEF Invited

\* A commit of an acceptance, which holds the one user with the email.
LEMMA AcceptanceCommits ==
  ASSUME Shaped, Scripted, Held, Written, Invited, NEW c \in Acceptors, Commits(c)
  PROVE  Invited'
<1> DEFINE x == Conn(c)
           user == <<"users", c>>
<1>1. /\ x \in Connections /\ owner[x] = c /\ rows' = View(x) /\ at' = at
      /\ state[c] = "open" /\ at[c] = Len(script[c]) /\ c \in Requests
  BY DEF Commits, Inside
<1>2. at[c] = 3
  <2>1. script[c] = AcceptOrder  BY <1>1 DEF Scripted
  <2> QED  BY <1>1, <2>1 DEF AcceptOrder
<1>3. user \in DOMAIN work[x] /\ Invite \in DOMAIN work[x]  BY <1>1, <1>2 DEF Written
<1>4. user[1] = "users" /\ Invite[1] = "invite_tokens" /\ c \notin Erasers \cup Destroyers
  BY Apart DEF Invite
<1>5. /\ work[x][user] # Gone /\ work[x][Invite] # Gone /\ work[x][Invite].val = "accepted"
  <2>1. WrittenBy(c, user, work[x][user]) /\ WrittenBy(c, Invite, work[x][Invite])
    BY <1>1, <1>3 DEF Written
  <2> QED  BY <1>4, <2>1 DEF WrittenBy
<1>6. Invite \in DOMAIN rows' /\ rows'[Invite].val = "accepted" /\ user \in DOMAIN rows'
  BY <1>1, <1>3, <1>5, ViewIs
<1>7. user # Owner  BY <1>1, Apart DEF Owner
<1>8. user \in Accepted'  BY <1>4, <1>6, <1>7 DEF Accepted
<1>9. ASSUME NEW k \in Accepted', rows'[k].val = "live" PROVE k = user
  <2>1. k \in DOMAIN View(x) /\ k[1] = "users" /\ k # Owner /\ View(x)[k].val = "live"
    BY <1>1, <1>9 DEF Accepted
  <2>2. CASE k \in DOMAIN work[x]
    <3>1. WrittenBy(c, k, work[x][k])  BY <1>1, <2>2 DEF Written
    <3> QED  BY <1>4, <2>1, <3>1 DEF WrittenBy
  <2>3. CASE k \notin DOMAIN work[x]
    <3>1. k \in DOMAIN rows /\ rows[k].val = "live"  BY <2>1, <2>3, ViewIs
    <3>2. k \in Accepted  BY <2>1, <3>1 DEF Accepted
    <3> QED  BY <1>1, <1>2, <3>1, <3>2 DEF Invited
  <2> QED  BY <2>2, <2>3
<1>10. ASSUME NEW y \in Connections, owner'[y] \in Acceptors, at'[owner'[y]] >= 2 PROVE FALSE
  <2>1. owner'[x] = None /\ (y # x => owner'[y] = owner[y])  BY EndIs
  <2>2. y # x  BY <1>10, <2>1, Apart
  <2>3. owner[y] \in Acceptors /\ at[owner[y]] >= 2  BY <1>1, <1>10, <2>1, <2>2
  <2> QED  BY <1>1, <1>2, <2>2, <2>3 DEF Invited
<1> QED  BY <1>6, <1>8, <1>9, <1>10 DEF Invited

\* A commit of anything else.
LEMMA OthersCommit ==
  ASSUME Shaped, Scripted, Held, Written, SchemaSteps, [Next]_vars, Invited,
         NEW c \in Requests \ Acceptors, Commits(c)
  PROVE  Invited'
<1> DEFINE x == Conn(c)
<1>1. /\ x \in Connections /\ owner[x] = c /\ rows' = View(x) /\ at' = at  BY DEF Commits, Inside
<1>2. \A k \in DOMAIN work[x] : WrittenBy(c, k, work[x][k])  BY <1>1 DEF Written
<1>3. Invite \notin DOMAIN work[x]
  <2>1. Invite[1] = "invite_tokens"  BY DEF Invite
  <2> QED  BY <1>2, <2>1 DEF WrittenBy
<1>4. Invite \in DOMAIN rows /\ rows[Invite] # Gone  BY DEF Invited, Written
<1>5. Invite \in DOMAIN rows' /\ rows'[Invite] = rows[Invite]  BY <1>1, <1>3, <1>4, ViewIs
<1>6. \A k \in DOMAIN work[x] : k[1] = "users" => k \in DOMAIN rows /\ work[x][k].val = "erased"
  BY <1>2 DEF WrittenBy
<1>7. ASSUME NEW k, k[1] = "users" PROVE k \in DOMAIN rows' <=> k \in DOMAIN rows
  <2>1. k \in DOMAIN rows' => k \in DOMAIN rows  BY <1>1, <1>6, <1>7, ViewIs
  <2>2. k \in DOMAIN rows => k \in DOMAIN rows'  BY <1>7, UsersStay
  <2> QED  BY <2>1, <2>2
<1>8. ASSUME NEW k \in DOMAIN rows, k[1] = "users", rows'[k].val = "live" PROVE rows[k].val = "live"
  <2>1. k \in DOMAIN View(x) /\ View(x)[k].val = "live"  BY <1>1, <1>7, <1>8
  <2>2. k \notin DOMAIN work[x]
    <3>1. k \in DOMAIN work[x] => View(x)[k] = work[x][k]  BY <2>1, ViewIs
    <3> QED  BY <1>6, <1>8, <2>1, <3>1
  <2> QED  BY <2>1, <2>2, ViewIs
<1>9. ASSUME NEW y \in Connections, owner'[y] \in Acceptors, at'[owner'[y]] >= 2
      PROVE  owner[y] = owner'[y] /\ at[owner[y]] >= 2
  <2>1. owner'[x] = None /\ (y # x => owner'[y] = owner[y])  BY EndIs
  <2>2. owner'[y] = owner[y]  BY <1>9, <2>1, Apart
  <2> QED  BY <1>1, <1>9, <2>2
<1> QED  BY <1>5, <1>7, <1>8, <1>9, InvitedStays

\* An acceptance inserts its user only when nobody has the email, not even
\* uncommitted.
LEMMA InsertKeepsInvited ==
  ASSUME Shaped, Scripted, Held, Written, Invited, NEW c, InsertsUser(c)
  PROVE  Invited'
<1> DEFINE x == Conn(c)
           ch == Put(<<"users", c>>, [up |-> {Org}, val |-> "live"])
<1>1. /\ c \in Acceptors /\ Holders(x) = {} /\ \A k \in Locked(x) : k[1] # "users"
      /\ Statement(c, ch) /\ script[c][at[c] + 1] = "insert"
  BY DEF InsertsUser
<1>2. /\ Inside(c) /\ x \in Connections /\ owner[x] = c /\ c \in Requests
      /\ rows' = rows /\ owner' = owner
  BY <1>1 DEF Statement, Inside
<1>3. at[c] = 1  BY <1>1, <1>2, AcceptScript DEF Statement
<1>4. at'[c] = 2 /\ \A d \in Requests \ {c} : at'[d] = at[d]
  <2>1. at'[c] = at[c] + 1 /\ \A d \in Requests \ {c} : at'[d] = at[d]  BY <1>1, StatementIs
  <2> QED  BY <1>3, <2>1
<1>5. ASSUME NEW k \in Accepted PROVE rows[k].val # "live"
  <2> SUFFICES ASSUME rows[k].val = "live" PROVE FALSE  OBVIOUS
  <2>1. k \in DOMAIN rows /\ k[1] = "users" /\ k # Owner  BY DEF Accepted
  <2>2. k \notin DOMAIN work[x]
    <3> SUFFICES ASSUME k \in DOMAIN work[x] PROVE FALSE  OBVIOUS
    <3>1. WrittenBy(c, k, work[x][k])  BY <1>2 DEF Written
    <3>2. c \notin Erasers  BY <1>1, Apart
    <3>3. k = <<"users", c>>  BY <2>1, <3>1, <3>2 DEF WrittenBy
    <3>4. <<"users", c>> \notin DOMAIN work[x]  BY <1>1, <1>2, <1>3 DEF Written
    <3> QED  BY <3>3, <3>4
  <2>3. k \in DOMAIN View(x) /\ View(x)[k] = rows[k]  BY <2>1, <2>2, ViewIs DEF Written
  <2>4. k \in Holders(x)  BY <2>1, <2>3 DEF Holders
  <2> QED  BY <1>1, <2>4
<1>6. ASSUME NEW y \in Connections, y # x, owner[y] \in Acceptors, at[owner[y]] >= 2 PROVE FALSE
  <2>1. <<"users", owner[y]>> \in DOMAIN work[y]  BY <1>6 DEF Written
  <2>2. <<"users", owner[y]>> \in Locked(x)  BY <1>6, <2>1 DEF Locked
  <2>3. <<"users", owner[y]>>[1] = "users"  OBVIOUS
  <2> QED  BY <1>1, <2>2, <2>3
<1>7. ASSUME NEW y \in Connections, owner'[y] \in Acceptors, at'[owner'[y]] >= 2 PROVE y = x
  <2>1. CASE owner[y] = c  BY <1>1, <1>2, <2>1, Apart DEF Held
  <2>2. CASE owner[y] # c
    <3>1. owner[y] \in Requests  BY <1>2, <1>7, Apart
    <3> QED  BY <1>2, <1>4, <1>6, <1>7, <2>2, <3>1
  <2> QED  BY <2>1, <2>2
<1>8. Accepted' = Accepted  BY <1>2 DEF Accepted
<1> QED  BY <1>2, <1>5, <1>7, <1>8 DEF Invited

LEMMA InvitedStep ==
  ASSUME Shaped, Scripted, Held, Written, SchemaSteps, Invited, [Next]_vars
  PROVE  Invited'
<1>0. Invite \in DOMAIN rows  BY DEF Invited
<1>1. ASSUME rows' = rows,
             \A x \in Connections : owner'[x] \in Acceptors /\ at'[owner'[x]] >= 2 =>
               owner[x] = owner'[x] /\ at[owner[x]] >= 2
      PROVE  Invited'
  BY <1>0, <1>1, InvitedStays
<1>2. CASE Idle  BY <1>1, <1>2 DEF Idle
<1>3. CASE Crash
  <2>1. rows' = rows /\ \A x \in Connections : owner'[x] = None  BY <1>3 DEF Crash
  <2> QED  BY <1>1, <2>1, Apart
<1>4. ASSUME NEW c \in Requests, Starts(c) \/ Refuses(c) PROVE Invited'
  BY <1>1, <1>4 DEF Starts, Refuses
<1>5. ASSUME NEW c \in Requests, Begins(c) PROVE Invited'
  <2>1. rows' = rows /\ at' = at /\ at[c] = 0  BY <1>5 DEF Begins, Scripted
  <2>2. \A x \in Connections : owner'[x] = owner[x] \/ owner'[x] = c
    BY <1>5 DEF Begins, Shaped
  <2> QED  BY <1>1, <2>1, <2>2
<1>6. ASSUME NEW c \in Requests, Undone(c) PROVE Invited'
  <2>1. rows' = rows /\ at' = at  BY <1>6 DEF Undone
  <2>2. \A x \in Connections : owner'[x] = owner[x] \/ owner'[x] = None  BY <1>6, EndIs
  <2> QED  BY <1>1, <2>1, <2>2, Apart
<1>7. ASSUME NEW c \in Requests, Inserts(c) PROVE Invited'
  <2>1. owner' = owner /\ c \in Writers  BY <1>7 DEF Inserts
  <2>2. \A d \in Requests \ {c} : at'[d] = at[d]  BY <1>7, InsertsIs
  <2>3. \A x \in Connections : owner'[x] \in Acceptors /\ at'[owner'[x]] >= 2 =>
          owner[x] = owner'[x] /\ at[owner[x]] >= 2
    BY <2>1, <2>2, Apart
  <2>4. CASE rows' = rows  BY <1>1, <2>3, <2>4
  <2>5. CASE /\ DOMAIN rows' = DOMAIN rows \cup {NextKey(c)}
             /\ \A k \in DOMAIN rows \ {NextKey(c)} : rows'[k] = rows[k]
    <3>1. NextKey(c)[1] # "users" /\ NextKey(c) # Invite  BY <1>7, NextRowIs
    <3>2. Invite \in DOMAIN rows' /\ rows'[Invite] = rows[Invite]  BY <1>0, <2>5, <3>1
    <3>3. \A k : k[1] = "users" => (k \in DOMAIN rows' <=> k \in DOMAIN rows)  BY <2>5, <3>1
    <3>4. \A k \in DOMAIN rows : k[1] = "users" /\ rows'[k].val = "live" => rows[k].val = "live"
      BY <2>5, <3>1
    <3> QED  BY <2>3, <3>2, <3>3, <3>4, InvitedStays
  <2>6. \/ rows' = rows
        \/ /\ DOMAIN rows' = DOMAIN rows \cup {NextKey(c)}
           /\ \A k \in DOMAIN rows \ {NextKey(c)} : rows'[k] = rows[k]
    BY <1>7, InsertsIs
  <2> QED  BY <2>4, <2>5, <2>6
<1>8. ASSUME NEW c \in Requests, Commits(c) PROVE Invited'
  BY <1>8, AcceptanceCommits, OthersCommit
<1>9. ASSUME NEW c \in Requests, Deletes(c) \/ Rechecks(c) \/ Marks(c) \/ Erases(c)
      PROVE  Invited'
  <2>1. PICK ch : Statement(c, ch)  BY <1>9, SomeStatement
  <2>2. rows' = rows /\ owner' = owner  BY <1>9, SomeStatement
  <2>3. at'[c] = at[c] + 1 /\ \A d \in Requests \ {c} : at'[d] = at[d]  BY <2>1, StatementIs
  <2>4. c \in Acceptors /\ at'[c] >= 2 => at[c] >= 2
    <3>1. CASE Rechecks(c)
      <4>1. at[c] = 0  BY <2>1, <3>1, AcceptScript DEF Rechecks, Statement
      <4> QED  BY <2>3, <4>1
    <3>2. CASE Marks(c)
      <4>1. at[c] = 2  BY <2>1, <3>2, AcceptScript DEF Marks, Statement
      <4> QED  BY <4>1
    <3>3. CASE Deletes(c) \/ Erases(c)  BY <3>3, Apart DEF Deletes, Erases
    <3> QED  BY <1>9, <3>1, <3>2, <3>3
  <2>5. \A x \in Connections : owner'[x] \in Acceptors /\ at'[owner'[x]] >= 2 =>
          owner[x] = owner'[x] /\ at[owner[x]] >= 2
    BY <2>2, <2>3, <2>4, Apart
  <2> QED  BY <1>1, <2>2, <2>5
<1> QED  BY <1>2, <1>3, <1>4, <1>5, <1>6, <1>7, <1>8, <1>9, InsertKeepsInvited, Kinds

-----------------------------------------------------------------------------
\* What rows refer to.

\* A row that refers to none but the organisation and the owner.
LEMMA RefersToFirst ==
  ASSUME NEW k, NEW row, row.up \subseteq {Org, Owner}
  PROVE  Refers(k, row)
<1>1. Session \notin {Org, Owner}  BY DEF Session, Org, Owner
<1> QED  BY <1>1 DEF Refers

LEMMA ReferringInit == ASSUME Init PROVE Referring
<1>1. rows = FirstRows /\ \A x \in Connections : DOMAIN work[x] = {}  BY DEF Init, NoRows
<1>2. \A k \in DOMAIN rows : rows[k].up \subseteq {Org, Owner}  BY <1>1 DEF FirstRows
<1> QED  BY <1>1, <1>2, RefersToFirst DEF Referring

LEMMA ViewRefers ==
  ASSUME Referring, NEW x \in Connections, NEW k \in DOMAIN View(x)
  PROVE  Refers(k, View(x)[k])
<1>1. CASE k \in DOMAIN work[x]
  <2>1. View(x)[k] = work[x][k]  BY <1>1, ViewIs
  <2> QED  BY <1>1, <2>1 DEF Referring
<1>2. CASE k \notin DOMAIN work[x]
  <2>1. k \in DOMAIN rows /\ View(x)[k] = rows[k]  BY <1>2, ViewIs
  <2> QED  BY <2>1 DEF Referring
<1> QED  BY <1>1, <1>2

LEMMA StatementRefers ==
  ASSUME Shaped, Referring, NEW c, NEW ch, Statement(c, ch), \A k \in DOMAIN ch : Refers(k, ch[k])
  PROVE  Referring'
<1>1. rows' = rows  BY DEF Statement
<1>2. ASSUME NEW x \in Connections, NEW k \in DOMAIN work'[x] PROVE Refers(k, work'[x][k])
  <2>1. CASE x # Conn(c)
    <3>1. work'[x] = work[x]  BY <2>1, StatementIs
    <3> QED  BY <1>2, <3>1 DEF Referring
  <2>2. CASE x = Conn(c)
    <3>1. /\ DOMAIN work'[x] = DOMAIN ch \cup DOMAIN work[x]
          /\ \A j \in DOMAIN ch : work'[x][j] = ch[j]
          /\ \A j \in DOMAIN work[x] \ DOMAIN ch : work'[x][j] = work[x][j]
      BY <2>2, StatementIs
    <3>2. CASE k \in DOMAIN ch  BY <3>1, <3>2
    <3>3. CASE k \notin DOMAIN ch
      <4>1. k \in DOMAIN work[x] /\ work'[x][k] = work[x][k]  BY <1>2, <3>1, <3>3
      <4> QED  BY <4>1 DEF Referring
    <3> QED  BY <3>2, <3>3
  <2> QED  BY <2>1, <2>2
<1> QED  BY <1>1, <1>2 DEF Referring, Refers

LEMMA ReferringStep ==
  ASSUME Shaped, Scripted, Held, Written, SchemaSteps, Referring, [Next]_vars
  PROVE  Referring'
<1>1. ASSUME rows' = rows, work' = work PROVE Referring'
  BY <1>1 DEF Referring, Refers
<1>2. CASE Idle  BY <1>1, <1>2 DEF Idle
<1>3. CASE Crash
  <2>1. rows' = rows /\ \A x \in Connections : DOMAIN work'[x] = {}  BY <1>3 DEF Crash, NoRows
  <2> QED  BY <2>1 DEF Referring, Refers
<1>4. ASSUME NEW c \in Requests, Starts(c) \/ Begins(c) \/ Refuses(c) PROVE Referring'
  BY <1>1, <1>4 DEF Starts, Begins, Refuses
<1>5. ASSUME NEW c \in Requests, Undone(c) \/ Commits(c) PROVE Referring'
  <2>1. /\ work'[Conn(c)] = NoRows /\ DOMAIN NoRows = {}
        /\ \A y \in Connections \ {Conn(c)} : work'[y] = work[y]
    BY <1>5, EndIs
  <2>2. Conn(c) \in Connections /\ (rows' = rows \/ rows' = View(Conn(c)))
    BY <1>5 DEF Undone, Commits, Inside
  <2>3. \A k \in DOMAIN rows' : Refers(k, rows'[k])
    <3>1. \A k \in DOMAIN View(Conn(c)) : Refers(k, View(Conn(c))[k])  BY <2>2, ViewRefers
    <3> QED  BY <2>2, <3>1 DEF Referring
  <2>4. \A x \in Connections : \A k \in DOMAIN work'[x] : Refers(k, work'[x][k])
    BY <2>1 DEF Referring
  <2> QED  BY <2>3, <2>4 DEF Referring, Refers
<1>6. ASSUME NEW c \in Requests, Inserts(c) PROVE Referring'
  <2>1. Refers(NextKey(c), NextIsRow(c))  BY <1>6, NextRowIs DEF NextIsRow
  <2>2. CASE owner[Conn(c)] = None
    <3>1. /\ work' = work
          /\ DOMAIN rows' = DOMAIN rows \cup {NextKey(c)} /\ rows'[NextKey(c)] = NextIsRow(c)
          /\ \A k \in DOMAIN rows \ {NextKey(c)} : rows'[k] = rows[k]
      BY <1>6, <2>2, InsertsIs
    <3>2. \A k \in DOMAIN rows' : Refers(k, rows'[k])  BY <2>1, <3>1 DEF Referring
    <3> QED  BY <3>1, <3>2 DEF Referring, Refers
  <2>3. CASE owner[Conn(c)] # None
    <3>1. /\ rows' = rows
          /\ \A y \in Connections \ {Conn(c)} : work'[y] = work[y]
          /\ DOMAIN work'[Conn(c)] = DOMAIN work[Conn(c)] \cup {NextKey(c)}
          /\ work'[Conn(c)][NextKey(c)] = NextIsRow(c)
          /\ \A k \in DOMAIN work[Conn(c)] \ {NextKey(c)} : work'[Conn(c)][k] = work[Conn(c)][k]
      BY <1>6, <2>3, InsertsIs
    <3>2. \A x \in Connections : \A k \in DOMAIN work'[x] : Refers(k, work'[x][k])
      BY <2>1, <3>1 DEF Referring
    <3> QED  BY <3>1, <3>2 DEF Referring, Refers
  <2> QED  BY <2>2, <2>3
<1>7. ASSUME NEW c \in Requests, Deletes(c) PROVE Referring'
  <2>1. PICK t : Statement(c, [k \in Of(Conn(c), t) |-> Gone])  BY <1>7 DEF Deletes
  <2>2. \A k : Refers(k, Gone)  BY RefersToFirst DEF Gone
  <2> QED  BY <2>1, <2>2, StatementRefers
<1>8. ASSUME NEW c \in Requests, Rechecks(c) PROVE Referring'
  <2>1. Statement(c, NoRows) /\ DOMAIN NoRows = {}  BY <1>8 DEF Rechecks, NoRows
  <2> QED  BY <2>1, StatementRefers
<1>9. ASSUME NEW c \in Requests, InsertsUser(c) PROVE Referring'
  <2> DEFINE ch == Put(<<"users", c>>, [up |-> {Org}, val |-> "live"])
  <2>1. \A k \in DOMAIN ch : ch[k].up \subseteq {Org, Owner}  BY DEF Put
  <2>2. Statement(c, ch)  BY <1>9 DEF InsertsUser
  <2> HIDE DEF ch
  <2> QED  BY <2>1, <2>2, RefersToFirst, StatementRefers
<1>10. ASSUME NEW c \in Requests, Marks(c) PROVE Referring'
  <2> DEFINE ch == Put(Invite, [up |-> {Org, Owner}, val |-> "accepted"])
  <2>1. \A k \in DOMAIN ch : ch[k].up \subseteq {Org, Owner}  BY DEF Put
  <2>2. Statement(c, ch)  BY <1>10 DEF Marks
  <2> HIDE DEF ch
  <2> QED  BY <2>1, <2>2, RefersToFirst, StatementRefers
<1>11. ASSUME NEW c \in Requests, Erases(c) PROVE Referring'
  <2>1. PICK hit : hit \subseteq DOMAIN View(Conn(c)) /\ Statement(c, Erased(c, hit))
    BY <1>11 DEF Erases
  <2>2. Conn(c) \in Connections  BY <2>1 DEF Statement, Inside
  <2>3. ASSUME NEW k \in DOMAIN Erased(c, hit) PROVE Refers(k, Erased(c, hit)[k])
    <3>1. k \in hit /\ Erased(c, hit)[k].up = View(Conn(c))[k].up  BY <2>3 DEF Erased
    <3>2. Refers(k, View(Conn(c))[k])  BY <2>1, <2>2, <3>1, ViewRefers
    <3> QED  BY <3>1, <3>2 DEF Refers
  <2> QED  BY <2>1, <2>3, StatementRefers
<1> QED  BY <1>2, <1>3, <1>4, <1>5, <1>6, <1>7, <1>8, <1>9, <1>10, <1>11, Kinds

-----------------------------------------------------------------------------
\* What a deletion leaves behind it.

\* What a deletion has been through, and is still there, was inserted since.
DeletedOne(d, k) ==
  Session \in View(Conn(d))[k].up /\ k[1] # "sessions"
    /\ (\E i \in 1..at[d] : k[1] = DeleteOrder[i]) => k \in late[d]

LEMMA DeletedParts ==
  Deleted <=> \A d \in Destroyers : state[d] = "open" =>
                \A k \in DOMAIN View(Conn(d)) : DeletedOne(d, k)
  BY DEF Deleted, DeletedOne

\* A deletion on whose connection nothing happened, and that sees of the rows it
\* deletes what it saw.
LEMMA DeletedStays ==
  ASSUME Deleted, NEW d \in Destroyers, state[d] = "open", at'[d] = at[d],
         NEW k \in DOMAIN (View(Conn(d)))', late[d] \subseteq late'[d],
         \/ k \in late'[d]
         \/ \A i \in 1..11 : k[1] # DeleteOrder[i]
         \/ k \in DOMAIN View(Conn(d)) /\ (View(Conn(d)))'[k] = View(Conn(d))[k],
         at[d] \in 0..11
  PROVE  DeletedOne(d, k)'
  BY DeletedParts DEF DeletedOne

\* What a connection sees after a step.
LEMMA ViewNext ==
  ASSUME NEW d, backend' = backend
  PROVE  /\ \A k : k \in DOMAIN (View(Conn(d)))' <=>
              \/ k \in DOMAIN work'[Conn(d)] /\ work'[Conn(d)][k] # Gone
              \/ k \notin DOMAIN work'[Conn(d)] /\ k \in DOMAIN rows' /\ rows'[k] # Gone
         /\ \A k \in DOMAIN (View(Conn(d)))' :
              (View(Conn(d)))'[k] = IF k \in DOMAIN work'[Conn(d)] THEN work'[Conn(d)][k] ELSE rows'[k]
<1>1. Conn(d)' = Conn(d)  BY DEF Conn
<1> QED  BY <1>1 DEF View

\* If nothing it can see changed, a deletion sees the same.
LEMMA ViewSame ==
  ASSUME NEW d, backend' = backend, rows' = rows, work'[Conn(d)] = work[Conn(d)]
  PROVE  (View(Conn(d)))' = View(Conn(d))
<1>1. Conn(d)' = Conn(d)  BY DEF Conn
<1> QED  BY <1>1 DEF View

LEMMA DeletedInit == ASSUME Init PROVE Deleted
<1>1. \A d \in Destroyers : state[d] # "open"  BY Apart DEF Init
<1> QED  BY <1>1 DEF Deleted

DeletedSame(d) ==
  /\ state[d] = "open" /\ at'[d] = at[d] /\ late[d] \subseteq late'[d]

LEMMA DeletionScript ==
  ASSUME Shaped, Scripted, Held, NEW d \in Destroyers, state[d] = "open"
  PROVE  /\ d \in Requests \ Writers /\ Conn(d) \in Connections /\ owner[Conn(d)] = d
         /\ script[d] = DeleteOrder /\ at[d] \in 0..11
<1>1. d \in Requests \ Writers /\ at[d] \in Nat  BY Apart DEF Shaped
<1>2. script[d] = DeleteOrder /\ at[d] <= Len(script[d])  BY <1>1 DEF Scripted
<1>3. Len(DeleteOrder) = 11  BY DEF DeleteOrder
<1> QED  BY <1>1, <1>2, <1>3, ConnIs DEF Held

\* A step that leaves its view alone.
LEMMA DeletedQuiet ==
  ASSUME Shaped, Scripted, Held, Deleted, NEW d \in Destroyers, DeletedSame(d),
         backend' = backend, rows' = rows, work'[Conn(d)] = work[Conn(d)],
         NEW k \in DOMAIN (View(Conn(d)))'
  PROVE  DeletedOne(d, k)'
<1>1. (View(Conn(d)))' = View(Conn(d))  BY ViewSame
<1>2. k \in DOMAIN View(Conn(d)) /\ (View(Conn(d)))'[k] = View(Conn(d))[k]  BY <1>1
<1>3. at[d] \in 0..11  BY DeletionScript DEF DeletedSame
<1> QED  BY <1>2, <1>3, DeletedStays DEF DeletedSame

\* An insert is among the late ones.
LEMMA DeletedInserts ==
  ASSUME Shaped, Scripted, Held, Deleted, NEW c, Inserts(c),
         NEW d \in Destroyers, state'[d] = "open",
         NEW k \in DOMAIN (View(Conn(d)))'
  PROVE  DeletedOne(d, k)'
<1>1. /\ c \in Writers /\ backend' = backend
      /\ late' = [e \in Destroyers |-> late[e] \cup {NextKey(c)}]
  BY DEF Inserts
<1>2. c # d /\ d \in Requests  BY <1>1, Apart
<1>3. late'[d] = late[d] \cup {NextKey(c)}  BY <1>1
<1>4. state[d] = "open" /\ at'[d] = at[d]
  <2>1. \A e \in Requests \ {c} : at'[e] = at[e]  BY InsertsIs
  <2>2. \A e \in Requests \ {c} : state'[e] = state[e]  BY InsertsIs
  <2> QED  BY <1>2, <2>1, <2>2
<1>5. at[d] \in 0..11 /\ Conn(d) \in Connections  BY <1>4, DeletionScript
<1>6. CASE k = NextKey(c)  BY <1>3, <1>4, <1>5, <1>6, DeletedStays
<1>7. CASE k # NextKey(c)
  <2>1. /\ k \in DOMAIN work'[Conn(d)] <=> k \in DOMAIN work[Conn(d)]
        /\ k \in DOMAIN work[Conn(d)] => work'[Conn(d)][k] = work[Conn(d)][k]
        /\ k \in DOMAIN rows' <=> k \in DOMAIN rows
        /\ k \in DOMAIN rows => rows'[k] = rows[k]
    <3>1. CASE owner[Conn(c)] = None
      <4>1. /\ work' = work /\ DOMAIN rows' = DOMAIN rows \cup {NextKey(c)}
            /\ \A j \in DOMAIN rows \ {NextKey(c)} : rows'[j] = rows[j]
        BY <3>1, InsertsIs
      <4> QED  BY <1>7, <4>1
    <3>2. CASE owner[Conn(c)] # None
      <4>1. /\ rows' = rows /\ \A y \in Connections \ {Conn(c)} : work'[y] = work[y]
            /\ DOMAIN work'[Conn(c)] = DOMAIN work[Conn(c)] \cup {NextKey(c)}
            /\ \A j \in DOMAIN work[Conn(c)] \ {NextKey(c)} : work'[Conn(c)][j] = work[Conn(c)][j]
        BY <3>2, InsertsIs
      <4>2. CASE Conn(d) = Conn(c)  BY <1>7, <4>1, <4>2
      <4>3. CASE Conn(d) # Conn(c)  BY <1>5, <4>1, <4>3
      <4> QED  BY <4>2, <4>3
    <3> QED  BY <3>1, <3>2
  <2>2. k \in DOMAIN View(Conn(d)) /\ (View(Conn(d)))'[k] = View(Conn(d))[k]
    BY <1>1, <2>1, ViewIs, ViewNext
  <2> QED  BY <1>3, <1>4, <1>5, <2>2, DeletedStays
<1> QED  BY <1>6, <1>7

\* What another transaction commits, a deletion sees on Postgres only, where it
\* is no row of a table the deletion goes through.
LEMMA DeletedCommits ==
  ASSUME Shaped, Scripted, Held, Written, Deleted, NEW c, Commits(c),
         NEW d \in Destroyers, state'[d] = "open",
         NEW k \in DOMAIN (View(Conn(d)))'
  PROVE  DeletedOne(d, k)'
<1>1. /\ owner[Conn(c)] = c /\ Conn(c) \in Connections /\ c \in Requests
      /\ UNCHANGED <<backend, late, at>> /\ rows' = View(Conn(c))
  BY DEF Commits, Inside, Others
<1>2. c # d /\ state[d] = "open"  BY EndIs, Apart
<1>3. at[d] \in 0..11 /\ Conn(d) \in Connections /\ owner[Conn(d)] = d
  BY <1>2, DeletionScript
<1>4. Conn(c) # Conn(d)  BY <1>1, <1>2, <1>3
<1>5. backend = "postgres"
  <2>1. backend # "sqlite"  BY <1>4, ConnIs
  <2> QED  BY <2>1 DEF Shaped, AllBackends
<1>6. work'[Conn(d)] = work[Conn(d)]  BY <1>3, <1>4, EndIs
<1>7. CASE k \in DOMAIN work[Conn(d)]
  <2>1. k \in DOMAIN View(Conn(d)) /\ (View(Conn(d)))'[k] = View(Conn(d))[k]
    BY <1>1, <1>6, <1>7, ViewIs, ViewNext
  <2> QED  BY <1>1, <1>2, <1>3, <2>1, DeletedStays
<1>8. CASE k \notin DOMAIN work[Conn(d)]
  <2>1. k \in DOMAIN rows' /\ (View(Conn(d)))'[k] = rows'[k]  BY <1>1, <1>6, <1>8, ViewNext
  <2>2. CASE k \in DOMAIN work[Conn(c)]
    <3>1. work[Conn(c)][k] # Gone  BY <1>1, <2>1, <2>2, ViewIs
    <3>2. WrittenBy(c, k, work[Conn(c)][k])  BY <1>1, <2>2 DEF Written
    <3>3. k[1] \in {"users", "invite_tokens", "api_tokens"}  BY <1>5, <3>1, <3>2 DEF WrittenBy
    <3>4. \A i \in 1..11 : k[1] # DeleteOrder[i]  BY <3>3 DEF DeleteOrder
    <3> QED  BY <1>1, <1>2, <1>3, <3>4, DeletedStays
  <2>3. CASE k \notin DOMAIN work[Conn(c)]
    <3>1. k \in DOMAIN rows /\ rows'[k] = rows[k] /\ rows[k] # Gone
      BY <1>1, <2>1, <2>3, ViewIs
    <3>2. k \in DOMAIN View(Conn(d)) /\ (View(Conn(d)))'[k] = View(Conn(d))[k]
      BY <1>8, <2>1, <3>1, ViewIs
    <3> QED  BY <1>1, <1>2, <1>3, <3>2, DeletedStays
  <2> QED  BY <2>2, <2>3
<1> QED  BY <1>7, <1>8

\* A statement of the deletion takes what there is of its table.
LEMMA DeletedDeletes ==
  ASSUME Shaped, Scripted, Held, Deleted, NEW d, Deletes(d),
         NEW k \in DOMAIN (View(Conn(d)))'
  PROVE  DeletedOne(d, k)'
<1>1. PICK t \in Range(DeleteOrder) :
        /\ d \in Destroyers /\ Statement(d, [j \in Of(Conn(d), t) |-> Gone])
        /\ script[d][at[d] + 1] = t
  BY DEF Deletes
<1> DEFINE K == Of(Conn(d), t)
           ch == [j \in K |-> Gone]
<1>2. /\ Inside(d) /\ rows' = rows /\ late' = late /\ backend' = backend /\ at[d] < Len(script[d])
      /\ state[d] = "open"
  BY <1>1 DEF Statement, Inside, Others
<1>3. /\ at[d] \in 0..11 /\ script[d] = DeleteOrder /\ d \in Destroyers
  BY <1>1, <1>2, DeletionScript
<1>4. at'[d] = at[d] + 1 /\ at[d] \in 0..10 /\ t = DeleteOrder[at[d] + 1]
  <2>1. at'[d] = at[d] + 1  BY <1>1, StatementIs
  <2>2. Len(DeleteOrder) = 11  BY DEF DeleteOrder
  <2> QED  BY <1>1, <1>2, <1>3, <2>1, <2>2
<1>5. /\ DOMAIN work'[Conn(d)] = DOMAIN ch \cup DOMAIN work[Conn(d)]
      /\ \A j \in DOMAIN ch : work'[Conn(d)][j] = ch[j]
      /\ \A j \in DOMAIN work[Conn(d)] \ DOMAIN ch : work'[Conn(d)][j] = work[Conn(d)][j]
  BY <1>1, StatementIs
<1>6. DOMAIN ch = K /\ \A j \in K : ch[j] = Gone  OBVIOUS
<1> HIDE DEF ch
<1>7. k \notin K
  <2> SUFFICES ASSUME k \in K PROVE FALSE  OBVIOUS
  <2>1. k \in DOMAIN work'[Conn(d)] /\ work'[Conn(d)][k] = Gone  BY <1>5, <1>6
  <2> QED  BY <1>2, <2>1, ViewNext
<1>8. k \in DOMAIN View(Conn(d)) /\ (View(Conn(d)))'[k] = View(Conn(d))[k]
  <2>1. /\ k \in DOMAIN work'[Conn(d)] <=> k \in DOMAIN work[Conn(d)]
        /\ k \in DOMAIN work[Conn(d)] => work'[Conn(d)][k] = work[Conn(d)][k]
    BY <1>5, <1>6, <1>7
  <2> QED  BY <1>2, <2>1, ViewIs, ViewNext
<1>9. ~(k[1] = t /\ k[1] # "sessions" /\ Session \in View(Conn(d))[k].up)
  BY <1>7, <1>8 DEF Of
<1>10. DeletedOne(d, k)  BY <1>2, <1>3, <1>8, DeletedParts
<1>11. ASSUME NEW i \in 1..at'[d], k[1] = DeleteOrder[i], k[1] # "sessions",
              Session \in View(Conn(d))[k].up
       PROVE  k \in late[d]
  <2>1. i # at[d] + 1  BY <1>4, <1>9, <1>11
  <2>2. i \in 1..at[d]  BY <1>4, <2>1
  <2> QED  BY <1>10, <1>11, <2>2 DEF DeletedOne
<1> QED  BY <1>2, <1>8, <1>11 DEF DeletedOne

LEMMA DeletedStep ==
  ASSUME Shaped, Scripted, Held, Written, SchemaSteps, Deleted, [Next]_vars
  PROVE  Deleted'
<1> SUFFICES ASSUME NEW d \in Destroyers, state'[d] = "open", NEW k \in DOMAIN (View(Conn(d)))'
             PROVE  DeletedOne(d, k)'
  BY DEF Deleted, DeletedOne
<1>0. d \in Requests \ Writers /\ state \in [Requests -> {"new", "ready", "open", "done", "failed"}]
  BY Apart DEF Shaped
<1>1. CASE Idle  BY <1>1, DeletedQuiet DEF Idle, Others, DeletedSame
<1>2. CASE Crash  BY <1>0, <1>2 DEF Crash
<1>3. ASSUME NEW c \in Requests, Starts(c) \/ Refuses(c) PROVE DeletedOne(d, k)'
  <2>1. DeletedSame(d)  BY <1>0, <1>3 DEF Starts, Refuses, Others, DeletedSame
  <2> QED  BY <1>3, <2>1, DeletedQuiet DEF Starts, Refuses, Others
<1>4. ASSUME NEW c \in Requests, Begins(c) PROVE DeletedOne(d, k)'
  <2>1. CASE c = d
    <3>1. at'[d] = 0  BY <1>4, <2>1 DEF Begins, Scripted
    <3> QED  BY <3>1 DEF DeletedOne
  <2>2. CASE c # d
    <3>1. DeletedSame(d)  BY <1>0, <1>4, <2>2 DEF Begins, DeletedSame, Shaped
    <3> QED  BY <1>4, <3>1, DeletedQuiet DEF Begins
  <2> QED  BY <2>1, <2>2
<1>5. ASSUME NEW c \in Requests, Undone(c) PROVE DeletedOne(d, k)'
  <2>1. c # d /\ state[d] = "open"  BY <1>0, <1>5, EndIs
  <2>2. Conn(d) # Conn(c) /\ Conn(d) \in Connections
    BY <1>5, <2>1, DeletionScript DEF Undone, Inside
  <2>3. work'[Conn(d)] = work[Conn(d)]  BY <1>5, <2>2, EndIs
  <2>4. DeletedSame(d)  BY <1>5, <2>1 DEF Undone, Others, DeletedSame
  <2> QED  BY <1>5, <2>3, <2>4, DeletedQuiet DEF Undone, Others
<1>6. ASSUME NEW c \in Requests, Commits(c) PROVE DeletedOne(d, k)'
  BY <1>6, DeletedCommits
<1>7. ASSUME NEW c \in Requests, Inserts(c) PROVE DeletedOne(d, k)'
  BY <1>7, DeletedInserts
<1>8. ASSUME NEW c \in Requests, NEW ch, Statement(c, ch), c # d PROVE DeletedOne(d, k)'
  <2>1. /\ rows' = rows /\ late' = late /\ backend' = backend /\ state' = state
        /\ owner[Conn(c)] = c
    BY <1>8 DEF Statement, Inside, Others
  <2>2. Conn(d) # Conn(c) /\ Conn(d) \in Connections  BY <1>8, <2>1, DeletionScript
  <2>3. work'[Conn(d)] = work[Conn(d)] /\ at'[d] = at[d]  BY <1>0, <1>8, <2>2, StatementIs
  <2>4. DeletedSame(d)  BY <2>1, <2>3 DEF DeletedSame
  <2> QED  BY <2>1, <2>3, <2>4, DeletedQuiet
<1>9. ASSUME NEW c \in Requests, Deletes(c) PROVE DeletedOne(d, k)'
  <2>1. CASE c = d  BY <1>9, <2>1, DeletedDeletes
  <2>2. CASE c # d  BY <1>8, <1>9, <2>2, SomeStatement
  <2> QED  BY <2>1, <2>2
<1>10. ASSUME NEW c \in Requests, Rechecks(c) \/ InsertsUser(c) \/ Marks(c) \/ Erases(c)
       PROVE  DeletedOne(d, k)'
  <2>1. c # d  BY <1>10, Apart DEF Rechecks, InsertsUser, Marks, Erases
  <2> QED  BY <1>8, <1>10, <2>1, SomeStatement
<1> QED  BY <1>1, <1>2, <1>3, <1>4, <1>5, <1>6, <1>7, <1>9, <1>10, Kinds

-----------------------------------------------------------------------------
\* The theorems.

Inv == SchemaSteps /\ DataInv

LEMMA InvInit == ASSUME Init PROVE Inv
  BY SchemaInit, ShapedInit, ScriptedInit, HeldInit, WrittenInit, AcknowledgedInit, InvitedInit,
     ReferringInit, DeletedInit DEF Inv, DataInv

LEMMA InvStep == ASSUME Inv, [Next]_vars PROVE Inv'
<1>1. /\ SchemaSteps /\ Shaped /\ Scripted /\ Held /\ Written /\ Acknowledged /\ Invited
      /\ Referring /\ Deleted
  BY DEF Inv, DataInv
<1>2. SchemaSteps' /\ Shaped' /\ Scripted' /\ Held' /\ Written'
  BY <1>1, SchemaStep, ShapedStep, ScriptedStep, HeldStep, WrittenStep
<1>3. Acknowledged' /\ Invited' /\ Referring' /\ Deleted'
  BY <1>1, AcknowledgedStep, InvitedStep, ReferringStep, DeletedStep
<1> QED  BY <1>2, <1>3 DEF Inv, DataInv

LEMMA InvHolds == Spec => []Inv
<1>1. Init => Inv  BY InvInit
<1>2. Inv /\ [Next]_vars => Inv'  BY InvStep
<1> QED  BY <1>1, <1>2, PTL DEF Spec

LEMMA StoredIsRows == ASSUME NEW r, Stored(r) PROVE RowsType(r)
  BY DEF Stored, RowsType, Row

\* The shape of the state, whatever the requests do: what the adapters hold of
\* rows, transactions and statements (db/adapter.ts).
LEMMA InvShape == ASSUME Inv PROVE TypeOK
<1>1. SchemaSteps /\ Shaped /\ Scripted  BY DEF Inv, DataInv
<1>2. latestSchemaVersion = 24 /\ Len(Bootstrap) = 21  BY MigrationsAre, BootstrapIs
<1>3. Schemas[latestSchemaVersion] = Whole  BY <1>2, WholeSchema DEF Schemas
<1>4. schema \subseteq Whole \cup T("schema_migrations", {})
  <2>1. CASE backend = "sqlite"  BY <1>1, <1>2, <2>1, SchemaGrows DEF SchemaSteps
  <2>2. CASE backend = "postgres"
    BY <1>1, <1>2, <2>2, WholeSchema DEF SchemaSteps, WithBookkeeping
  <2> QED  BY <1>1, <2>1, <2>2 DEF SchemaSteps, AllBackends
<1>5. mig = None \/ mig.at \in Nat  BY <1>1, <1>2 DEF SchemaSteps, AllBackends
<1>6. version \in 0..latestSchemaVersion + 1  BY <1>1, <1>2 DEF SchemaSteps, AllBackends
<1>7. RowsType(rows) /\ \A x \in Connections : RowsType(work[x])
  BY <1>1, StoredIsRows DEF Shaped
<1>8. DOMAIN script = Requests  BY <1>1 DEF Shaped
<1> QED  BY <1>1, <1>3, <1>4, <1>5, <1>6, <1>7, <1>8 DEF SchemaSteps, Shaped, Scripted, TypeOK

\* Wherever a crash interrupts the start, a file holds the tables of the version
\* it records, and a daemon that serves has all of them, on either database
\* (initializeSchema, initializePostgresSchema).
THEOREM VersionTellsSchemaHolds == Spec => []VersionTellsSchema
<1>1. Inv => VersionTellsSchema
  <2> SUFFICES ASSUME Inv PROVE VersionTellsSchema  OBVIOUS
  <2>1. TypeOK /\ SchemaSteps  BY InvShape DEF Inv
  <2>2. latestSchemaVersion = 24 /\ Len(Bootstrap) = 21  BY MigrationsAre, BootstrapIs
  <2>3. \A v \in 0..24 : Schemas[v] = SchemaAt(v)  BY <2>2 DEF Schemas
  <2>4. backend = "sqlite" /\ version <= latestSchemaVersion => schema = Schemas[version]
    BY <2>1, <2>2, <2>3 DEF SchemaSteps
  <2>5. <<"schema_migrations">> \notin Whole  BY DEF Whole, T
  <2>6. T("schema_migrations", {}) = {<<"schema_migrations">>}  BY DEF T
  <2>7. Whole \ T("schema_migrations", {}) = Whole
        /\ WithBookkeeping \ T("schema_migrations", {}) = Whole
    BY <2>5, <2>6 DEF WithBookkeeping
  <2>8. ASSUME phase = "serving"
        PROVE  /\ version = latestSchemaVersion
               /\ schema \ T("schema_migrations", {}) = Schemas[latestSchemaVersion]
    <3>1. version = latestSchemaVersion /\ schema \in {Whole, WithBookkeeping}
      BY <2>1, <2>2, <2>8, WholeSchema DEF SchemaSteps, AllBackends
    <3> QED  BY <2>2, <2>3, <2>7, <3>1, WholeSchema
  <2> QED  BY <2>1, <2>4, <2>8 DEF VersionTellsSchema
<1> QED  BY <1>1, InvHolds, PTL

\* Every transaction is one request's that is still in it, and a connection that
\* is in none has nothing uncommitted: no error path of the adapters leaves the
\* connection inside a transaction (the adapters' transaction).
LEMMA TransactionsEndHolds == Spec => []TransactionsEnd
<1>1. Inv => TransactionsEnd  BY DEF Inv, DataInv, Held, TransactionsEnd
<1> QED  BY <1>1, InvHolds, PTL

\* A row whose insertion was acknowledged is in the database until its session
\* is deleted, unless it ran inside a transaction of another request, on the
\* connection they share, that did not commit (the adapters' transaction).
THEOREM AckedWritesKeptHolds == Spec => []AckedWritesKept
<1>1. Inv => AckedWritesKept
  <2> SUFFICES ASSUME Inv PROVE AckedWritesKept  OBVIOUS
  <2>1. TransactionsEnd  BY DEF Inv, DataInv, Held, TransactionsEnd
  <2>2. ASSUME NEW a \in acked
        PROVE  \/ a[1] \in DOMAIN rows
               \/ Session \notin DOMAIN rows
               \/ a[2] # None /\ state[a[2]] # "done"
    BY DEF Inv, DataInv, Acknowledged
  <2> QED  BY <2>1, <2>2 DEF AckedWritesKept
<1> QED  BY <1>1, InvHolds, PTL

\* An invite is marked accepted exactly when it made a user, and no two users
\* live with its email, however acceptances, erasures, rollbacks and crashes
\* interleave (AuthStore.acceptInvite, eraseUser).
THEOREM InviteConsistentHolds == Spec => []InviteConsistent
<1>1. Inv => InviteConsistent
  <2> SUFFICES ASSUME Inv PROVE InviteConsistent  OBVIOUS
  <2>1. Invited  BY DEF Inv, DataInv
  <2> DEFINE Live == {k \in Accepted : rows[k].val = "live"}
  <2>2. \A j, k \in Live : j = k  BY <2>1 DEF Invited
  <2>3. Cardinality(Live) <= 1
    <3>1. CASE Live = {}
      <4>1. Cardinality(Live) = 0  BY <3>1, FS_EmptySet
      <4> QED  BY <4>1
    <3>2. CASE Live # {}
      <4>1. PICK k : Live = {k}  BY <2>2, <3>2
      <4>2. Cardinality(Live) = 1  BY <4>1, FS_Singleton
      <4> QED  BY <4>2
    <3> QED  BY <3>1, <3>2
  <2> QED  BY <2>1, <2>3 DEF Invited, InviteConsistent
<1> QED  BY <1>1, InvHolds, PTL

\* What keeps the rows of a table from being deleted, in the order of the
\* deletion, is a child session, a billing event or a row inserted meanwhile.
LEMMA CauseOfRefusal ==
  ASSUME Inv, NEW d \in Destroyers, state[d] = "open", at[d] < Len(script[d]),
         NEW t, script[d][at[d] + 1] = t, Referencing(Conn(d), Of(Conn(d), t)) # {}
  PROVE  \E k \in DOMAIN View(Conn(d)) :
           /\ Session \in View(Conn(d))[k].up
           /\ k[1] \in {"sessions", "billing_events"} \/ k \in late[d]
<1> DEFINE x == Conn(d)
           K == Of(x, t)
<1>1. /\ Shaped /\ Scripted /\ Held /\ Deleted /\ Referring  BY DEF Inv, DataInv
<1>2. x \in Connections /\ script[d] = DeleteOrder /\ at[d] \in 0..11  BY <1>1, DeletionScript
<1>3. at[d] \in 0..10 /\ t = DeleteOrder[at[d] + 1]
  <2>1. Len(DeleteOrder) = 11  BY DEF DeleteOrder
  <2> QED  BY <1>2, <2>1
<1>4. PICK k \in DOMAIN View(x) \ K : View(x)[k].up \cap K # {}  BY DEF Referencing
<1>5. PICK j \in K : j \in View(x)[k].up  BY <1>4
<1>6. Refers(k, View(x)[k])  BY <1>1, <1>2, <1>4, ViewRefers
<1>7. DeletedOne(d, k)  BY <1>1, <1>4, DeletedParts
<1> SUFFICES /\ Session \in View(x)[k].up
             /\ k[1] \in {"sessions", "billing_events"} \/ k \in late[d]
  BY <1>4
<1>8. CASE t = "sessions"
  <2>1. j = Session  BY <1>8 DEF Of
  <2>2. k[1] \in {"messages", "plans", "validate_runs", "git_checkpoints", "file_snapshots",
                  "sessions", "billing_events"}
    BY <1>5, <1>6, <2>1 DEF Refers
  <2>3. at[d] = 10  BY <1>3, <1>8 DEF DeleteOrder
  <2>4. k[1] \in {"sessions", "billing_events"} \/ \E i \in 1..10 : k[1] = DeleteOrder[i]
    BY <2>2 DEF DeleteOrder
  <2> QED  BY <1>5, <1>7, <2>1, <2>3, <2>4 DEF DeletedOne
<1>9. CASE t # "sessions"
  <2>1. j[1] = t /\ j \notin {Org, Owner, Session}
    <3>1. j[1] = t  BY <1>9 DEF Of
    <3>2. t \notin {"organizations", "users"}  BY <1>3 DEF DeleteOrder
    <3>3. Org[1] = "organizations" /\ Owner[1] = "users" /\ Session[1] = "sessions"
      BY DEF Org, Owner, Session
    <3> QED  BY <1>9, <3>1, <3>2, <3>3
  <2>2. /\ Session \in View(x)[k].up
        /\ \/ t = "plans" /\ k[1] \in {"messages", "validate_runs"}
           \/ t = "validate_runs" /\ k[1] = "git_checkpoints"
    BY <1>5, <1>6, <2>1 DEF Refers
  <2>3. k[1] # "sessions" /\ \E i \in 1..at[d] : k[1] = DeleteOrder[i]
    <3>1. CASE t = "plans" /\ k[1] \in {"messages", "validate_runs"}
      <4>1. at[d] = 9  BY <1>3, <3>1 DEF DeleteOrder
      <4>2. DeleteOrder[8] = "validate_runs" /\ DeleteOrder[9] = "messages"  BY DEF DeleteOrder
      <4> QED  BY <3>1, <4>1, <4>2
    <3>2. CASE t = "validate_runs" /\ k[1] = "git_checkpoints"
      <4>1. at[d] = 7  BY <1>3, <3>2 DEF DeleteOrder
      <4>2. DeleteOrder[2] = "git_checkpoints"  BY DEF DeleteOrder
      <4> QED  BY <3>2, <4>1, <4>2
    <3> QED  BY <2>2, <3>1, <3>2
  <2> QED  BY <1>7, <2>2, <2>3 DEF DeletedOne
<1> QED  BY <1>8, <1>9

\* Only a statement of its own fails a deletion.
LEMMA OnlyItsStatementRefuses ==
  ASSUME Inv, [Next]_vars, NEW d \in Destroyers, state[d] = "open", state'[d] = "failed",
         crashes' = crashes
  PROVE  DeleteStatement(d)
<1>1. /\ Shaped /\ Scripted /\ Held /\ Written /\ SchemaSteps  BY DEF Inv, DataInv
<1>2. /\ d \in Requests \ Writers /\ state \in [Requests -> {"new", "ready", "open", "done", "failed"}]
  BY <1>1, Apart DEF Shaped
<1>3. ASSUME NEW c \in Requests, Starts(c) \/ Begins(c) \/ Refuses(c) PROVE FALSE
  <2>1. c # d  BY <1>2, <1>3 DEF Starts, Begins, Refuses
  <2>2. state'[d] = state[d]  BY <1>2, <1>3, <2>1 DEF Starts, Begins, Refuses
  <2> QED  BY <2>2
<1>4. ASSUME NEW c \in Requests, Inserts(c) PROVE FALSE
  <2>1. c # d  BY <1>2, <1>4 DEF Inserts
  <2>2. \A e \in Requests \ {c} : state'[e] = state[e]  BY <1>1, <1>4, InsertsIs
  <2> QED  BY <1>2, <2>1, <2>2
<1>5. ASSUME NEW c \in Requests, Commits(c) PROVE FALSE
  <2>1. c # d  BY <1>2, <1>5 DEF Commits
  <2>2. \A e \in Requests \ {c} : state'[e] = state[e]  BY <1>1, <1>5, EndIs
  <2> QED  BY <1>2, <2>1, <2>2
<1>6. ASSUME NEW c \in Requests, c # d, Undone(c) PROVE FALSE
  <2>1. \A e \in Requests \ {c} : state'[e] = state[e]  BY <1>1, <1>6, EndIs
  <2> QED  BY <1>2, <1>6, <2>1
<1>7. ASSUME NEW c \in Requests,
             Deletes(c) \/ Rechecks(c) \/ InsertsUser(c) \/ Marks(c) \/ Erases(c)
      PROVE  FALSE
  <2>1. state' = state  BY <1>7, SomeStatement
  <2> QED  BY <2>1
<1>8. ASSUME NEW c \in Requests, DeleteStatement(c) PROVE c = d
  BY <1>1, <1>6, <1>7, <1>8, KindsOfDelete
<1>9. ASSUME NEW c \in Requests, ReCheck(c) \/ InsertUser(c) \/ MarkAccepted(c) PROVE FALSE
  <2>1. c # d  BY <1>9, Apart DEF ReCheck, InsertUser, MarkAccepted
  <2> QED  BY <1>1, <1>6, <1>7, <1>9, <2>1, KindsOfAccept
<1>10. ASSUME NEW c \in Requests,
              \/ Begin(c) \/ Commit(c) \/ StartWriter(c) \/ InsertRow(c)
              \/ StartDestroy(c) \/ PreCheck(c) \/ StartErase(c) \/ EraseStatement(c)
       PROVE  FALSE
  BY <1>1, <1>3, <1>4, <1>5, <1>7, <1>10, KindsOfStart, KindsOfBegin, KindsOfCommit,
     KindsOfInsert, KindsOfErase
<1>11. Requesting => DeleteStatement(d)  BY <1>8, <1>9, <1>10 DEF Requesting
<1>12. ~Crash
  <2>1. crashes \in Nat  BY <1>1, BoundsAssumption DEF Shaped
  <2> QED  BY <2>1 DEF Crash
<1>13. ~Idle  BY DEF Idle
<1> QED  BY <1>11, <1>12, <1>13, NextIs, KindsOfRest

\* A deletion is refused only because of a child session, a billing event or a
\* row that was inserted while it ran: the list of its statements names every
\* other table, and no table before one that refers to it
\* (AdapterSessionStore.delete).
THEOREM RefusedForCauseHolds == Spec => RefusedForCause
<1> DEFINE Cause == \A d \in Destroyers :
             state[d] = "open" /\ state'[d] = "failed" /\ crashes' = crashes =>
               \E k \in DOMAIN View(Conn(d)) :
                 /\ Session \in View(Conn(d))[k].up
                 /\ k[1] \in {"sessions", "billing_events"} \/ k \in late[d]
<1>1. ASSUME Inv, [Next]_vars PROVE Cause
  <2> SUFFICES ASSUME NEW d \in Destroyers, state[d] = "open", state'[d] = "failed",
                      crashes' = crashes
               PROVE  \E k \in DOMAIN View(Conn(d)) :
                        /\ Session \in View(Conn(d))[k].up
                        /\ k[1] \in {"sessions", "billing_events"} \/ k \in late[d]
    OBVIOUS
  <2>1. PICK t \in Range(DeleteOrder) :
          /\ Next1(d, t)
          /\ IF Referencing(Conn(d), Of(Conn(d), t)) # {} THEN Rollback(d)
             ELSE Wrote(d, [k \in Of(Conn(d), t) |-> Gone])
    BY <1>1, OnlyItsStatementRefuses DEF DeleteStatement
  <2>2. ~Wrote(d, [k \in Of(Conn(d), t) |-> Gone])  BY DEF Wrote
  <2>3. Referencing(Conn(d), Of(Conn(d), t)) # {}  BY <2>1, <2>2
  <2>4. at[d] < Len(script[d]) /\ script[d][at[d] + 1] = t  BY <2>1 DEF Next1
  <2> QED  BY <1>1, <2>3, <2>4, CauseOfRefusal
<1>2. Inv /\ [Next]_vars => [Cause]_vars  BY <1>1
<1> QED  BY <1>2, InvHolds, PTL DEF Spec, RefusedForCause
=============================================================================
