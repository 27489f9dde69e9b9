------------------------------ MODULE Database ------------------------------
(***************************************************************************)
(* The daemon's database: how its schema comes to be (db/schema.ts), how    *)
(* the two adapters run statements and transactions (db/adapter.ts), and    *)
(* the requests that write several rows: the rows the engine, the           *)
(* conversation, the spawner, the snapshots and billing insert              *)
(* (db/stores.ts, billing-tracker.ts), the deletion of a session with all   *)
(* that references it, and the transactions of auth/auth-store.ts.          *)
(*                                                                         *)
(* A request is a process; each of its awaited statements is a step.        *)
(* SQLite gives every request the same connection, so a statement may run   *)
(* inside the transaction another request opened; Postgres gives each       *)
(* transaction its own, at read committed, with row locks.  A crash loses   *)
(* what was not committed and every request in flight.                      *)
(***************************************************************************)
EXTENDS Naturals, Sequences, FiniteSets, Functions, TLC

CONSTANTS
  Backends,    \* the kinds of database to consider, a subset of AllBackends
  Writers,     \* requests that insert rows for the session, one statement each
  Destroyers,  \* deletions of the session
  Acceptors,   \* acceptInvite calls, all with the one invite token
  Erasers,     \* eraseUser calls
  FirstVersion,\* bound: the oldest SQLite file the runs start from
  MaxCrashes,  \* bound: crashes of the daemon (not of the code)
  None

AllBackends == {"sqlite", "postgres"}

ASSUME BackendsAssumption == Backends \subseteq AllBackends
ASSUME BoundsAssumption   == MaxCrashes \in Nat /\ FirstVersion \in Nat
ASSUME RequestsAssumption ==
  /\ {None, "main", "o", "owner", "s", "i"} \cap (Writers \cup Destroyers \cup Acceptors \cup Erasers) = {}
  /\ None # "main"
  /\ Writers \cap (Destroyers \cup Acceptors \cup Erasers) = {}
  /\ Destroyers \cap (Acceptors \cup Erasers) = {}
  /\ Acceptors \cap Erasers = {}

-----------------------------------------------------------------------------
\* The schema: <<t>> is the table t, <<t, p>> a column of t that references p.

T(t, refs) == {<<t>>} \cup {<<t, p>> : p \in refs}

\* v1-5: tasks, plans, runs, checkpoints.
TaskMigrations ==
  << T("sessions", {}) \cup T("messages", {"sessions"}) \cup T("plans", {"sessions"})
       \cup T("validate_runs", {"sessions", "plans"})
       \cup T("git_checkpoints", {"sessions", "validate_runs"}) \cup T("repo_map_cache", {}),
     {},
     T("tool_uses", {"messages"}),
     {<<"messages", "plans">>},
     {} >>

\* v6-11: organisations, users, tokens, billing, invites.
CloudMigrations ==
  << T("organizations", {}),
     T("users", {"organizations"}),
     T("api_tokens", {"users"}),
     {<<"sessions", "users">>, <<"sessions", "organizations">>},
     T("billing_events", {"organizations", "sessions"}),
     T("invite_tokens", {"organizations", "users"}) >>

\* v12-24: memories, hooks, snapshots, permissions, approvals.
LaterMigrations ==
  << T("memories", {}),
     T("hook_runs", {}),
     {}, {}, {},
     T("file_snapshots", {"sessions"}),
     {<<"sessions", "sessions">>},
     {},
     T("memory_embeddings", {"memories"}),
     T("permission_denials", {"sessions"})
       \cup T("permission_allow_rules", {"sessions", "organizations"}),
     T("installed_plugins", {}),
     T("approval_requests", {"sessions", "plans"}),
     {} >>

Migrations == TaskMigrations \o CloudMigrations \o LaterMigrations
latestSchemaVersion == Len(Migrations)

\* What a SQLite file of version v holds.
SchemaAt(v) == UNION {Migrations[i] : i \in 1..v}

\* postgresBootstrapStatements: the tables in the order they are created.
BootstrapCore ==
  << T("schema_migrations", {}), T("organizations", {}), T("users", {"organizations"}),
     T("sessions", {"sessions", "users", "organizations"}),
     T("plans", {"sessions"}), T("messages", {"sessions", "plans"}),
     T("validate_runs", {"sessions", "plans"}),
     T("git_checkpoints", {"sessions", "validate_runs"}), T("repo_map_cache", {}),
     T("tool_uses", {"messages"}), T("billing_events", {"organizations", "sessions"}),
     T("api_tokens", {"users"}), T("invite_tokens", {"organizations", "users"}) >>

BootstrapRest ==
  << T("memories", {}), T("hook_runs", {}), T("file_snapshots", {"sessions"}),
     T("memory_embeddings", {"memories"}), T("permission_denials", {"sessions"}),
     T("permission_allow_rules", {"sessions", "organizations"}),
     T("installed_plugins", {}), T("approval_requests", {"sessions", "plans"}) >>

Bootstrap == BootstrapCore \o BootstrapRest

-----------------------------------------------------------------------------
VARIABLES
  backend,                    \* which adapter createDbAdapter made
  phase,                      \* of the process: boot, serving, refused, down
  version, schema,            \* committed: user_version, the tables
  mig,                        \* the open schema transaction: [at, schema], or None
  rows,                       \* committed rows: key |-> [up, val]
  work, owner,                \* per connection: its uncommitted writes, whose transaction
  script, at, state,          \* per request: what it runs, the next statement, how it stands
  crashes,
  acked,                      \* history: <<key, whose transaction it ran in>> of
                              \* the inserts that were told to have succeeded
  late                        \* history: rows inserted since the deletion began

schemaVars  == <<phase, version, schema, mig>>
connVars    == <<work, owner>>
requestVars == <<script, at, state>>
historyVars == <<acked, late>>
vars == <<backend, schemaVars, rows, connVars, requestVars, crashes, historyVars>>

Requests == Writers \cup Destroyers \cup Acceptors \cup Erasers
Shared == "main"                              \* SqliteAdapter.db
Connections == {Shared} \cup Requests
Conn(c) == IF backend = "sqlite" THEN Shared ELSE c

NoRows == [k \in {} |-> {}]
Gone == [up |-> {}, val |-> "gone"]           \* an uncommitted deletion

\* What a statement on connection x sees.
View(x) ==
  LET all == DOMAIN rows \cup DOMAIN work[x]
      val(k) == IF k \in DOMAIN work[x] THEN work[x][k] ELSE rows[k]
  IN [k \in {j \in all : val(j) # Gone} |-> val(k)]

Session == <<"sessions", "s">>
Invite  == <<"invite_tokens", "i">>
Owner   == <<"users", "owner">>
Org     == <<"organizations", "o">>

\* The session, the organisation, its owner and the open invite are there first.
FirstRows ==
  [k \in {Org, Owner, Session, Invite} |->
     IF k = Org THEN [up |-> {}, val |-> "row"]
     ELSE IF k = Owner THEN [up |-> {Org}, val |-> "live"]
     ELSE [up |-> {Org, Owner}, val |-> IF k = Session THEN "row" ELSE "open"]]

Init ==
  /\ backend \in Backends
  /\ phase = "boot"
  /\ version \in IF backend = "sqlite" THEN FirstVersion..latestSchemaVersion + 1 ELSE {0}
  /\ schema = IF version > latestSchemaVersion THEN SchemaAt(latestSchemaVersion)
                                                ELSE SchemaAt(version)
  /\ mig = None
  /\ rows = FirstRows
  /\ work = [x \in Connections |-> NoRows] /\ owner = [x \in Connections |-> None]
  /\ script = [c \in Requests |-> <<>>]
  /\ at = [c \in Requests |-> 0] /\ state = [c \in Requests |-> "new"]
  /\ crashes = 0
  /\ acked = {} /\ late = [d \in Destroyers |-> {}]

-----------------------------------------------------------------------------
\* The start of the daemon.

\* initializeSchema: a newer file is refused.
RefuseNewer ==
  /\ phase = "boot" /\ backend = "sqlite" /\ version > latestSchemaVersion
  /\ phase' = "refused"
  /\ UNCHANGED <<backend, version, schema, mig, rows, connVars, requestVars, crashes, historyVars>>

\* Mutant: the statements run before BEGIN.
ApplyOutside ==
  /\ phase = "boot" /\ backend = "sqlite" /\ version < latestSchemaVersion /\ mig = None
  /\ schema' = schema \cup Migrations[version + 1]
  /\ mig' = [at |-> version, schema |-> schema']
  /\ UNCHANGED <<backend, phase, version, rows, connVars, requestVars, crashes, historyVars>>

\* BEGIN IMMEDIATE, and the next migration's statements.
ApplyMigration ==
  /\ phase = "boot" /\ backend = "sqlite" /\ version < latestSchemaVersion /\ mig = None
  /\ mig' = [at |-> version, schema |-> schema \cup Migrations[version + 1]]
  /\ UNCHANGED <<backend, phase, version, schema, rows, connVars, requestVars, crashes, historyVars>>

\* PRAGMA user_version, which the transaction covers too, and COMMIT.
CommitMigration ==
  /\ phase = "boot" /\ backend = "sqlite" /\ mig # None
  /\ version' = mig.at + 1 /\ schema' = mig.schema /\ mig' = None
  /\ UNCHANGED <<backend, phase, rows, connVars, requestVars, crashes, historyVars>>

\* initializePostgresSchema: one statement of the bootstrap.  CREATE TABLE IF
\* NOT EXISTS does nothing when the table is there, and fails when a table it
\* references is not.
Created(done) == IF mig = None THEN schema ELSE done.schema

BootstrapStatement ==
  LET n == IF mig = None THEN 0 ELSE mig.at
      have == Created(mig)
      new  == Bootstrap[n + 1]
      self == {f \in new : Len(f) = 1}
      missing == {f \in new : Len(f) = 2 /\ <<f[2]>> \notin have \cup self}
  IN /\ phase = "boot" /\ backend = "postgres" /\ n < Len(Bootstrap)
     /\ IF missing # {} THEN /\ phase' = "refused" /\ mig' = None
        ELSE /\ mig' = [at |-> n + 1, schema |-> IF self \subseteq have THEN have ELSE have \cup new]
             /\ UNCHANGED phase
     /\ UNCHANGED <<backend, version, schema, rows, connVars, requestVars, crashes, historyVars>>

\* ... the INSERT into schema_migrations, and COMMIT.
BootstrapCommit ==
  /\ phase = "boot" /\ backend = "postgres" /\ mig # None /\ mig.at = Len(Bootstrap)
  /\ version' = latestSchemaVersion /\ schema' = mig.schema /\ mig' = None
  /\ phase' = "serving"
  /\ UNCHANGED <<backend, rows, connVars, requestVars, crashes, historyVars>>

\* Every migration is applied: the daemon goes on to listen.
Serve ==
  /\ phase = "boot" /\ backend = "sqlite" /\ version = latestSchemaVersion /\ mig = None
  /\ phase' = "serving"
  /\ UNCHANGED <<backend, version, schema, mig, rows, connVars, requestVars, crashes, historyVars>>

\* The process dies: open transactions are gone, and whoever awaited them.
Crash ==
  /\ crashes < MaxCrashes /\ phase \in {"boot", "serving"}
  /\ crashes' = crashes + 1
  /\ phase' = "boot" /\ mig' = None
  /\ work' = [x \in Connections |-> NoRows] /\ owner' = [x \in Connections |-> None]
  /\ state' = [c \in Requests |-> IF state[c] = "open" THEN "failed" ELSE state[c]]
  /\ UNCHANGED <<backend, version, schema, rows, script, at, historyVars>>

-----------------------------------------------------------------------------
\* The adapters.

\* The rows r with the writes ch over them, and one write alone.
Over(ch, r) == [k \in DOMAIN ch \cup DOMAIN r |-> IF k \in DOMAIN ch THEN ch[k] ELSE r[k]]
Put(key, row) == [k \in {key} |-> row]

\* Writes ch on connection x: into its open transaction, or committed at once.
Write(x, ch) ==
  IF owner[x] = None
  THEN /\ rows' = LET new == Over(ch, rows) IN Restrict(new, {k \in DOMAIN new : new[k] # Gone})
       /\ UNCHANGED work
  ELSE work' = [work EXCEPT ![x] = Over(ch, work[x])] /\ UNCHANGED rows

\* Rows another open transaction wrote, and may yet commit: writing them waits.
Locked(x) == UNION {DOMAIN work[y] : y \in Connections \ {x}}

\* The rows that keep those of K from being deleted (foreign keys).
Referencing(x, K) == {k \in DOMAIN View(x) \ K : View(x)[k].up \cap K # {}}

\* Mutant: BEGIN inside the try, so that a refused one rolls back.
BeginInTry(c) ==
  /\ phase = "serving" /\ c \notin Writers /\ state[c] = "ready"
  /\ IF owner[Conn(c)] # None
     THEN /\ state' = [state EXCEPT ![c] = "failed"]
          /\ work' = [work EXCEPT ![Conn(c)] = NoRows] /\ UNCHANGED <<owner, late>>
     ELSE /\ owner' = [owner EXCEPT ![Conn(c)] = c]
          /\ state' = [state EXCEPT ![c] = "open"]
          /\ late' = IF c \in Destroyers THEN [late EXCEPT ![c] = {}] ELSE late
          /\ UNCHANGED work
  /\ UNCHANGED <<backend, schemaVars, rows, script, at, crashes, acked>>

\* BEGIN.  On the shared connection a second BEGIN throws, before the try
\* that would roll back.
Begin(c) ==
  /\ phase = "serving" /\ c \notin Writers /\ state[c] = "ready"
  /\ IF owner[Conn(c)] # None
     THEN /\ state' = [state EXCEPT ![c] = "failed"] /\ UNCHANGED <<owner, late>>
     ELSE /\ owner' = [owner EXCEPT ![Conn(c)] = c]
          /\ state' = [state EXCEPT ![c] = "open"]
          /\ late' = IF c \in Destroyers THEN [late EXCEPT ![c] = {}] ELSE late
  /\ UNCHANGED <<backend, schemaVars, rows, work, script, at, crashes, acked>>

\* COMMIT, after the last statement.
Commit(c) ==
  LET x == Conn(c) IN
  /\ phase = "serving" /\ state[c] = "open" /\ at[c] = Len(script[c])
  /\ rows' = View(x)
  /\ work' = [work EXCEPT ![x] = NoRows] /\ owner' = [owner EXCEPT ![x] = None]
  /\ state' = [state EXCEPT ![c] = "done"]
  /\ UNCHANGED <<backend, schemaVars, script, at, crashes, historyVars>>

\* A statement of the transaction threw: ROLLBACK, and the error goes on.
Rollback(c) ==
  LET x == Conn(c) IN
  /\ work' = [work EXCEPT ![x] = NoRows] /\ owner' = [owner EXCEPT ![x] = None]
  /\ state' = [state EXCEPT ![c] = "failed"]
  /\ UNCHANGED <<rows, at>>

\* A statement of the transaction wrote ch.
Wrote(c, ch) ==
  /\ Write(Conn(c), ch)
  /\ at' = [at EXCEPT ![c] = at[c] + 1]
  /\ UNCHANGED <<owner, state>>

\* The next statement of c's transaction.
Next1(c, stmt) ==
  /\ phase = "serving" /\ state[c] = "open"
  /\ at[c] < Len(script[c]) /\ script[c][at[c] + 1] = stmt

-----------------------------------------------------------------------------
\* Rows inserted one statement at a time.

\* What a writer inserts, in order: <<table, the tables its row references>>.
\* A PIV task (insertPlan, insertMessage, insertValidateRun, the checkpoint's
\* insert), a token of the owner, a conversation turn, a spawned session, a
\* billing event, the snapshot of a turn.
EngineRows == << <<"plans", {"sessions"}>>, <<"messages", {"sessions", "plans"}>>,
                 <<"validate_runs", {"sessions", "plans"}>>,
                 <<"git_checkpoints", {"sessions", "validate_runs"}>> >>
TokenRows    == << <<"api_tokens", {"users"}>> >>
TurnRows     == << <<"messages", {"sessions"}>> >>
ChildRows    == << <<"sessions", {"sessions"}>> >>
BillingRows  == << <<"billing_events", {"organizations", "sessions"}>> >>
SnapshotRows == << <<"file_snapshots", {"sessions"}>> >>

KeyOf(t, c) == CASE t = "sessions" -> Session [] t = "users" -> Owner [] t = "organizations" -> Org [] OTHER -> <<t, c>>

\* The keys a row of t references, as far as the schema makes them foreign keys.
Up(t, refs, c) == {KeyOf(p, c) : p \in {q \in refs : <<t, q>> \in schema}}

StartWriter(c) ==
  /\ phase = "serving" /\ c \in Writers /\ state[c] = "new"
  /\ \E s \in {EngineRows, TokenRows, TurnRows, ChildRows, BillingRows, SnapshotRows} :
       script' = [script EXCEPT ![c] = s]
  /\ state' = [state EXCEPT ![c] = "open"]
  /\ UNCHANGED <<backend, schemaVars, rows, connVars, at, crashes, historyVars>>

\* One INSERT, autocommitted unless another's transaction is open on the
\* connection.  file_snapshots takes INSERT OR REPLACE, which is SQLite's alone.
InsertRow(c) ==
  LET x == Conn(c)
      row == script[c][at[c] + 1]
      key == IF row[1] = "sessions" THEN <<"sessions", c>> ELSE <<row[1], c>>
      up  == Up(row[1], row[2], c)
      refused == \/ up \ DOMAIN View(x) # {}
                 \/ row[1] = "file_snapshots" /\ backend = "postgres"
  IN /\ phase = "serving" /\ c \in Writers /\ state[c] = "open" /\ at[c] < Len(script[c])
     /\ up \cap Locked(x) = {}
     /\ IF refused
        THEN /\ state' = [state EXCEPT ![c] = "failed"]
             /\ UNCHANGED <<rows, work, at, acked, late>>
        ELSE /\ Write(x, Put(key, [up |-> up, val |-> "row"]))
             /\ at' = [at EXCEPT ![c] = at[c] + 1]
             /\ state' = [state EXCEPT ![c] = IF at'[c] = Len(script[c]) THEN "done" ELSE "open"]
             /\ acked' = acked \cup {<<key, owner[x]>>}
             /\ late' = [d \in Destroyers |-> late[d] \cup {key}]
     /\ UNCHANGED <<backend, schemaVars, owner, script, crashes>>

-----------------------------------------------------------------------------
\* AdapterSessionStore.delete.

\* Mutant: the plans before the runs and messages that reference them.
PlansFirst == <<"tool_uses", "git_checkpoints", "file_snapshots", "permission_denials",
                "permission_allow_rules", "approval_requests", "memory_embeddings",
                "plans", "validate_runs", "messages", "sessions">>

DeleteOrder == <<"tool_uses", "git_checkpoints", "file_snapshots", "permission_denials",
                 "permission_allow_rules", "approval_requests", "memory_embeddings",
                 "validate_runs", "messages", "plans", "sessions">>

StartDestroy(c) ==
  /\ phase = "serving" /\ c \in Destroyers /\ state[c] = "new"
  /\ script' = [script EXCEPT ![c] = DeleteOrder]
  /\ state' = [state EXCEPT ![c] = "ready"]
  /\ UNCHANGED <<backend, schemaVars, rows, connVars, at, crashes, historyVars>>

\* The rows of table t that belong to the session.
Of(x, t) == IF t = "sessions" THEN {Session} \cap DOMAIN View(x)
            ELSE {k \in DOMAIN View(x) : k[1] = t /\ Session \in View(x)[k].up}

DeleteStatement(c) ==
  \E t \in Range(DeleteOrder) :
    LET x == Conn(c)
        K == Of(x, t)
    IN /\ c \in Destroyers /\ Next1(c, t)
       /\ K \cap Locked(x) = {}
       /\ IF Referencing(x, K) # {} THEN Rollback(c)
          ELSE Wrote(c, [k \in K |-> Gone])
       /\ UNCHANGED <<backend, schemaVars, script, crashes, historyVars>>

-----------------------------------------------------------------------------
\* AuthStore.acceptInvite and eraseUser.

\* The pre-check, and then bcrypt.hash.
PreCheck(c) ==
  /\ phase = "serving" /\ c \in Acceptors /\ state[c] = "new"
  /\ state' = [state EXCEPT ![c] = IF View(Conn(c))[Invite].val = "open" THEN "ready" ELSE "failed"]
  /\ script' = [script EXCEPT ![c] = <<"recheck", "insert", "mark">>]
  /\ UNCHANGED <<backend, schemaVars, rows, connVars, at, crashes, historyVars>>

\* The pre-check's query again, inside the transaction.
ReCheck(c) ==
  /\ c \in Acceptors /\ Next1(c, "recheck")
  /\ IF View(Conn(c))[Invite].val # "open" THEN Rollback(c) ELSE Wrote(c, NoRows)
  /\ UNCHANGED <<backend, schemaVars, script, crashes, historyVars>>

\* Users with the invite's email: those it made, until they are erased.
Holders(x) == {k \in DOMAIN View(x) : k[1] = "users" /\ k # Owner /\ View(x)[k].val = "live"}

\* INSERT INTO users: email is UNIQUE, and waits for whoever is inserting it.
InsertUser(c) ==
  LET x == Conn(c) IN
  /\ c \in Acceptors /\ Next1(c, "insert")
  /\ \A k \in Locked(x) : k[1] # "users"
  /\ IF Holders(x) # {} THEN Rollback(c)
     ELSE Wrote(c, Put(<<"users", c>>, [up |-> {Org}, val |-> "live"]))
  /\ UNCHANGED <<backend, schemaVars, script, crashes, historyVars>>

\* Mutant: this.db instead of tx, another connection on Postgres.
MarkOutside(c) ==
  /\ c \in Acceptors /\ Next1(c, "mark")
  /\ Invite \notin Locked(Conn(c))
  /\ IF backend = "sqlite"
     THEN Wrote(c, Put(Invite, [up |-> {Org, Owner}, val |-> "accepted"]))
     ELSE /\ rows' = Over(Put(Invite, [up |-> {Org, Owner}, val |-> "accepted"]), rows)
          /\ at' = [at EXCEPT ![c] = at[c] + 1]
          /\ UNCHANGED <<work, owner, state>>
  /\ UNCHANGED <<backend, schemaVars, script, crashes, historyVars>>

\* UPDATE invite_tokens SET accepted_at.
MarkAccepted(c) ==
  /\ c \in Acceptors /\ Next1(c, "mark")
  /\ Invite \notin Locked(Conn(c))
  /\ Wrote(c, Put(Invite, [up |-> {Org, Owner}, val |-> "accepted"]))
  /\ UNCHANGED <<backend, schemaVars, script, crashes, historyVars>>

\* eraseUser: bcrypt.hash, then the transaction.  The script names the user.
StartErase(c) ==
  /\ phase = "serving" /\ c \in Erasers /\ state[c] = "new"
  /\ \E u \in {k \in DOMAIN rows : k[1] = "users" /\ rows[k].val = "live"} :
       script' = [script EXCEPT ![c] = << <<"revoke", u>>, <<"anonymise", u>> >>]
  /\ state' = [state EXCEPT ![c] = "ready"]
  /\ UNCHANGED <<backend, schemaVars, rows, connVars, at, crashes, historyVars>>

\* UPDATE api_tokens, UPDATE users: the email is free again.
EraseStatement(c) ==
  \E u \in DOMAIN rows, stmt \in {"revoke", "anonymise"} :
    LET seen == View(Conn(c))
        hit  == IF stmt = "anonymise" THEN {u} \cap DOMAIN seen
                ELSE {k \in DOMAIN seen : k[1] = "api_tokens" /\ u \in seen[k].up}
    IN /\ c \in Erasers /\ Next1(c, <<stmt, u>>)
       /\ hit \cap Locked(Conn(c)) = {}
       /\ Wrote(c, [k \in hit |-> [up |-> seen[k].up, val |-> "erased"]])
       /\ UNCHANGED <<backend, schemaVars, script, crashes, historyVars>>

-----------------------------------------------------------------------------
Next ==
  \/ RefuseNewer \/ ApplyMigration \/ CommitMigration
  \/ BootstrapStatement \/ BootstrapCommit \/ Serve \/ Crash
  \/ \E c \in Requests :
       \/ Begin(c) \/ Commit(c)
       \/ StartWriter(c) \/ InsertRow(c)
       \/ StartDestroy(c) \/ DeleteStatement(c)
       \/ PreCheck(c) \/ ReCheck(c) \/ InsertUser(c) \/ MarkAccepted(c)
       \/ StartErase(c) \/ EraseStatement(c)

Spec == Init /\ [][Next]_vars

-----------------------------------------------------------------------------
Schemas == [v \in 0..latestSchemaVersion |-> SchemaAt(v)]
Tables == {f[1] : f \in Schemas[latestSchemaVersion]}
Keys == {Org, Owner, Session, Invite} \cup (Tables \X Requests)
RowsType(r) == /\ DOMAIN r \subseteq Keys
               /\ \A k \in DOMAIN r : /\ r[k].up \subseteq Keys
                                      /\ r[k].val \in {"row", "live", "erased", "open", "accepted", "gone"}

\* The shape of the state.
TypeOK ==
  /\ backend \in AllBackends /\ phase \in {"boot", "serving", "refused"}
  /\ version \in 0..latestSchemaVersion + 1
  /\ schema \subseteq Schemas[latestSchemaVersion] \cup T("schema_migrations", {})
  /\ mig = None \/ mig.at \in Nat
  /\ RowsType(rows) /\ \A x \in Connections : RowsType(work[x])
  /\ owner \in [Connections -> Requests \cup {None}]
  /\ DOMAIN script = Requests /\ at \in [Requests -> Nat]
  /\ \A c \in Requests : at[c] <= Len(script[c])
  /\ state \in [Requests -> {"new", "ready", "open", "done", "failed"}]
  /\ crashes \in 0..MaxCrashes
  /\ acked \subseteq Keys \X (Requests \cup {None})
  /\ late \in [Destroyers -> SUBSET Keys]

\* Wherever a crash interrupted the start, the tables of a file are those of
\* the version it records, and a daemon that serves has all of them: the same
\* ones on both databases (initializeSchema, initializePostgresSchema).
VersionTellsSchema ==
  /\ TypeOK
  /\ backend = "sqlite" /\ version <= latestSchemaVersion =>
       schema = Schemas[version]
  /\ phase = "serving" =>
       /\ version = latestSchemaVersion
       /\ schema \ T("schema_migrations", {}) = Schemas[latestSchemaVersion]

\* Every transaction is one request's, and a request that has ended holds none:
\* no error path leaves the connection inside a transaction, where every
\* later BEGIN would fail and every later write be unacknowledged.
TransactionsEnd ==
  \A x \in Connections :
    /\ owner[x] # None => state[owner[x]] = "open" /\ Conn(owner[x]) = x
    /\ owner[x] = None => work[x] = NoRows

\* An INSERT whose caller was told it succeeded is in the database until its
\* session is deleted, whatever other requests roll back; on SQLite, where it may
\* have run inside the transaction of another request, provided that one
\* committed (the adapters' transaction).
AckedWritesKept ==
  /\ TransactionsEnd
  /\ \A a \in acked :
       \/ a[1] \in DOMAIN rows
       \/ Session \notin DOMAIN rows
       \/ a[2] # None /\ state[a[2]] # "done"

\* The deletion of a session is refused only because of child sessions, billing
\* events, or rows inserted while it ran: its list names every other table and
\* deletes the children first (AdapterSessionStore.delete).
RefusedForCause ==
  [][\A d \in Destroyers :
       state[d] = "open" /\ state'[d] = "failed" /\ crashes' = crashes =>
         \E k \in DOMAIN View(Conn(d)) :
           /\ Session \in View(Conn(d))[k].up
           /\ k[1] \in {"sessions", "billing_events"} \/ k \in late[d]]_vars

\* The users the invite made, in what is committed.
Accepted == {k \in DOMAIN rows : k[1] = "users" /\ k # Owner}

\* An invite is marked accepted exactly when it made a user, across crashes,
\* double accepts and rollbacks, and no two users live with its email.
InviteConsistent ==
  /\ rows[Invite].val = "accepted" <=> Accepted # {}
  /\ Cardinality({k \in Accepted : rows[k].val = "live"}) <= 1

=============================================================================
