------------------------------- MODULE Gateway -------------------------------
(***************************************************************************)
(* The daemon's HTTP surface: server.ts with the authentication             *)
(* (auth/auth-middleware.ts, jwt-service.ts, auth-store.ts) and the rate    *)
(* limiter (rate-limit.ts) it calls before a route's own work.              *)
(*                                                                         *)
(* A request is a process.  A route is the sequence of what its handler     *)
(* awaits, or does between two awaits, and the status it answers; a step    *)
(* that throws or returns early answers at once (toErrorResponse).  What    *)
(* a route asks of a controller is one step here: the controllers are       *)
(* modelled in SessionLifecycle, Conversation, AgentTeam and PIVEngine.     *)
(***************************************************************************)
EXTENDS Integers, Sequences, FiniteSets, Functions, TLC

CONSTANTS
  Requests,   \* connections; each carries one request at a time
  Users,      \* bound: registrations.  User u registers organisation u
  Emails,
  Sessions,
  Limits,     \* AUTH_LIMITS: kind of bucket |-> [limit, window]
  GcAt,       \* buckets above which the limiter collects (10,000 in the code)
  Scopes,     \* bound: the routes the requests of one behaviour come from
  MaxNow,     \* bound: the clock
  MaxStarts,  \* bound: requests in a behaviour, by scope
  None

Kinds == {"loginIp", "loginEmail", "registerIp", "acceptIp"}
AllScopes == {"account", "session"}

ASSUME UsersAssumption  == None \notin Users /\ "local" \notin Users /\ Users # {}
ASSUME InputsAssumption == Emails # {} /\ Sessions # {} /\ None \notin Sessions
ASSUME LimitsAssumption == Limits \in [Kinds -> [limit : Nat, window : Nat]]
ASSUME BoundsAssumption == GcAt \in Nat /\ MaxNow \in Nat /\ MaxStarts \in [AllScopes -> Nat]
ASSUME ScopesAssumption == Scopes \subseteq AllScopes

-----------------------------------------------------------------------------
\* The routes.  Steps: "parse" a schema over the body or the query, "param" a
\* check of a path or query parameter, "store" requireAuthStore,
\* "ctx" requireContext, "get" getSession in the caller's organisation, "anyget"
\* getSession without one, "live" the controller's requireLiveSession; the
\* others name what they do.  The last element is the answer.

\* Exempt from authentication.
PublicRoutes == {
  <<"parse", "limitRegisterIp", "store", "createOrg", "createUser", "201">>,
  <<"parse", "limitLoginIp", "limitLoginEmail", "store", "verify", "sign", "200">>,
  <<"limitAcceptIp", "parse", "store", "accept", "201">>,
  <<"event", "store", "plan", "200">>,
  <<"health", "200">> }

AccountRoutes == {
  <<"store", "ctx", "read", "200">>,                   \* tokens, usage, members
  <<"parse", "store", "ctx", "createToken", "200">>,
  <<"store", "ctx", "revokeToken", "204">>,
  <<"store", "ctx", "erase", "204">>,
  <<"store", "ctx", "owner", "parse", "invite", "201">>,
  <<"ctx", "store", "read", "customer", "parse", "portal", "200">>,
  <<"read", "200">> }                                  \* hooks, MCP tools

\* handleMemoryRequest: the caller's memories.
MemoryRoutes == {
  <<"parse", "read", "200">>,
  <<"parse", "memory", "materialize", "201">>,
  <<"onlyLocal", "memory", "200">>,
  <<"parse", "found", "memory", "materialize", "200">>,
  <<"found", "memory", "materialize", "204">> }

CreateRoutes == { <<"parse", "quota", "createSession", "bill", "201">> }

\* GET and DELETE of the session.
SessionRoutes == {
  <<"get", "200">>,
  <<"anyget", "destroy", "unbill", "204">> }

StreamRoutes == { <<"attach", "200">> }

SnapshotRoutes == {
  <<"get", "read", "200">>,
  <<"param", "get", "read", "200">>,
  <<"param", "get", "restoreFiles", "200">> }

\* Mutant: an agent is killed before the body with the reason is parsed.
AgentRoutesKillFirst == {
  <<"get", "200">>,
  <<"get", "param", "kill", "parse", "204">> }

AgentRoutes == {
  <<"parse", "get", "live", "activate", "background", "202">>,
  <<"get", "parse", "spawn", "201">>,
  <<"get", "200">>,
  <<"get", "param", "200">>,
  <<"get", "param", "parse", "kill", "204">> }

MessageRoutes == {
  <<"parse", "anyget", "resolve", "200">>,             \* permission
  <<"parse", "get", "background", "202">>,
  <<"get", "parse", "read", "200">>,
  <<"get", "clear", "204">>,
  <<"get", "cancel", "200">>,
  <<"get", "compact", "200">>,
  <<"parse", "get", "200">> }                          \* review, streamed

PIVRoutes == {
  <<"parse", "live", "work", "202">>,                  \* task
  <<"get", "anyget", "found", "200">>,                 \* plan
  <<"get", "anyget", "found", "get", "read", "200">>,
  <<"live", "anyget", "work", "200">>,                 \* approve
  <<"param", "live", "work", "200">>,
  <<"parse", "live", "anyget", "work", "200">>,        \* reject
  <<"param", "parse", "live", "work", "200">>,
  <<"parse", "anyget", "live", "read", "200">>,        \* checkpoints
  <<"param", "anyget", "live", "restore", "200">> }

ConfigRoutes == {
  <<"parse", "live", "configure", "200">>,
  <<"anyget", "read", "200">>,                         \* context-stats
  <<"param", "get", "param", "anyget", "read", "200">>, \* diff
  <<"get", "read", "200">> }                           \* export

\* The websocket upgrade, and the open callback after it.
UpgradeRoutes == { <<"get", "upgrade", "open", "101">> }

OnSession == SessionRoutes \cup StreamRoutes \cup SnapshotRoutes \cup AgentRoutes
               \cup MessageRoutes \cup PIVRoutes \cup ConfigRoutes \cup UpgradeRoutes

Codes == {"101", "200", "201", "202", "204", "400", "401", "403", "404", "409", "429", "500", "501", "503"}
Refusals == {"400", "401", "403", "404", "409", "429", "501"}

\* What a step does that outlives its request.
Effects == {"createOrg", "createUser", "sign", "accept", "plan", "createToken", "revokeToken",
            "erase", "invite", "memory", "createSession", "destroy", "attach", "restoreFiles",
            "activate", "background", "spawn", "kill", "resolve", "clear", "cancel", "compact",
            "work", "restore", "configure"}

-----------------------------------------------------------------------------
VARIABLES
  mode, limiter,   \* "local" or "cloud"; "memory" or "redis"
  scope, starts, now,
  users,           \* per user: [email, state]; "org" when only the organisation exists
  token,           \* per user: its API token, none, valid or revoked
  jwts,            \* users a JWT has been signed for
  row, live,       \* per session: [org, state] of its row; the sessions in memory
  buckets,         \* the limiter's: key |-> [count, resetAt]
  req,
  admitted         \* history: login attempts of each email the limiter let through, by time

accountVars == <<users, token, jwts>>
sessionVars == <<row, live>>
limitVars   == <<buckets, admitted>>
bounds      == <<mode, limiter, scope>>
vars == <<bounds, starts, now, accountVars, sessionVars, limitVars, req>>

Idle == [todo |-> <<>>, cred |-> <<"none">>, s |-> None, email |-> None, who |-> None,
         ctx |-> None, late |-> FALSE, did |-> {}, answer |-> "none"]

\* One user is there, or all of them and logged in when the requests are about
\* sessions; a session of that user's is live, and the row of another may be
\* left from before a restart.  Ids of sessions are not used twice.
Init ==
  /\ mode \in {"local", "cloud"} /\ scope \in Scopes
  /\ limiter \in IF scope = "account" THEN {"memory", "redis"} ELSE {"memory"}
  /\ starts = 0 /\ now = 0
  /\ LET first == CHOOSE u \in Users : TRUE
         e == CHOOSE x \in Emails : TRUE
         s == CHOOSE x \in Sessions : TRUE
     IN \E old \in Sessions :
       /\ users = [u \in Users |->
                     IF u = first THEN [email |-> e, state |-> "live"]
                     ELSE [email |-> None, state |-> IF scope = "session" THEN "live" ELSE "free"]]
       /\ token \in {t \in [Users -> {"none", "valid"}] :
                       \A u \in Users : t[u] = "valid" => mode = "cloud" /\ u = first}
       /\ jwts = IF mode = "local" THEN {} ELSE IF scope = "session" THEN Users ELSE {first}
       /\ row = [x \in Sessions |-> [org |-> IF mode = "cloud" THEN first ELSE "local",
                                      state |-> IF x \in {s, old} THEN "there" ELSE "unused"]]
       /\ live = {s}
  /\ buckets = [k \in {} |-> 0]
  /\ req = [r \in Requests |-> Idle]
  /\ admitted = [e \in Emails |-> [t \in 0..MaxNow |-> 0]]

-----------------------------------------------------------------------------
\* Answers.

Answered(rec, code) ==
  [rec EXCEPT !.todo = <<>>, !.cred = <<"none">>, !.email = None, !.who = None, !.answer = code]

Answer(r, code) == req' = [req EXCEPT ![r] = Answered(@, code)]

\* On to the next step; the status when there is none left.
Go(r, rec) ==
  LET t == Tail(req[r].todo) IN
  req' = [req EXCEPT ![r] = IF Len(t) = 1 THEN Answered(rec, t[1]) ELSE [rec EXCEPT !.todo = t]]

Step(r, name) == req[r].todo # <<>> /\ Head(req[r].todo) = name

\* toErrorResponse: what the errors of a step become.
ErrorCode(error) ==
  CASE error \in {"Zod", "Cursor", "InvalidInviteToken"} -> "400"
    [] error \in {"SessionNotFound", "PermissionRequestNotFound"} -> "404"
    [] error \in {"SessionNotLive", "InvalidTransition"} -> "409"
    [] OTHER -> "500"

Throw(r, error) == Answer(r, ErrorCode(error))

Does(r, effect) == [req[r] EXCEPT !.did = @ \cup {effect}]

-----------------------------------------------------------------------------
\* Requests come in.

\* Credentials a client can hold: none it was not given.
Creds == {<<"none">>} \cup {<<"jwt", u>> : u \in jwts}
           \cup {<<"token", u>> : u \in {v \in Users : token[v] # "none"}}

\* Mutant: routes that ask for the session themselves are left to do so.
PathUnguarded(route) ==
  (IF mode = "cloud" /\ route \notin PublicRoutes THEN <<"auth">> ELSE <<>>) \o route

\* handleRequest up to the route: isAuthExempt, the session's guard in cloud mode.
Path(route) ==
  (IF mode = "cloud" /\ route \notin PublicRoutes THEN <<"auth">> ELSE <<>>)
  \o (IF mode = "cloud" /\ route \in OnSession \ UpgradeRoutes THEN <<"get">> ELSE <<>>)
  \o route

RoutesOf(sc) ==
  IF sc = "account" THEN PublicRoutes \cup AccountRoutes
                    ELSE MemoryRoutes \cup CreateRoutes \cup OnSession

Start(r) ==
  /\ starts < MaxStarts[scope] /\ req[r].todo = <<>>
  /\ starts' = starts + 1
  /\ \E route \in RoutesOf(scope), cred \in Creds, s \in Sessions, e \in Emails :
       /\ route \in OnSession \/ s = CHOOSE x \in Sessions : TRUE
       /\ route \in PublicRoutes \/ e = CHOOSE x \in Emails : TRUE
       /\ (mode = "local" \/ route \in PublicRoutes) => cred = <<"none">>
       /\ req' = [req EXCEPT ![r] =
            [Idle EXCEPT !.todo = Path(route), !.cred = cred, !.s = s, !.email = e,
                         !.late = /\ cred[1] = "token"
                                   /\ \/ token[cred[2]] = "revoked"
                                      \/ users[cred[2]].state = "erased"]]
  /\ UNCHANGED <<bounds, now, accountVars, sessionVars, limitVars>>

\* Only the limiter tells the time: it starts with the first bucket.
Tick == /\ now < MaxNow /\ DOMAIN buckets # {} /\ now' = now + 1
        /\ UNCHANGED <<bounds, starts, accountVars, sessionVars, limitVars, req>>

-----------------------------------------------------------------------------
\* authMiddleware.

\* Mutant: the query does not ask for users that are not deleted.
LookupDeleted(u) == token[u] = "valid"

\* lookupApiToken's query.
Lookup(u) == token[u] = "valid" /\ users[u].state = "live"

\* jwtService.verify needs nothing but the key; any other token is looked up,
\* and its last use recorded.
Authenticate(r) ==
  LET c == req[r].cred IN
  /\ Step(r, "auth")
  /\ CASE c[1] = "jwt" -> Go(r, [req[r] EXCEPT !.ctx = c[2]])
       [] c[1] = "token" /\ Lookup(c[2]) ->
            req' = [req EXCEPT ![r].ctx = c[2], ![r].todo = <<"lastUsed">> \o Tail(@)]
       [] OTHER -> Answer(r, "401")
  /\ UNCHANGED <<bounds, starts, now, accountVars, sessionVars, limitVars>>

-----------------------------------------------------------------------------
\* The limiter.

Fresh(kind) == [count |-> 0, resetAt |-> now + Limits[kind].window]
Current(k, kind) == IF k \in DOMAIN buckets /\ buckets[k].resetAt > now THEN buckets[k] ELSE Fresh(kind)

\* Mutant: a collection forgets every bucket but the one in hand.
GcAll(bs, k) == IF Cardinality(DOMAIN bs) > GcAt THEN Restrict(bs, {k}) ELSE bs

\* InMemoryRateLimiter: past its size, the buckets whose window ended go.
Gc(bs, k) ==
  IF Cardinality(DOMAIN bs) > GcAt THEN Restrict(bs, {j \in DOMAIN bs : bs[j].resetAt > now}) ELSE bs

\* RedisRateLimiter: keys expire by themselves.
Expire(bs) == Restrict(bs, {j \in DOMAIN bs : bs[j].resetAt > now})

CheckOf == [loginIp |-> "limitLoginIp", loginEmail |-> "limitLoginEmail",
            registerIp |-> "limitRegisterIp", acceptIp |-> "limitAcceptIp"]

\* One check of enforceAuthRateLimit.  The refused attempt counts as well.
Limit(r) ==
  \E kind \in Kinds :
    LET k  == <<kind, IF kind = "loginEmail" THEN req[r].email ELSE "ip">>
        b  == [Current(k, kind) EXCEPT !.count = @ + 1]
        bs == [j \in DOMAIN buckets \cup {k} |-> IF j = k THEN b ELSE buckets[j]]
    IN /\ Step(r, CheckOf[kind])
       /\ buckets' = IF limiter = "memory" THEN Gc(bs, k) ELSE Expire(bs)
       /\ IF b.count <= Limits[kind].limit
          THEN /\ Go(r, req[r])
               /\ admitted' = IF kind = "loginEmail" THEN [admitted EXCEPT ![req[r].email][now] = @ + 1]
                                                     ELSE admitted
          ELSE Answer(r, "429") /\ UNCHANGED admitted
       /\ UNCHANGED <<bounds, starts, now, accountVars, sessionVars>>

-----------------------------------------------------------------------------
\* Steps that check.

\* Zod's parse, and a body that is not JSON.
Parse(r) ==
  /\ Step(r, "parse")
  /\ Go(r, req[r]) \/ Throw(r, "Zod") \/ Throw(r, "SyntaxError")
  /\ UNCHANGED <<bounds, starts, now, accountVars, sessionVars, limitVars>>

\* Malformed ids are not found, malformed refs are bad requests.
Param(r) ==
  /\ Step(r, "param")
  /\ Go(r, req[r]) \/ Answer(r, "404") \/ Answer(r, "400")
  /\ UNCHANGED <<bounds, starts, now, accountVars, sessionVars, limitVars>>

\* requireAuthStore and requireContext: a local daemon has neither.
Need(r) ==
  /\ \/ Step(r, "store") /\ (IF mode = "cloud" THEN Go(r, req[r]) ELSE Throw(r, "notConfigured"))
     \/ Step(r, "ctx") /\ (IF req[r].ctx # None THEN Go(r, req[r]) ELSE Throw(r, "noContext"))
  /\ UNCHANGED <<bounds, starts, now, accountVars, sessionVars, limitVars>>

\* Conditions other parts decide: the role, a billing customer, a signed event
\* of one of two types, a memory of the caller's, the mode.
Condition(r) ==
  /\ \/ Step(r, "owner")      /\ (Go(r, req[r]) \/ Answer(r, "403"))
     \/ Step(r, "customer")   /\ (Go(r, req[r]) \/ Answer(r, "400"))
     \/ Step(r, "event")      /\ (Go(r, req[r]) \/ Answer(r, "400") \/ Answer(r, "200") \/ Throw(r, "Stripe"))
     \/ Step(r, "found")      /\ (Go(r, req[r]) \/ Answer(r, "404"))
     \/ Step(r, "onlyLocal") /\ (IF mode = "cloud" THEN Answer(r, "400") ELSE Go(r, req[r]))
     \/ Step(r, "health")     /\ (Go(r, req[r]) \/ Answer(r, "503"))
  /\ UNCHANGED <<bounds, starts, now, accountVars, sessionVars, limitVars>>

\* checkQuota, when there is an organisation: any usage, any quota.
Quota(r) ==
  /\ Step(r, "quota")
  /\ Go(r, req[r]) \/ (req[r].ctx # None /\ Throw(r, "QuotaExceeded"))
  /\ UNCHANGED <<bounds, starts, now, accountVars, sessionVars, limitVars>>

\* getSession, with the caller's organisation or without.
GetSession(r) ==
  LET s == req[r].s IN
  /\ \/ Step(r, "get") /\ (IF row[s].state = "there" /\ req[r].ctx \in {None, row[s].org}
                           THEN Go(r, req[r]) ELSE Throw(r, "SessionNotFound"))
     \/ Step(r, "anyget") /\ (IF row[s].state = "there"
                              THEN Go(r, req[r]) ELSE Throw(r, "SessionNotFound"))
  /\ UNCHANGED <<bounds, starts, now, accountVars, sessionVars, limitVars>>

RequireLive(r) ==
  /\ Step(r, "live")
  /\ IF req[r].s \in live THEN Go(r, req[r]) ELSE Throw(r, "SessionNotLive")
  /\ UNCHANGED <<bounds, starts, now, accountVars, sessionVars, limitVars>>

-----------------------------------------------------------------------------
\* Accounts.

\* createOrg of the registration: one statement, kept whatever follows.
CreateOrg(r) ==
  /\ Step(r, "createOrg")
  /\ \E u \in Users :
       /\ users[u].state = "free"
       /\ users' = [users EXCEPT ![u] = [email |-> req[r].email, state |-> "org"]]
       /\ Go(r, [Does(r, "createOrg") EXCEPT !.who = u])
  /\ UNCHANGED <<bounds, starts, now, token, jwts, sessionVars, limitVars>>

Taken(e) == \E u \in Users : users[u].email = e /\ users[u].state = "live"

\* createUser, after bcrypt.hash: users.email is UNIQUE.
CreateUser(r) ==
  /\ Step(r, "createUser")
  /\ IF Taken(req[r].email) THEN Answer(r, "409") /\ UNCHANGED users
     ELSE /\ users' = [users EXCEPT ![req[r].who].state = "live"]
          /\ Go(r, Does(r, "createUser"))
  /\ UNCHANGED <<bounds, starts, now, token, jwts, sessionVars, limitVars>>

\* verifyPassword: the row is read before bcrypt.compare.
VerifyPassword(r) ==
  /\ Step(r, "verify")
  /\ \/ \E u \in Users : /\ users[u].email = req[r].email /\ users[u].state = "live"
                         /\ Go(r, [req[r] EXCEPT !.who = u])
     \/ Answer(r, "401")
  /\ UNCHANGED <<bounds, starts, now, accountVars, sessionVars, limitVars>>

Sign(r) ==
  /\ Step(r, "sign")
  /\ jwts' = jwts \cup {req[r].who}
  /\ Go(r, Does(r, "sign"))
  /\ UNCHANGED <<bounds, starts, now, users, token, sessionVars, limitVars>>

\* createApiToken, revokeApiToken and eraseUser, for the caller.
ChangeTokens(r) ==
  LET u == req[r].ctx IN
  /\ \/ /\ Step(r, "createToken") /\ token[u] = "none"
        /\ token' = [token EXCEPT ![u] = "valid"] /\ UNCHANGED users
        /\ Go(r, Does(r, "createToken"))
     \/ /\ Step(r, "revokeToken")
        /\ token' = [token EXCEPT ![u] = IF @ = "valid" THEN "revoked" ELSE @] /\ UNCHANGED users
        /\ Go(r, Does(r, "revokeToken"))
     \/ /\ Step(r, "erase")
        /\ token' = [token EXCEPT ![u] = IF @ = "valid" THEN "revoked" ELSE @]
        /\ users' = [users EXCEPT ![u] = [email |-> None, state |-> "erased"]]
        /\ Go(r, Does(r, "erase"))
  /\ UNCHANGED <<bounds, starts, now, jwts, sessionVars, limitVars>>

-----------------------------------------------------------------------------
\* Sessions.

\* createSession: what a failure leaves is SessionLifecycle's.
CreateSession(r) ==
  /\ Step(r, "createSession")
  /\ \/ \E s \in Sessions :
          /\ row[s].state = "unused"
          /\ row' = [row EXCEPT ![s] = [org |-> IF req[r].ctx = None THEN "local" ELSE req[r].ctx,
                                        state |-> "there"]]
          /\ live' = live \cup {s}
          /\ Go(r, [Does(r, "createSession") EXCEPT !.s = s])
     \/ Throw(r, "createSession") /\ UNCHANGED sessionVars
  /\ UNCHANGED <<bounds, starts, now, accountVars, limitVars>>

\* destroySession: the row, and in the same turn the session in memory.
Destroy(r) ==
  /\ Step(r, "destroy")
  /\ \/ /\ row' = [row EXCEPT ![req[r].s].state = "gone"] /\ live' = live \ {req[r].s}
        /\ Go(r, Does(r, "destroy"))
     \/ Throw(r, "destroySession") /\ UNCHANGED sessionVars
  /\ UNCHANGED <<bounds, starts, now, accountVars, limitVars>>

\* attach throws for a session that is not live.  The stream then carries one
\* error frame; the websocket's open callback has nothing to answer with.
Attach(r) ==
  /\ \/ Step(r, "attach") /\ Go(r, IF req[r].s \in live THEN Does(r, "attach") ELSE req[r])
     \/ Step(r, "upgrade") /\ (Go(r, req[r]) \/ Answer(r, "400"))
     \/ Step(r, "open") /\ Go(r, IF req[r].s \in live THEN Does(r, "attach") ELSE req[r])
  /\ UNCHANGED <<bounds, starts, now, accountVars, sessionVars, limitVars>>

\* A call fails before or after its work has begun.
Fails(r, code) ==
  \/ Answer(r, code)
  \/ req' = [req EXCEPT ![r] = Answered(Does(r, Head(req[r].todo)), code)]

\* Calls that change something.
Calls(r, names) ==
  /\ req[r].todo # <<>> /\ Head(req[r].todo) \in names
  /\ Go(r, Does(r, Head(req[r].todo))) \/ Fails(r, "500")
  /\ UNCHANGED <<bounds, starts, now, accountVars, sessionVars, limitVars>>

Refuses(r, name, error) ==
  /\ Step(r, name) /\ Throw(r, error)
  /\ UNCHANGED <<bounds, starts, now, accountVars, sessionVars, limitVars>>

\* acceptInvite, createInvite and updateOrgPlanByStripeCustomer.
CallAccounts(r) == Calls(r, {"accept", "invite", "plan"}) \/ Refuses(r, "accept", "InvalidInviteToken")

\* The session controller: startTask, approve, reject, restore and updateConfig.  The
\* engine is in another state when it is asked, and nothing is done; or it is so by
\* the time it would change its own, when it has started: it then fails its session.
CallSession(r) ==
  \/ Calls(r, {"work", "restore", "configure", "activate"})
  \/ /\ Step(r, "work") /\ Fails(r, ErrorCode("InvalidTransition"))
     /\ UNCHANGED <<bounds, starts, now, accountVars, sessionVars, limitVars>>

\* Streams, conversations, compaction, snapshots, the gate, agents, coordinator.
CallOthers(r) ==
  \/ Calls(r, {"memory", "restoreFiles", "background", "spawn", "kill", "resolve", "clear", "cancel", "compact"})
  \/ Refuses(r, "resolve", "PermissionRequestNotFound")

\* Steps that only read, bill, or write a file or a time of last use.
Other(r) ==
  LET name == Head(req[r].todo) IN
  /\ req[r].todo # <<>> /\ name \in {"read", "portal", "materialize", "bill", "unbill", "lastUsed"}
  /\ \/ Go(r, req[r])
     \/ name = "read" /\ Throw(r, "Cursor")
     \/ Answer(r, "500")
  /\ UNCHANGED <<bounds, starts, now, accountVars, sessionVars, limitVars>>

-----------------------------------------------------------------------------
Next ==
  \/ Tick
  \/ \E r \in Requests :
       \/ Start(r) \/ Authenticate(r) \/ Limit(r)
       \/ Parse(r) \/ Param(r) \/ Need(r) \/ Condition(r) \/ GetSession(r) \/ RequireLive(r)
       \/ CreateOrg(r) \/ CreateUser(r) \/ VerifyPassword(r) \/ Sign(r) \/ ChangeTokens(r)
       \/ CreateSession(r) \/ Destroy(r) \/ Attach(r)
       \/ Quota(r) \/ CallAccounts(r) \/ CallSession(r) \/ CallOthers(r) \/ Other(r)

Spec == Init /\ [][Next]_vars

-----------------------------------------------------------------------------
Orgs == Users \cup {"local"}
RequestType(q) ==
  /\ q.ctx \in Users \cup {None} /\ q.who \in Users \cup {None}
  /\ q.s \in Sessions \cup {None} /\ q.email \in Emails \cup {None}
  /\ q.did \subseteq Effects /\ q.answer \in Codes \cup {"none"}
  /\ q.todo # <<>> <=> q.answer = "none" /\ q.s # None

\* The shape of the state: a request is answered exactly when its handler has
\* nothing left to do.
TypeOK ==
  /\ mode \in {"local", "cloud"} /\ limiter \in {"memory", "redis"} /\ scope \in Scopes
  /\ starts \in 0..MaxStarts[scope] /\ now \in 0..MaxNow
  /\ users \in [Users -> [email : Emails \cup {None}, state : {"free", "org", "live", "erased"}]]
  /\ token \in [Users -> {"none", "valid", "revoked"}] /\ jwts \subseteq Users
  /\ row \in [Sessions -> [org : Orgs, state : {"unused", "there", "gone"}]] /\ live \subseteq Sessions
  /\ \A k \in DOMAIN buckets : buckets[k] \in [count : Nat, resetAt : Nat]
  /\ \A r \in Requests : RequestType(req[r])
  /\ \A e \in Emails : admitted[e] \in [0..MaxNow -> Nat]

\* A token of a user who erased their account, or revoked it, authenticates no
\* request that starts later: neither the tokens the erasure revoked nor one
\* made afterwards with a JWT that is still good (lookupApiToken, eraseUser).
ErasedLockedOut ==
  /\ TypeOK
  /\ \A r \in Requests : req[r].late => req[r].ctx = None

\* A request that is refused has changed nothing, however far its handler came
\* and whatever others did between its steps.  Two exceptions, both answered 409: a
\* registration refused for its address leaves its organisation behind, and a task,
\* an approval or a rejection that the engine took up while another was on its way
\* leaves the session in error.
RefusedLeavesNothing ==
  \A r \in Requests :
    req[r].answer \in Refusals =>
      \/ req[r].did = {}
      \/ req[r].answer = "409" /\ req[r].did \in {{"createOrg"}, {"work"}}

\* What a route does to a session.
OnSessionEffects ==
  {"createSession", "destroy", "attach", "restoreFiles", "activate", "background", "spawn", "kill",
   "resolve", "clear", "cancel", "compact", "work", "restore", "configure"}

\* In the cloud, whatever happens to a session was asked for by a member of its
\* organisation, also on the routes whose own code does not look at the
\* organisation at all (the guard before the session routes).
OwnOrgOnly ==
  mode = "cloud" =>
    \A r \in Requests :
      req[r].did \cap OnSessionEffects # {} => req[r].ctx = row[req[r].s].org

\* In no window of time, wherever it starts, does the limiter let through more
\* than twice its limit of attempts at one address, whatever is collected or
\* expires meanwhile (enforceAuthRateLimit over fixed windows).
AdmittedPerWindow ==
  \A e \in Emails, t \in 0..MaxNow :
    LET within == {x \in t..MaxNow : x < t + Limits["loginEmail"].window}
    IN FoldFunctionOnSet(LAMBDA a, b : a + b, 0, admitted[e], within) <= 2 * Limits["loginEmail"].limit

=============================================================================
