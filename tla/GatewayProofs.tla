---------------------------- MODULE GatewayProofs ----------------------------
(***************************************************************************)
(* Theorems about Gateway, for every set of requests, users and sessions,   *)
(* every limit and every bound.                                             *)
(***************************************************************************)
EXTENDS Gateway, FiniteSetTheorems, WellFoundedInduction, TLAPS

Routes == PublicRoutes \cup AccountRoutes \cup MemoryRoutes \cup CreateRoutes \cup OnSession

\* Steps whose failure is answered with a refusal.
Refusing == {"auth", "limitLoginIp", "limitLoginEmail", "limitRegisterIp", "limitAcceptIp",
             "parse", "param", "owner", "customer", "event", "found", "onlyLocal", "get", "anyget",
             "live", "createUser", "verify", "upgrade", "accept", "work", "resolve", "read"}

\* All steps, and the answers.
Words == Codes \cup Refusing \cup Effects \cup
         {"store", "ctx", "sign", "quota", "health", "portal", "materialize", "bill", "unbill",
          "lastUsed", "open"}

\* Steps after which something may have changed.
Changing == Effects \cup {"open"}

\* A list of steps ends in the answer of a success; nothing that can refuse
\* follows a change, but the user of a new organisation; who is signed in, or
\* made a user, was found or made in the step before.
Shaped(t) == t \in Seq(Words) /\ Len(t) >= 2 /\ t[Len(t)] \in Codes \ Refusals

Careful(t) == \A i, j \in 1..Len(t) :
  i < j /\ t[i] \in Changing =>
    \/ t[j] \notin Refusing \cup {"createOrg"}
    \/ t[i] = "createOrg" /\ j = i + 1 /\ t[j] = "createUser"

Identified(t) == \A j \in 2..Len(t) :
  /\ t[j] = "sign" => t[j - 1] = "verify"
  /\ t[j] = "createUser" => t[j - 1] = "createOrg"

\* Authentication comes first or not at all.
Fits(t) == Shaped(t) /\ Careful(t) /\ Identified(t) /\ \A j \in 2..Len(t) : t[j] # "auth"

Credentials == {<<"none">>} \cup ({"jwt", "token"} \X Users)

RequestRecords ==
  [todo : Seq(Words), cred : Credentials, s : Sessions \cup {None}, email : Emails \cup {None},
   who : Users \cup {None}, ctx : Users \cup {None}, late : BOOLEAN, did : SUBSET Effects,
   answer : Codes \cup {"none"}]

At(q, name) == q.todo # <<>> /\ Head(q.todo) = name

\* The types, in parts: the data, the requests, what the limiter counts.
Ground ==
  /\ mode \in {"local", "cloud"}
  /\ users \in [Users -> [email : Emails \cup {None}, state : {"free", "org", "live", "erased"}]]
  /\ token \in [Users -> {"none", "valid", "revoked"}] /\ jwts \subseteq Users
  /\ row \in [Sessions -> [org : Orgs, state : {"unused", "there", "gone"}]] /\ live \subseteq Sessions

Asked ==
  /\ req \in [Requests -> RequestRecords]
  /\ \A r \in Requests :
       LET q == req[r] IN
       /\ q.todo # <<>> => Fits(q.todo) /\ q.answer = "none" /\ q.s # None
       /\ q.todo = <<>> => q.answer # "none" \/ q.s = None
       /\ At(q, "sign") \/ At(q, "createUser") => q.who \in Users

Counted ==
  /\ limiter \in {"memory", "redis"} /\ scope \in Scopes
  /\ starts \in 0..MaxStarts[scope] /\ now \in 0..MaxNow
  /\ \A k \in DOMAIN buckets : buckets[k] \in [count : Nat, resetAt : Nat]
  /\ admitted \in [Emails -> [0..MaxNow -> Nat]]

\* A request that has changed something meets no step that refuses.
Untouched == \A r \in Requests :
  LET q == req[r] IN
  /\ q.answer \in Refusals => q.did = {} \/ (q.answer = "409" /\ q.did \in {{"createOrg"}, {"work"}})
  /\ At(q, "auth") => q.ctx = None /\ q.did = {}
  /\ q.did # {} => \A j \in 1..Len(q.todo) :
       \/ q.todo[j] \notin Refusing \cup {"createOrg"}
       \/ q.did = {"createOrg"} /\ j = 1 /\ q.todo[j] = "createUser"

\* Whoever holds a credential has registered; a user being made is yet an
\* organisation, of one request.
Registered(u) == users[u].state \in {"live", "erased"}

Accounts ==
  /\ \A u \in Users : u \in jwts \/ token[u] # "none" => Registered(u)
  /\ \A r \in Requests :
       /\ req[r].ctx # None => Registered(req[r].ctx)
       /\ req[r].cred # <<"none">> => Registered(req[r].cred[2])
       /\ At(req[r], "sign") => Registered(req[r].who)
       /\ At(req[r], "createUser") => users[req[r].who].state = "org"
  /\ \A q, r \in Requests :
       At(req[q], "createUser") /\ At(req[r], "createUser") /\ req[q].who = req[r].who => q = r

\* The credential of a late request does not come back to life.
Dead(c) == c[1] = "token" /\ (token[c[2]] = "revoked" \/ users[c[2]].state = "erased")

LockedOut == \A r \in Requests :
  req[r].late => req[r].ctx = None /\ (At(req[r], "auth") => Dead(req[r].cred))

\* The session of a request belongs, by the rows given, to the organisation of
\* its caller.
Theirs(q, rows) == q.ctx \in Users /\ q.s \in Sessions
                   /\ rows[q.s].state # "unused" /\ q.ctx = rows[q.s].org

\* Steps that reach the session of the request.
Reaching == (OnSessionEffects \ {"createSession"}) \cup {"open"}

\* A step that reaches a session is still to be checked, or is the caller's;
\* what asks who the caller is comes after authentication.
GuardedBy(q, rows) ==
  /\ q.did \cap OnSessionEffects # {} => Theirs(q, rows)
  /\ \A j \in 1..Len(q.todo) :
       /\ q.todo[j] \in Reaching => Theirs(q, rows) \/ \E i \in 1..(j - 1) : q.todo[i] = "get"
       /\ q.todo[j] \in {"get", "createSession"} => q.ctx \in Users \/ At(q, "auth")

Guarded == mode = "cloud" => \A r \in Requests : GuardedBy(req[r], row)

-----------------------------------------------------------------------------
\* Lists of steps.

\* A route is a list of two to seven steps.
LEMMA Spans ==
  /\ 1..2 = {1, 2} /\ 1..3 = {1, 2, 3} /\ 1..4 = {1, 2, 3, 4} /\ 1..5 = {1, 2, 3, 4, 5}
  /\ 1..6 = {1, 2, 3, 4, 5, 6} /\ 1..7 = {1, 2, 3, 4, 5, 6, 7}
OBVIOUS

LEMMA Length ==
  ASSUME NEW t, NEW n \in Nat, DOMAIN t = 1..n
  PROVE  Len(t) = n
OBVIOUS

LEMMA RoutesLength ==
  ASSUME NEW t \in Routes
  PROVE  Len(t) \in 2..7 /\ 1..Len(t) = DOMAIN t
<1>1. \E n \in 2..7 : DOMAIN t = 1..n
  BY Spans DEF Routes, OnSession, PublicRoutes, AccountRoutes, MemoryRoutes, CreateRoutes,
               SessionRoutes, StreamRoutes, SnapshotRoutes, AgentRoutes, MessageRoutes, PIVRoutes,
               ConfigRoutes, UpgradeRoutes
<1>2. QED BY <1>1, Length

\* Every route ends in a success, refuses before it changes anything, and knows
\* whom it signs in.
LEMMA RoutesFit ==
  ASSUME NEW t \in Routes
  PROVE  /\ Fits(t) /\ t[1] \notin {"sign", "createUser", "auth"}
<1> USE DEF Routes, OnSession, PublicRoutes, AccountRoutes, MemoryRoutes, CreateRoutes, SessionRoutes,
            StreamRoutes, SnapshotRoutes, AgentRoutes, MessageRoutes, PIVRoutes, ConfigRoutes,
            UpgradeRoutes
<1>1. Routes \subseteq Seq(Words) BY DEF Words, Codes, Refusing, Effects
<1>2. {x[Len(x)] : x \in Routes} \subseteq Codes \ Refusals BY DEF Codes, Refusals
<1>3. Len(t) \in 2..7 /\ 1..Len(t) = DOMAIN t BY RoutesLength
<1>4. Careful(t) BY <1>3, SMTT(30) DEF Careful, Changing, Effects, Refusing
<1>5. Identified(t) BY <1>3, SMTT(30) DEF Identified
<1>6. \A j \in 1..Len(t) : t[j] # "auth" BY <1>3, SMTT(30)
<1>7. t[1] \notin {"sign", "createUser", "auth"} BY SMTT(30)
<1> HIDE DEF Routes
<1>8. Shaped(t)
  <2>1. t \in Seq(Words) BY <1>1
  <2>2. t[Len(t)] \in Codes \ Refusals BY <1>2
  <2>3. Len(t) >= 2 BY <1>3
  <2>4. QED BY <2>1, <2>2, <2>3 DEF Shaped
<1>9. \A j \in 2..Len(t) : t[j] # "auth"
  <2>1. Len(t) \in Nat BY <1>8 DEF Shaped
  <2>2. QED BY <1>6, <2>1
<1>10. QED BY <1>4, <1>5, <1>7, <1>8, <1>9 DEF Fits

\* Routes for anyone reach no session and make none; the others that are not
\* on a session reach none; an upgrade asks for the session itself.
LEMMA RoutesGuarded ==
  ASSUME NEW t \in Routes
  PROVE  /\ t \in PublicRoutes =>
              \A j \in 1..Len(t) : t[j] \notin Reaching \cup {"get", "createSession"}
         /\ t \notin OnSession => \A j \in 1..Len(t) : t[j] \notin Reaching
         /\ t \in UpgradeRoutes =>
              \A j \in 1..Len(t) : t[j] \in Reaching => \E i \in 1..(j - 1) : t[i] = "get"
         /\ t \notin PublicRoutes \cap OnSession
<1>0. Len(t) \in 2..7 /\ 1..Len(t) = DOMAIN t BY RoutesLength
<1>1. ASSUME t \in PublicRoutes, NEW j \in 1..Len(t)
      PROVE  t[j] \notin Reaching \cup {"get", "createSession"}
  BY <1>0, <1>1, SMTT(30) DEF PublicRoutes, Reaching, OnSessionEffects
<1>2. ASSUME t \notin OnSession, NEW j \in 1..Len(t) PROVE t[j] \notin Reaching
  <2>1. t \in PublicRoutes \cup AccountRoutes \cup MemoryRoutes \cup CreateRoutes
    BY <1>2 DEF Routes
  <2>2. QED
    BY <1>0, <2>1, SMTT(30)
    DEF PublicRoutes, AccountRoutes, MemoryRoutes, CreateRoutes, Reaching, OnSessionEffects
<1>3. ASSUME t \in UpgradeRoutes, NEW j \in 1..Len(t), t[j] \in Reaching
      PROVE  \E i \in 1..(j - 1) : t[i] = "get"
  BY <1>0, <1>3, SMTT(30) DEF UpgradeRoutes, Reaching, OnSessionEffects
<1>4. t \notin PublicRoutes \cap OnSession
  <2> DEFINE Own == Reaching \cup {"get", "anyget"}
  <2>1. ASSUME t \in PublicRoutes, NEW j \in 1..Len(t) PROVE t[j] \notin Own
    BY <1>0, <2>1, SMTT(30) DEF PublicRoutes, Reaching, OnSessionEffects
  <2>2. ASSUME t \in OnSession PROVE \E j \in 1..Len(t) : t[j] \in Own
    BY <1>0, <2>2, SMTT(30)
    DEF OnSession, SessionRoutes, StreamRoutes, SnapshotRoutes, AgentRoutes, MessageRoutes,
        PIVRoutes, ConfigRoutes, UpgradeRoutes, Reaching, OnSessionEffects
  <2> HIDE DEF Own
  <2>3. QED BY <2>1, <2>2
<1>5. QED BY <1>1, <1>2, <1>3, <1>4

\* What handleRequest puts in front of a route.
Fronts == {<<>>, <<"auth">>, <<"get">>, <<"auth", "get">>}

LEMMA SameSeq ==
  ASSUME NEW S, NEW u \in Seq(S), NEW v \in Seq(S),
         Len(u) = Len(v), \A i \in 1..Len(u) : u[i] = v[i]
  PROVE  u = v
OBVIOUS

LEMMA Pair ==
  ASSUME NEW S, NEW a \in S, NEW b \in S
  PROVE  <<a>> \o <<b>> = <<a, b>>
<1> DEFINE u == <<a>> \o <<b>>
           v == <<a, b>>
<1>1. u \in Seq(S) /\ Len(u) = 2 /\ u[1] = a /\ u[2] = b OBVIOUS
<1>2. v \in Seq(S) /\ Len(v) = 2 /\ v[1] = a /\ v[2] = b OBVIOUS
<1> HIDE DEF u, v
<1>3. \A i \in 1..Len(u) : i = 1 \/ i = 2 BY <1>1
<1>4. u = v BY <1>1, <1>2, <1>3, SameSeq
<1>5. QED BY <1>4 DEF u, v

LEMMA BothFronts == <<"auth">> \o <<"get">> = <<"auth", "get">>
<1>1. "auth" \in {"auth", "get"} /\ "get" \in {"auth", "get"} OBVIOUS
<1>2. QED BY <1>1, Pair, Zenon

LEMMA FrontsShort ==
  ASSUME NEW p \in Fronts
  PROVE  p \in Seq(Words) /\ Len(p) \in 0..2
<1>1. Fronts \subseteq Seq(Words) BY DEF Fronts, Words, Refusing
<1>2. Len(p) = 0 \/ Len(p) = 1 \/ Len(p) = 2 BY DEF Fronts
<1>3. QED BY <1>1, <1>2

LEMMA FrontFits ==
  ASSUME NEW t, Fits(t), t[1] \notin {"sign", "createUser", "auth"},
         NEW p \in Fronts, NEW u, u = p \o t
  PROVE  /\ Len(u) = Len(p) + Len(t)
         /\ \A j \in 1..Len(p) : u[j] = p[j]
         /\ \A j \in (Len(p) + 1)..Len(u) : u[j] = t[j - Len(p)]
         /\ Fits(u) /\ u[1] \notin {"sign", "createUser"}
<1>1. p \in Seq(Words) /\ Len(p) \in 0..2 BY FrontsShort
<1>2. t \in Seq(Words) /\ Len(t) \in Nat /\ Len(t) >= 2 BY DEF Fits, Shaped
<1>3. u \in Seq(Words) /\ Len(u) = Len(p) + Len(t) BY <1>1, <1>2
<1>4. \A j \in 1..Len(p) : u[j] = p[j] BY <1>1, <1>2
<1>5. \A j \in (Len(p) + 1)..Len(u) : u[j] = t[j - Len(p)] BY <1>1, <1>2, <1>3
<1>6. \A j \in 1..Len(p) : p[j] \in {"auth", "get"} /\ (j # 1 => p[j] = "get")
  <2>1. Len(p) <= 2 /\ (Len(p) = 2 => p[2] = "get") /\ (Len(p) >= 1 => p[1] \in {"auth", "get"})
    <3>1. CASE p = <<>> BY <3>1
    <3>2. CASE p = <<"auth">> BY <3>2
    <3>3. CASE p = <<"get">> BY <3>3
    <3>4. CASE p = <<"auth", "get">> BY <3>4
    <3>5. QED BY <3>1, <3>2, <3>3, <3>4 DEF Fronts
  <2>2. ASSUME NEW j \in 1..Len(p) PROVE j = 1 \/ (j = 2 /\ Len(p) = 2) BY <1>1
  <2>3. ASSUME NEW j \in 1..Len(p) PROVE p[j] \in {"auth", "get"} /\ (j # 1 => p[j] = "get")
    <3>1. CASE j = 1 BY <1>1, <2>1, <3>1
    <3>2. CASE j = 2 /\ Len(p) = 2 BY <2>1, <3>2
    <3>3. QED BY <2>2, <3>1, <3>2
  <2>4. QED BY <2>3
<1>7. \A j \in 1..Len(u) :
         \/ j <= Len(p) /\ u[j] \in {"auth", "get"} /\ (j # 1 => u[j] = "get")
         \/ j > Len(p) /\ j - Len(p) \in 1..Len(t) /\ u[j] = t[j - Len(p)]
  BY <1>1, <1>2, <1>3, <1>4, <1>5, <1>6
<1>8. Shaped(u)
  <2>1. u[Len(u)] = t[Len(t)] BY <1>1, <1>2, <1>3, <1>5
  <2>2. QED BY <1>1, <1>2, <1>3, <2>1 DEF Fits, Shaped
<1>9. Careful(u)
  <2> SUFFICES ASSUME NEW i \in 1..Len(u), NEW j \in 1..Len(u), i < j, u[i] \in Changing
               PROVE  \/ u[j] \notin Refusing \cup {"createOrg"}
                      \/ u[i] = "createOrg" /\ j = i + 1 /\ u[j] = "createUser"
    BY DEF Careful
  <2>1. u[i] \notin {"auth", "get"} BY DEF Changing, Effects
  <2>2. i > Len(p) /\ i - Len(p) \in 1..Len(t) /\ u[i] = t[i - Len(p)] BY <1>7, <2>1
  <2>3. j > Len(p) /\ j - Len(p) \in 1..Len(t) /\ u[j] = t[j - Len(p)]
    BY <1>1, <1>3, <1>7, <2>2
  <2>4. i - Len(p) < j - Len(p) BY <1>1
  <2>5. QED BY <1>1, <2>2, <2>3, <2>4 DEF Fits, Careful
<1>10. Identified(u)
  <2> SUFFICES ASSUME NEW j \in 2..Len(u), u[j] \in {"sign", "createUser"}
               PROVE  /\ u[j] = "sign" => u[j - 1] = "verify"
                      /\ u[j] = "createUser" => u[j - 1] = "createOrg"
    BY DEF Identified
  <2>0. j \in 1..Len(u) BY <1>1, <1>2, <1>3
  <2>1. j > Len(p) /\ j - Len(p) \in 1..Len(t) /\ u[j] = t[j - Len(p)] BY <1>7, <2>0
  <2>2. j - Len(p) # 1 BY <2>1
  <2>3. j - Len(p) \in 2..Len(t) /\ j - 1 \in (Len(p) + 1)..Len(u) /\ (j - 1) - Len(p) = (j - Len(p)) - 1
    BY <1>1, <1>2, <1>3, <2>0, <2>1, <2>2
  <2>4. u[j - 1] = t[(j - Len(p)) - 1] BY <1>5, <2>3
  <2>5. QED BY <2>1, <2>3, <2>4 DEF Fits, Identified
<1>11. \A j \in 2..Len(u) : u[j] # "auth"
  <2> SUFFICES ASSUME NEW j \in 2..Len(u) PROVE u[j] # "auth" OBVIOUS
  <2>0. j \in 1..Len(u) BY <1>1, <1>2, <1>3
  <2>1. CASE j <= Len(p) BY <1>7, <2>0, <2>1
  <2>2. CASE j > Len(p)
    <3>1. j - Len(p) \in 1..Len(t) /\ u[j] = t[j - Len(p)] BY <1>1, <1>7, <2>0, <2>2
    <3>2. CASE j - Len(p) = 1 BY <3>1, <3>2
    <3>3. CASE j - Len(p) # 1 BY <1>2, <3>1, <3>3 DEF Fits
    <3>4. QED BY <3>2, <3>3
  <2>3. QED BY <1>1, <2>0, <2>1, <2>2
<1>12. u[1] \notin {"sign", "createUser"}
  <2>1. CASE Len(p) = 0 BY <1>1, <1>2, <1>3, <1>5, <2>1
  <2>2. CASE Len(p) # 0 BY <1>1, <1>4, <1>6, <2>2
  <2>3. QED BY <2>1, <2>2
<1>13. QED BY <1>3, <1>4, <1>5, <1>8, <1>9, <1>10, <1>11, <1>12 DEF Fits

\* The rest of a list, when it is not the answer alone.
LEMMA TailFits ==
  ASSUME NEW t, Fits(t)
  PROVE  /\ t \in Seq(Words) /\ t # <<>> /\ Head(t) = t[1] /\ Len(t) \in Nat /\ Len(t) >= 2
         /\ Tail(t) \in Seq(Words) /\ Len(Tail(t)) = Len(t) - 1
         /\ \A j \in 1..Len(Tail(t)) : Tail(t)[j] = t[j + 1]
         /\ Len(t) = 2 => Tail(t)[1] \in Codes \ Refusals
         /\ Len(t) # 2 => Fits(Tail(t))
<1> DEFINE u == Tail(t)
<1>1. t \in Seq(Words) /\ Len(t) \in Nat /\ Len(t) >= 2 /\ t # <<>> /\ Head(t) = t[1] BY DEF Fits, Shaped
<1>2. u \in Seq(Words) /\ Len(u) = Len(t) - 1 BY <1>1
<1>3. \A j \in 1..Len(u) : u[j] = t[j + 1] BY <1>1
<1> HIDE DEF u
<1>4. u[Len(u)] = t[Len(t)] BY <1>1, <1>2, <1>3
<1>5. Len(t) = 2 => u[1] \in Codes \ Refusals BY <1>1, <1>2, <1>4 DEF Fits, Shaped
<1>6. ASSUME Len(t) # 2 PROVE Fits(u)
  <2>1. Shaped(u) BY <1>1, <1>2, <1>4, <1>6 DEF Fits, Shaped
  <2>2. Careful(u)
    <3> SUFFICES ASSUME NEW i \in 1..Len(u), NEW j \in 1..Len(u), i < j, u[i] \in Changing
                 PROVE  \/ u[j] \notin Refusing \cup {"createOrg"}
                        \/ u[i] = "createOrg" /\ j = i + 1 /\ u[j] = "createUser"
      BY DEF Careful
    <3>1. i + 1 \in 1..Len(t) /\ j + 1 \in 1..Len(t) /\ i + 1 < j + 1 BY <1>1, <1>2
    <3>2. u[i] = t[i + 1] /\ u[j] = t[j + 1] BY <1>3
    <3>3. QED BY <3>1, <3>2 DEF Fits, Careful
  <2>3. Identified(u)
    <3> SUFFICES ASSUME NEW j \in 2..Len(u)
                 PROVE  /\ u[j] = "sign" => u[j - 1] = "verify"
                        /\ u[j] = "createUser" => u[j - 1] = "createOrg"
      BY DEF Identified
    <3>1. j + 1 \in 2..Len(t) /\ j \in 1..Len(u) /\ j - 1 \in 1..Len(u) /\ (j + 1) - 1 = (j - 1) + 1
      BY <1>1, <1>2
    <3>2. u[j] = t[j + 1] /\ u[j - 1] = t[(j + 1) - 1] BY <1>3, <3>1
    <3>3. QED BY <3>1, <3>2 DEF Fits, Identified
  <2>4. \A j \in 2..Len(u) : u[j] # "auth"
    <3> SUFFICES ASSUME NEW j \in 2..Len(u) PROVE u[j] # "auth" OBVIOUS
    <3>1. j \in 1..Len(u) /\ j + 1 \in 2..Len(t) BY <1>1, <1>2
    <3>2. QED BY <1>3, <3>1 DEF Fits
  <2>5. QED BY <2>1, <2>2, <2>3, <2>4 DEF Fits
<1>7. QED BY <1>1, <1>2, <1>3, <1>5, <1>6 DEF u

LEMMA UsedFirst ==
  ASSUME NEW v \in Seq(Words), NEW u, u = <<"lastUsed">> \o v
  PROVE  /\ u \in Seq(Words) /\ Len(u) = Len(v) + 1 /\ u[1] = "lastUsed"
         /\ \A j \in 2..Len(u) : u[j] = v[j - 1]
<1>1. "lastUsed" \in Words BY DEF Words
<1>2. u \in Seq(Words) BY <1>1
<1>3. Len(u) = Len(v) + 1 OBVIOUS
<1>4. u[1] = "lastUsed" OBVIOUS
<1>5. \A j \in 2..Len(u) : u[j] = v[j - 1] BY <1>3
<1>6. QED BY <1>2, <1>3, <1>4, <1>5

\* The list after a token was found: its last use comes first.
LEMMA UsedFits ==
  ASSUME NEW t, Fits(t), t[1] = "auth", NEW u, u = <<"lastUsed">> \o Tail(t)
  PROVE  /\ Len(u) = Len(t) /\ u[1] = "lastUsed" /\ \A j \in 2..Len(u) : u[j] = t[j]
         /\ Fits(u)
<1>1. /\ t \in Seq(Words) /\ Len(t) \in Nat /\ Len(t) >= 2
      /\ Tail(t) \in Seq(Words) /\ Len(Tail(t)) = Len(t) - 1
      /\ \A j \in 1..Len(Tail(t)) : Tail(t)[j] = t[j + 1]
  BY TailFits
<1> DEFINE v == Tail(t)
<1> HIDE DEF v
<1>2. v \in Seq(Words) /\ Len(v) = Len(t) - 1 /\ \A j \in 1..Len(v) : v[j] = t[j + 1]
  BY <1>1 DEF v
<1>3. u = <<"lastUsed">> \o v BY DEF v
<1>5. u \in Seq(Words) /\ Len(u) = Len(v) + 1 /\ u[1] = "lastUsed" /\ \A j \in 2..Len(u) : u[j] = v[j - 1]
  BY <1>2, <1>3, UsedFirst
<1>6. u[1] = "lastUsed" BY <1>5
<1>7. \A j \in 2..Len(u) : u[j] = v[j - 1] BY <1>5
<1>8. \A j \in 2..Len(u) : u[j] = t[j] /\ j \in 2..Len(t)
  <2> SUFFICES ASSUME NEW j \in 2..Len(u) PROVE u[j] = t[j] /\ j \in 2..Len(t) OBVIOUS
  <2>1. j - 1 \in 1..Len(v) /\ (j - 1) + 1 = j /\ j \in 2..Len(t) BY <1>1, <1>2, <1>5
  <2>2. QED BY <1>2, <1>7, <2>1
<1>9. Len(u) = Len(t) BY <1>1, <1>2, <1>5
<1>10. Shaped(u) BY <1>1, <1>5, <1>8, <1>9 DEF Fits, Shaped
<1>11. Careful(u)
  <2> SUFFICES ASSUME NEW i \in 1..Len(u), NEW j \in 1..Len(u), i < j, u[i] \in Changing
               PROVE  \/ u[j] \notin Refusing \cup {"createOrg"}
                      \/ u[i] = "createOrg" /\ j = i + 1 /\ u[j] = "createUser"
    BY DEF Careful
  <2>1. i # 1 BY <1>6 DEF Changing, Effects
  <2>2. i \in 2..Len(u) /\ j \in 2..Len(u) /\ i \in 1..Len(t) /\ j \in 1..Len(t) BY <1>1, <1>9, <2>1
  <2>3. u[i] = t[i] /\ u[j] = t[j] BY <1>8, <2>2
  <2>4. QED BY <2>2, <2>3 DEF Fits, Careful
<1>12. Identified(u)
  <2> SUFFICES ASSUME NEW j \in 2..Len(u)
               PROVE  /\ u[j] = "sign" => u[j - 1] = "verify"
                      /\ u[j] = "createUser" => u[j - 1] = "createOrg"
    BY DEF Identified
  <2>1. u[j] = t[j] /\ j \in 2..Len(t) BY <1>8
  <2>2. /\ t[j] = "sign" => t[j - 1] = "verify"
        /\ t[j] = "createUser" => t[j - 1] = "createOrg"
    BY <2>1 DEF Fits, Identified
  <2>3. CASE j = 2 BY <2>1, <2>2, <2>3
  <2>4. CASE j # 2
    <3>1. j - 1 \in 2..Len(u) BY <1>1, <1>9, <2>4
    <3>2. u[j - 1] = t[j - 1] BY <1>8, <3>1
    <3>3. QED BY <2>1, <2>2, <3>2
  <2>5. QED BY <2>3, <2>4
<1>13. QED BY <1>6, <1>8, <1>9, <1>10, <1>11, <1>12 DEF Fits

-----------------------------------------------------------------------------
\* What becomes of a request.

\* q is what is left of rec, a request at the first step of t.
Went(t, rec, q) ==
  /\ q \in RequestRecords
  /\ q.ctx = rec.ctx /\ q.did = rec.did /\ q.s = rec.s /\ q.late = rec.late
  /\ \/ q.todo = <<>> /\ q.answer \in Codes \ Refusals /\ q.cred = <<"none">>
     \/ /\ Len(t) > 2 /\ q.todo = Tail(t) /\ Fits(q.todo) /\ q.answer = "none"
        /\ q.cred = rec.cred /\ q.who = rec.who

\* q is rec, answered with code.
Ended(rec, code, q) ==
  /\ q \in RequestRecords
  /\ q.ctx = rec.ctx /\ q.did = rec.did /\ q.s = rec.s /\ q.late = rec.late
  /\ q.todo = <<>> /\ q.answer = code /\ q.cred = <<"none">>

LEMMA AnsweredTyped ==
  ASSUME NEW rec \in RequestRecords, NEW code \in Codes, NEW q, q = Answered(rec, code)
  PROVE  Ended(rec, code, q)
<1>1. <<>> \in Seq(Words) /\ <<"none">> \in Credentials BY DEF Credentials
<1>2. q = [rec EXCEPT !.todo = <<>>, !.cred = <<"none">>, !.email = None, !.who = None, !.answer = code]
  BY DEF Answered
<1>3. q \in RequestRecords BY <1>1, <1>2 DEF RequestRecords
<1>4. /\ q.ctx = rec.ctx /\ q.did = rec.did /\ q.s = rec.s /\ q.late = rec.late
      /\ q.todo = <<>> /\ q.answer = code /\ q.cred = <<"none">>
  BY <1>2 DEF RequestRecords
<1>5. QED BY <1>3, <1>4 DEF Ended

LEMMA GoOn ==
  ASSUME Asked, NEW r \in Requests, req[r].todo # <<>>,
         NEW rec \in RequestRecords, rec.answer = "none", Go(r, rec)
  PROVE  \E q : req' = [req EXCEPT ![r] = q] /\ Went(req[r].todo, rec, q)
<1> DEFINE t == req[r].todo
           q == IF Len(Tail(t)) = 1 THEN Answered(rec, Tail(t)[1]) ELSE [rec EXCEPT !.todo = Tail(t)]
<1>1. req' = [req EXCEPT ![r] = q] BY DEF Go
<1>2. Fits(t) BY DEF Asked
<1>3. /\ Len(t) \in Nat /\ Len(t) >= 2 /\ Tail(t) \in Seq(Words) /\ Len(Tail(t)) = Len(t) - 1
      /\ Len(t) = 2 => Tail(t)[1] \in Codes \ Refusals
      /\ Len(t) # 2 => Fits(Tail(t))
  BY <1>2, TailFits
<1> HIDE DEF t
<1>4. CASE Len(t) = 2
  <2>1. q = Answered(rec, Tail(t)[1]) BY <1>3, <1>4
  <2>2. Tail(t)[1] \in Codes BY <1>3, <1>4
  <2>3. Ended(rec, Tail(t)[1], q) BY <2>1, <2>2, AnsweredTyped
  <2>4. Went(t, rec, q) BY <1>3, <1>4, <2>3 DEF Went, Ended
  <2>5. QED BY <1>1, <2>4 DEF t
<1>5. CASE Len(t) # 2
  <2>1. q = [rec EXCEPT !.todo = Tail(t)] BY <1>3, <1>5
  <2>2. [rec EXCEPT !.todo = Tail(t)] \in RequestRecords BY <1>3 DEF RequestRecords
  <2>3. /\ q.ctx = rec.ctx /\ q.did = rec.did /\ q.s = rec.s /\ q.late = rec.late
        /\ q.todo = Tail(t) /\ q.answer = "none" /\ q.cred = rec.cred /\ q.who = rec.who
    BY <2>1 DEF RequestRecords
  <2>4. Len(t) > 2 BY <1>3, <1>5
  <2>5. QED BY <1>1, <1>3, <1>5, <2>1, <2>2, <2>3, <2>4 DEF Went, t
<1>6. QED BY <1>4, <1>5

LEMMA AnswerEnds ==
  ASSUME Asked, NEW r \in Requests, NEW code \in Codes, Answer(r, code)
  PROVE  \E q : req' = [req EXCEPT ![r] = q] /\ Ended(req[r], code, q)
<1> DEFINE q == Answered(req[r], code)
<1>1. req' = [req EXCEPT ![r] = q] BY DEF Answer
<1>2. req[r] \in RequestRecords BY DEF Asked
<1>3. Ended(req[r], code, q) BY <1>2, AnsweredTyped
<1>4. QED BY <1>1, <1>3

-----------------------------------------------------------------------------
\* What the steps of a request come to.

Same == UNCHANGED <<mode, users, token, jwts, row, live>>

\* Answered at once: with a refusal only by a step that refuses.
Refused(r) ==
  /\ req[r].todo # <<>> /\ Same
  /\ \E code \in Codes :
       /\ Answer(r, code)
       /\ code \in Refusals =>
            Head(req[r].todo) \in Refusing /\ (Head(req[r].todo) = "createUser" => code = "409")

\* On, with nothing changed.
Passed(r) ==
  LET q == req[r] IN
  /\ q.todo # <<>> /\ Same /\ Go(r, q)
  /\ Head(q.todo) \notin {"auth", "createOrg", "createUser", "verify", "sign"}
  /\ Head(q.todo) = "get" => row[q.s].state = "there" /\ q.ctx \in {None, row[q.s].org}

\* On, with a call to another part made.
Called(r) ==
  /\ req[r].todo # <<>> /\ Same
  /\ \E e \in Effects \ {"createOrg", "createUser", "sign", "createSession"} :
       /\ Go(r, Does(r, e))
       /\ Head(req[r].todo) = e \/ (Head(req[r].todo) = "open" /\ e = "attach")

\* A call to another part failed, having changed something: it is refused by the
\* engine, which fails its session, or answered 500.
FailedCode(e, code) == code \in Refusals => e = "work" /\ code = "409"

Failed(r) ==
  /\ req[r].todo # <<>> /\ Same
  /\ \E code \in Codes :
       LET e == Head(req[r].todo) IN
       /\ e \in Effects \ {"createOrg", "createUser", "sign", "createSession"} /\ FailedCode(e, code)
       /\ req' = [req EXCEPT ![r] = Answered(Does(r, e), code)]

ByJwt(r) ==
  /\ Step(r, "auth") /\ req[r].cred[1] = "jwt" /\ Same
  /\ Go(r, [req[r] EXCEPT !.ctx = req[r].cred[2]])

ByToken(r) ==
  LET c == req[r].cred IN
  /\ Step(r, "auth") /\ c[1] = "token" /\ Lookup(c[2]) /\ Same
  /\ req' = [req EXCEPT ![r].ctx = c[2], ![r].todo = <<"lastUsed">> \o Tail(@)]

Found(r) ==
  /\ Step(r, "verify") /\ Same
  /\ \E u \in Users : users[u].state = "live" /\ Go(r, [req[r] EXCEPT !.who = u])

Made(r) ==
  /\ Step(r, "createUser") /\ UNCHANGED <<mode, token, jwts, row, live>>
  /\ users' = [users EXCEPT ![req[r].who].state = "live"]
  /\ Go(r, Does(r, "createUser"))

SessionMade(r) ==
  /\ Step(r, "createSession") /\ UNCHANGED <<mode, users, token, jwts>>
  /\ \E s \in Sessions :
       /\ row[s].state = "unused"
       /\ row' = [row EXCEPT ![s] = [org |-> IF req[r].ctx = None THEN "local" ELSE req[r].ctx,
                                     state |-> "there"]]
       /\ live' = live \cup {s}
       /\ Go(r, [Does(r, "createSession") EXCEPT !.s = s])

Destroyed(r) ==
  /\ Step(r, "destroy") /\ UNCHANGED <<mode, users, token, jwts>>
  /\ row' = [row EXCEPT ![req[r].s].state = "gone"] /\ live' = live \ {req[r].s}
  /\ Go(r, Does(r, "destroy"))

LEMMA Errors ==
  ASSUME NEW r
  PROVE  /\ \A e \in {"Zod", "Cursor", "InvalidInviteToken"} : Throw(r, e) => Answer(r, "400")
         /\ \A e \in {"SessionNotFound", "PermissionRequestNotFound"} : Throw(r, e) => Answer(r, "404")
         /\ \A e \in {"SessionNotLive", "InvalidTransition"} : Throw(r, e) => Answer(r, "409")
         /\ \A e \in {"SyntaxError", "notConfigured", "noContext", "Stripe", "QuotaExceeded",
                      "createSession", "destroySession"} : Throw(r, e) => Answer(r, "500")
BY DEF Throw, ErrorCode

\* A step that answers a refusal refuses, one that answers 500 may be any.
LEMMA RefusedBy ==
  ASSUME NEW r, req[r].todo # <<>>, Same
  PROVE  /\ \A code \in Codes \ Refusals : Answer(r, code) => Refused(r)
         /\ \A code \in Codes : Answer(r, code) /\ Head(req[r].todo) \in Refusing \ {"createUser"}
                                  => Refused(r)
BY DEF Refused

LEMMA CallsKinds ==
  ASSUME NEW r, NEW names, names \subseteq Effects \ {"createOrg", "createUser", "sign", "createSession"},
         Calls(r, names)
  PROVE  Refused(r) \/ Called(r) \/ Failed(r)
<1> DEFINE h == Head(req[r].todo)
<1>1. Same BY DEF Calls, Same, bounds, accountVars, sessionVars
<1>2. req[r].todo # <<>> /\ h \in names BY DEF Calls
<1>3. "500" \in Codes \ Refusals BY DEF Codes, Refusals
<1>4. Go(r, Does(r, h)) \/ Answer(r, "500") \/ req' = [req EXCEPT ![r] = Answered(Does(r, h), "500")]
  BY DEF Calls, Fails
<1>5. CASE Answer(r, "500") BY <1>1, <1>2, <1>3, <1>5, RefusedBy
<1>6. CASE Go(r, Does(r, h)) BY <1>1, <1>2, <1>6 DEF Called
<1>7. CASE req' = [req EXCEPT ![r] = Answered(Does(r, h), "500")]
  BY <1>1, <1>2, <1>3, <1>7 DEF Failed, FailedCode
<1>8. QED BY <1>4, <1>5, <1>6, <1>7

\* The engine refuses, before it has started or after.
LEMMA WorkKinds ==
  ASSUME NEW r, Step(r, "work"), Fails(r, ErrorCode("InvalidTransition")), Same
  PROVE  Refused(r) \/ Failed(r)
<1>1. ErrorCode("InvalidTransition") = "409" /\ "409" \in Codes BY DEF ErrorCode, Codes
<1>2. req[r].todo # <<>> /\ Head(req[r].todo) = "work" BY DEF Step
<1>3. Answer(r, "409") \/ req' = [req EXCEPT ![r] = Answered(Does(r, "work"), "409")]
  BY <1>1, <1>2 DEF Fails
<1>4. CASE Answer(r, "409") BY <1>1, <1>2, <1>4, RefusedBy DEF Refusing
<1>5. CASE req' = [req EXCEPT ![r] = Answered(Does(r, "work"), "409")]
  <2>1. "work" \in Effects \ {"createOrg", "createUser", "sign", "createSession"} BY DEF Effects
  <2>2. QED BY <1>1, <1>2, <1>5, <2>1 DEF Failed, FailedCode
<1>6. QED BY <1>3, <1>4, <1>5

LEMMA RefusesKinds ==
  ASSUME NEW r, NEW name \in Refusing \ {"createUser"}, NEW e, Refuses(r, name, e),
         e \in {"InvalidInviteToken", "PermissionRequestNotFound"}
  PROVE  Refused(r)
<1>1. Same /\ req[r].todo # <<>> /\ Head(req[r].todo) = name
  BY DEF Refuses, Step, Same, bounds, accountVars, sessionVars
<1>2. Answer(r, "400") \/ Answer(r, "404") BY Errors DEF Refuses
<1>3. {"400", "404"} \subseteq Codes BY DEF Codes
<1>4. QED BY <1>1, <1>2, <1>3, RefusedBy

\* What a step that only checks comes to.
Checks(r) == Parse(r) \/ Param(r) \/ Need(r) \/ Condition(r) \/ Quota(r) \/ GetSession(r)
             \/ RequireLive(r) \/ Other(r)

LEMMA ChecksKinds ==
  ASSUME NEW r, Checks(r)
  PROVE  Refused(r) \/ Passed(r)
<1> DEFINE h == Head(req[r].todo)
<1>1. Same /\ req[r].todo # <<>>
  BY DEF Checks, Parse, Param, Need, Condition, Quota, GetSession, RequireLive, Other, Step, Same,
         bounds, accountVars, sessionVars
<1>2. \/ h \in {"parse", "param", "owner", "customer", "event", "found", "onlyLocal", "get",
                "anyget", "live", "read"}
      \/ h \in {"store", "ctx", "quota", "health", "portal", "materialize", "bill", "unbill", "lastUsed"}
  BY DEF Checks, Parse, Param, Need, Condition, Quota, GetSession, RequireLive, Other, Step
<1>3. \/ Go(r, req[r]) /\ (h = "get" => row[req[r].s].state = "there" /\ req[r].ctx \in {None, row[req[r].s].org})
      \/ Answer(r, "500") \/ Answer(r, "503") \/ Answer(r, "200")
      \/ /\ h \in Refusing \ {"createUser"}
         /\ \E code \in {"400", "403", "404", "409"} : Answer(r, code)
  <2> USE DEF Refusing
  <2>1. CASE Parse(r) BY <2>1, Errors DEF Parse, Step
  <2>2. CASE Param(r) BY <2>2 DEF Param, Step
  <2>3. CASE Need(r) BY <2>3, Errors DEF Need, Step
  <2>4. CASE Condition(r) BY <2>4, Errors DEF Condition, Step
  <2>5. CASE Quota(r) BY <2>5, Errors DEF Quota, Step
  <2>6. CASE GetSession(r) BY <2>6, Errors DEF GetSession, Step
  <2>7. CASE RequireLive(r) BY <2>7, Errors DEF RequireLive, Step
  <2>8. CASE Other(r) BY <2>8, Errors DEF Other
  <2>9. QED BY <2>1, <2>2, <2>3, <2>4, <2>5, <2>6, <2>7, <2>8 DEF Checks
<1>4. {"500", "503", "200"} \subseteq Codes \ Refusals /\ {"400", "403", "404", "409"} \subseteq Codes
  BY DEF Codes, Refusals
<1>5. h \notin {"auth", "createOrg", "createUser", "verify", "sign"} BY <1>2
<1>6. QED BY <1>1, <1>3, <1>4, <1>5, RefusedBy DEF Passed

LEMMA LimitKinds ==
  ASSUME NEW r, Limit(r)
  PROVE  Refused(r) \/ Passed(r)
<1>1. PICK kind \in Kinds :
        /\ Step(r, CheckOf[kind])
        /\ Go(r, req[r]) \/ Answer(r, "429")
        /\ UNCHANGED <<bounds, accountVars, sessionVars>>
  BY DEF Limit
<1>2. Same BY <1>1 DEF Same, bounds, accountVars, sessionVars
<1>3. /\ req[r].todo # <<>>
      /\ Head(req[r].todo) \in {"limitLoginIp", "limitLoginEmail", "limitRegisterIp", "limitAcceptIp"}
  BY <1>1 DEF Step, CheckOf, Kinds
<1>4. "429" \in Codes BY DEF Codes
<1>5. Head(req[r].todo) \in Refusing \ {"createUser"} BY <1>3 DEF Refusing
<1>6. QED BY <1>1, <1>2, <1>3, <1>4, <1>5, RefusedBy DEF Passed

LEMMA AccountKinds ==
  ASSUME NEW r, Authenticate(r) \/ CreateUser(r) \/ VerifyPassword(r)
  PROVE  Refused(r) \/ ByJwt(r) \/ ByToken(r) \/ Made(r) \/ Found(r)
<1>1. CASE Authenticate(r)
  <2>1. Same /\ Step(r, "auth") BY <1>1 DEF Authenticate, Same, bounds, accountVars, sessionVars
  <2>2. \/ req[r].cred[1] = "jwt" /\ Go(r, [req[r] EXCEPT !.ctx = req[r].cred[2]])
        \/ /\ req[r].cred[1] = "token" /\ Lookup(req[r].cred[2])
           /\ req' = [req EXCEPT ![r].ctx = req[r].cred[2], ![r].todo = <<"lastUsed">> \o Tail(@)]
        \/ Answer(r, "401")
    BY <1>1 DEF Authenticate
  <2>3. CASE Answer(r, "401")
    <3>1. "401" \in Codes /\ Head(req[r].todo) \in Refusing \ {"createUser"} /\ req[r].todo # <<>>
      BY <2>1 DEF Codes, Refusing, Step
    <3>2. QED BY <2>1, <2>3, <3>1, RefusedBy
  <2>4. QED BY <2>1, <2>2, <2>3 DEF ByJwt, ByToken
<1>2. CASE CreateUser(r)
  <2>1. Step(r, "createUser") /\ UNCHANGED <<mode, token, jwts, row, live>>
    BY <1>2 DEF CreateUser, bounds, sessionVars
  <2>2. CASE Answer(r, "409") /\ UNCHANGED users
    <3>1. "409" \in Codes /\ Head(req[r].todo) = "createUser" /\ req[r].todo # <<>>
      BY <2>1 DEF Codes, Step
    <3>2. QED BY <2>1, <2>2, <3>1 DEF Refused, Same, Refusing
  <2>3. QED BY <1>2, <2>1, <2>2 DEF CreateUser, Made
<1>3. CASE VerifyPassword(r)
  <2>1. Same /\ Step(r, "verify") BY <1>3 DEF VerifyPassword, Same, bounds, accountVars, sessionVars
  <2>2. CASE Answer(r, "401")
    <3>1. "401" \in Codes /\ Head(req[r].todo) \in Refusing \ {"createUser"} /\ req[r].todo # <<>>
      BY <2>1 DEF Codes, Refusing, Step
    <3>2. QED BY <2>1, <2>2, <3>1, RefusedBy
  <2>3. QED BY <1>3, <2>1, <2>2 DEF VerifyPassword, Found
<1>4. QED BY <1>1, <1>2, <1>3

LEMMA SessionKinds ==
  ASSUME NEW r, CreateSession(r) \/ Destroy(r) \/ Attach(r)
  PROVE  Refused(r) \/ Passed(r) \/ Called(r) \/ SessionMade(r) \/ Destroyed(r)
<1>1. "500" \in Codes \ Refusals BY DEF Codes, Refusals
<1>2. CASE CreateSession(r)
  <2>1. Step(r, "createSession") /\ UNCHANGED <<mode, users, token, jwts>>
    BY <1>2 DEF CreateSession, bounds, accountVars
  <2>2. CASE Throw(r, "createSession") /\ UNCHANGED sessionVars
    <3>1. Answer(r, "500") BY <2>2, Errors
    <3>2. Same /\ req[r].todo # <<>> BY <2>1, <2>2 DEF Same, Step, sessionVars
    <3>3. QED BY <1>1, <3>1, <3>2, RefusedBy
  <2>3. QED BY <1>2, <2>1, <2>2 DEF CreateSession, SessionMade
<1>3. CASE Destroy(r)
  <2>1. Step(r, "destroy") /\ UNCHANGED <<mode, users, token, jwts>>
    BY <1>3 DEF Destroy, bounds, accountVars
  <2>2. CASE Throw(r, "destroySession") /\ UNCHANGED sessionVars
    <3>1. Answer(r, "500") BY <2>2, Errors
    <3>2. Same /\ req[r].todo # <<>> BY <2>1, <2>2 DEF Same, Step, sessionVars
    <3>3. QED BY <1>1, <3>1, <3>2, RefusedBy
  <2>3. QED BY <1>3, <2>1, <2>2 DEF Destroy, Destroyed
<1>4. CASE Attach(r)
  <2>1. Same /\ req[r].todo # <<>> /\ Head(req[r].todo) \in {"attach", "upgrade", "open"}
    BY <1>4 DEF Attach, Step, Same, bounds, accountVars, sessionVars
  <2>2. \/ Go(r, req[r])
        \/ Go(r, Does(r, "attach")) /\ Head(req[r].todo) \in {"attach", "open"}
        \/ Answer(r, "400") /\ Head(req[r].todo) = "upgrade"
    BY <1>4 DEF Attach, Step
  <2>3. CASE Go(r, req[r]) BY <2>1, <2>3 DEF Passed
  <2>4. CASE Go(r, Does(r, "attach")) /\ Head(req[r].todo) \in {"attach", "open"}
    <3>1. "attach" \in Effects \ {"createOrg", "createUser", "sign", "createSession"} BY DEF Effects
    <3>2. QED BY <2>1, <2>4, <3>1 DEF Called
  <2>5. CASE Answer(r, "400") /\ Head(req[r].todo) = "upgrade"
    <3>1. "400" \in Codes /\ Head(req[r].todo) \in Refusing \ {"createUser"} BY <2>5 DEF Codes, Refusing
    <3>2. QED BY <2>1, <2>5, <3>1, RefusedBy
  <2>6. QED BY <2>2, <2>3, <2>4, <2>5
<1>5. QED BY <1>2, <1>3, <1>4

LEMMA CallKinds ==
  ASSUME NEW r, CallAccounts(r) \/ CallSession(r) \/ CallOthers(r)
  PROVE  Refused(r) \/ Called(r) \/ Failed(r)
<1> DEFINE E == Effects \ {"createOrg", "createUser", "sign", "createSession"}
<1>1. {"accept", "invite", "plan"} \subseteq E /\ {"work", "restore", "configure", "activate"} \subseteq E
      /\ {"memory", "restoreFiles", "background", "spawn", "kill", "resolve", "clear", "cancel", "compact"}
           \subseteq E
  BY DEF Effects
<1>2. {"accept", "resolve"} \subseteq Refusing \ {"createUser"} BY DEF Refusing
<1>3. CASE CallAccounts(r) BY <1>1, <1>2, <1>3, CallsKinds, RefusesKinds DEF CallAccounts
<1>4. CASE CallSession(r)
  <2>1. CASE Calls(r, {"work", "restore", "configure", "activate"}) BY <1>1, <2>1, CallsKinds
  <2>2. CASE /\ Step(r, "work") /\ Fails(r, ErrorCode("InvalidTransition"))
             /\ UNCHANGED <<bounds, starts, now, accountVars, sessionVars, limitVars>>
    <3>1. Same BY <2>2 DEF Same, bounds, accountVars, sessionVars
    <3>2. QED BY <2>2, <3>1, WorkKinds
  <2>3. QED BY <1>4, <2>1, <2>2 DEF CallSession
<1>5. CASE CallOthers(r) BY <1>1, <1>2, <1>5, CallsKinds, RefusesKinds DEF CallOthers
<1>6. QED BY <1>3, <1>4, <1>5

\* Every step is the clock's, or one of these of a request.
Kind(r) == \/ Start(r) \/ Refused(r) \/ Failed(r) \/ Passed(r) \/ Called(r) \/ ByJwt(r) \/ ByToken(r) \/ Found(r)
           \/ CreateOrg(r) \/ Made(r) \/ Sign(r) \/ ChangeTokens(r) \/ SessionMade(r) \/ Destroyed(r)

LEMMA NextKinds ==
  ASSUME Next
  PROVE  (Same /\ UNCHANGED req) \/ \E r \in Requests : Kind(r)
<1>1. CASE Tick BY <1>1 DEF Tick, Same, bounds, accountVars, sessionVars
<1>2. ASSUME NEW r \in Requests, Checks(r) PROVE Kind(r) BY <1>2, ChecksKinds DEF Kind
<1>3. ASSUME NEW r \in Requests, Limit(r) PROVE Kind(r) BY <1>3, LimitKinds DEF Kind
<1>4. ASSUME NEW r \in Requests, Authenticate(r) \/ CreateUser(r) \/ VerifyPassword(r) PROVE Kind(r)
  BY <1>4, AccountKinds DEF Kind
<1>5. ASSUME NEW r \in Requests, CreateSession(r) \/ Destroy(r) \/ Attach(r) PROVE Kind(r)
  BY <1>5, SessionKinds DEF Kind
<1>6. ASSUME NEW r \in Requests, CallAccounts(r) \/ CallSession(r) \/ CallOthers(r) PROVE Kind(r)
  BY <1>6, CallKinds DEF Kind
<1>7. ASSUME NEW r \in Requests, Start(r) \/ CreateOrg(r) \/ Sign(r) \/ ChangeTokens(r) PROVE Kind(r)
  BY <1>7 DEF Kind
<1>8. QED BY <1>1, <1>2, <1>3, <1>4, <1>5, <1>6, <1>7 DEF Next, Checks

\* The state of the system outside the requests, and of the requests but r's.
LEMMA GoneOn ==
  ASSUME Asked, NEW r \in Requests, NEW q, req' = [req EXCEPT ![r] = q], q \in RequestRecords
  PROVE  req' \in [Requests -> RequestRecords] /\ req'[r] = q /\ \A x \in Requests \ {r} : req'[x] = req[x]
BY DEF Asked

\* The record rec a request goes on with, by kind of step.
Goes(r, rec) ==
  LET q == req[r]
      h == Head(q.todo)
  IN
  /\ rec.late = q.late /\ rec.cred = q.cred
  /\ \/ /\ Passed(r) /\ rec.ctx = q.ctx /\ rec.s = q.s /\ rec.did = q.did
     \/ /\ Called(r) /\ rec.ctx = q.ctx /\ rec.s = q.s
        /\ \E e \in Effects \ {"createOrg", "createUser", "sign", "createSession"} :
             rec.did = q.did \cup {e} /\ (h = e \/ (h = "open" /\ e = "attach"))
     \/ /\ ByJwt(r) /\ rec.ctx = q.cred[2] /\ rec.ctx \in Users /\ rec.s = q.s /\ rec.did = q.did
     \/ /\ Found(r) /\ rec.ctx = q.ctx /\ rec.s = q.s /\ rec.did = q.did
        /\ rec.who \in Users /\ users[rec.who].state = "live"
     \/ /\ CreateOrg(r) /\ rec.ctx = q.ctx /\ rec.s = q.s /\ rec.did = q.did \cup {"createOrg"}
        /\ rec.who \in Users /\ users[rec.who].state = "free"
        /\ users' = [users EXCEPT ![rec.who] = [email |-> q.email, state |-> "org"]]
     \/ /\ Made(r) \/ Sign(r) \/ ChangeTokens(r) \/ Destroyed(r)
        /\ rec.ctx = q.ctx /\ rec.s = q.s /\ rec.did = q.did \cup {h}
     \/ /\ SessionMade(r) /\ rec.ctx = q.ctx /\ rec.did = q.did \cup {"createSession"}
        /\ rec.s \in Sessions /\ row[rec.s].state = "unused"
        /\ row' = [row EXCEPT ![rec.s] = [org |-> IF q.ctx = None THEN "local" ELSE q.ctx,
                                          state |-> "there"]]
        /\ live' = live \cup {rec.s}

\* A request that comes in.
Begun(q) ==
  /\ Same
  /\ \E t \in Routes, p \in Fronts :
       /\ q.todo = p \o t
       /\ mode = "cloud" /\ t \notin PublicRoutes <=> p \in {<<"auth">>, <<"auth", "get">>}
       /\ mode = "cloud" /\ t \in OnSession \ UpgradeRoutes <=> p \in {<<"get">>, <<"auth", "get">>}
       /\ mode = "local" \/ t \in PublicRoutes => q.cred = <<"none">>
  /\ q.cred \in Creds /\ q.s \in Sessions /\ q.who = None /\ q.ctx = None /\ q.did = {}
  /\ q.answer = "none" /\ (q.late <=> Dead(q.cred))

Ends(r, q) ==
  /\ Refused(r)
  /\ \E code \in Codes :
       /\ Ended(req[r], code, q)
       /\ code \in Refusals =>
            Head(req[r].todo) \in Refusing /\ (Head(req[r].todo) = "createUser" => code = "409")

\* What a failed call makes of its request.
Stopped(r, q) ==
  /\ Failed(r)
  /\ \E code \in Codes :
       LET e == Head(req[r].todo) IN
       /\ e \in Effects \ {"createOrg", "createUser", "sign", "createSession"} /\ FailedCode(e, code)
       /\ q.todo = <<>> /\ q.answer = code /\ q.cred = <<"none">> /\ q.did = req[r].did \cup {e}
       /\ q.ctx = req[r].ctx /\ q.s = req[r].s /\ q.late = req[r].late

TokenFound(r, q) ==
  /\ ByToken(r) /\ q.ctx = req[r].cred[2] /\ q.ctx \in Users
  /\ q.todo = <<"lastUsed">> \o Tail(req[r].todo)
  /\ q.cred = req[r].cred /\ q.s = req[r].s /\ q.who = req[r].who /\ q.did = req[r].did
  /\ q.late = req[r].late /\ q.answer = req[r].answer

LEMMA CredsTyped ==
  ASSUME Ground
  PROVE  Creds \subseteq Credentials
BY DEF Ground, Creds, Credentials

LEMMA HolderTyped ==
  ASSUME NEW c \in Credentials
  PROVE  /\ c[1] \in {"jwt", "token"} => c[2] \in Users
         /\ c = <<"none">> \/ c \in {"jwt", "token"} \X Users
         /\ c # <<"none">> => c[1] \in {"jwt", "token"} /\ c[2] \in Users
BY DEF Credentials

LEMMA StartBegins ==
  ASSUME Ground, Asked, NEW r \in Requests, Start(r)
  PROVE  \E q \in RequestRecords : req' = [req EXCEPT ![r] = q] /\ Begun(q)
<1>1. Same BY DEF Start, Same, bounds, accountVars, sessionVars
<1>2. PICK route \in RoutesOf(scope), cred \in Creds, s \in Sessions, e \in Emails :
        /\ route \in OnSession \/ s = CHOOSE x \in Sessions : TRUE
        /\ route \in PublicRoutes \/ e = CHOOSE x \in Emails : TRUE
        /\ (mode = "local" \/ route \in PublicRoutes) => cred = <<"none">>
        /\ req' = [req EXCEPT ![r] =
             [Idle EXCEPT !.todo = Path(route), !.cred = cred, !.s = s, !.email = e,
                          !.late = /\ cred[1] = "token"
                                   /\ \/ token[cred[2]] = "revoked"
                                      \/ users[cred[2]].state = "erased"]]
  BY Zenon DEF Start
<1> DEFINE q == [Idle EXCEPT !.todo = Path(route), !.cred = cred, !.s = s, !.email = e,
                             !.late = Dead(cred)]
           a == IF mode = "cloud" /\ route \notin PublicRoutes THEN <<"auth">> ELSE <<>>
           g == IF mode = "cloud" /\ route \in OnSession \ UpgradeRoutes THEN <<"get">> ELSE <<>>
           p == a \o g
<1>3. req' = [req EXCEPT ![r] = q] BY <1>2 DEF Dead
<1>4. route \in Routes BY DEF RoutesOf, Routes
<1>5. Path(route) = p \o route BY DEF Path
<1>6. /\ mode = "cloud" /\ route \notin PublicRoutes => a = <<"auth">>
      /\ ~(mode = "cloud" /\ route \notin PublicRoutes) => a = <<>>
      /\ mode = "cloud" /\ route \in OnSession \ UpgradeRoutes => g = <<"get">>
      /\ ~(mode = "cloud" /\ route \in OnSession \ UpgradeRoutes) => g = <<>>
  OBVIOUS
<1>7. a \in {<<>>, <<"auth">>} /\ g \in {<<>>, <<"get">>} BY <1>6
<1> HIDE DEF a, g
<1>8. /\ p \in Fronts
      /\ a = <<"auth">> <=> p \in {<<"auth">>, <<"auth", "get">>}
      /\ g = <<"get">> <=> p \in {<<"get">>, <<"auth", "get">>}
  <2>1. CASE a = <<>> /\ g = <<>> BY <2>1 DEF Fronts
  <2>2. CASE a = <<>> /\ g = <<"get">> BY <2>2 DEF Fronts
  <2>3. CASE a = <<"auth">> /\ g = <<>> BY <2>3 DEF Fronts
  <2>4. CASE a = <<"auth">> /\ g = <<"get">>
    <3>2. p = <<"auth", "get">> BY <2>4, BothFronts
    <3> HIDE DEF p
    <3>3. QED BY <2>4, <3>2 DEF Fronts
  <2>5. QED BY <1>7, <2>1, <2>2, <2>3, <2>4
<1> HIDE DEF p
<1>9. p \o route \in Seq(Words) BY <1>4, <1>8, RoutesFit, FrontFits DEF Fits, Shaped
<1>10. cred \in Credentials BY CredsTyped
<1>11. Dead(cred) \in BOOLEAN BY DEF Dead
<1>12. q \in RequestRecords
  BY <1>5, <1>9, <1>10, <1>11 DEF Idle, RequestRecords
<1>13. /\ q.todo = p \o route /\ q.cred = cred /\ q.s = s /\ q.who = None /\ q.ctx = None /\ q.did = {}
       /\ q.answer = "none" /\ q.late = Dead(cred)
  BY <1>5 DEF Idle
<1> HIDE DEF q
<1>14. /\ mode = "cloud" /\ route \notin PublicRoutes <=> p \in {<<"auth">>, <<"auth", "get">>}
       /\ mode = "cloud" /\ route \in OnSession \ UpgradeRoutes <=> p \in {<<"get">>, <<"auth", "get">>}
  BY <1>6, <1>8
<1>15. Begun(q) BY <1>1, <1>2, <1>4, <1>8, <1>13, <1>14 DEF Begun
<1>16. QED BY <1>3, <1>12, <1>15

\* What a step makes of the request it is a step of.
Becomes(r, q) ==
  \/ Start(r) /\ req[r].todo = <<>> /\ Begun(q)
  \/ req[r].todo # <<>> /\ Ends(r, q)
  \/ req[r].todo # <<>> /\ Stopped(r, q)
  \/ req[r].todo # <<>> /\ Head(req[r].todo) = "auth" /\ TokenFound(r, q)
  \/ req[r].todo # <<>> /\ \E rec : Goes(r, rec) /\ Went(req[r].todo, rec, q)

LEMMA DoesTyped ==
  ASSUME NEW r, req[r] \in RequestRecords, NEW e \in Effects
  PROVE  /\ Does(r, e) \in RequestRecords /\ Does(r, e).did = req[r].did \cup {e}
         /\ Does(r, e).late = req[r].late /\ Does(r, e).cred = req[r].cred
         /\ Does(r, e).ctx = req[r].ctx /\ Does(r, e).s = req[r].s /\ Does(r, e).who = req[r].who
         /\ Does(r, e).answer = req[r].answer
BY DEF Does, RequestRecords

\* A request that goes on with rec becomes what is left of it.
LEMMA GoBecomes ==
  ASSUME Asked, NEW r \in Requests, req[r].todo # <<>>,
         NEW rec \in RequestRecords, rec.answer = "none", Go(r, rec), Goes(r, rec)
  PROVE  \E q \in RequestRecords : req' = [req EXCEPT ![r] = q] /\ Becomes(r, q)
<1>1. PICK q : req' = [req EXCEPT ![r] = q] /\ Went(req[r].todo, rec, q) BY GoOn
<1>2. q \in RequestRecords BY <1>1 DEF Went
<1>3. Becomes(r, q) BY <1>1 DEF Becomes
<1>4. QED BY <1>1, <1>2, <1>3

LEMMA KindBecomes ==
  ASSUME Ground, Asked, NEW r \in Requests, Kind(r)
  PROVE  \E q \in RequestRecords : req' = [req EXCEPT ![r] = q] /\ Becomes(r, q)
<1> DEFINE c == req[r].cred
           Goal == \E q \in RequestRecords : req' = [req EXCEPT ![r] = q] /\ Becomes(r, q)
<1>1. req[r] \in RequestRecords BY DEF Asked
<1>2. req[r].todo # <<>> => req[r].answer = "none" BY DEF Asked
<1>3. c \in Credentials BY <1>1 DEF RequestRecords
<1> HIDE DEF c, Goal
<1>4. ASSUME Start(r) PROVE Goal
  <2>1. req[r].todo = <<>> BY <1>4 DEF Start
  <2>2. QED BY <1>4, <2>1, StartBegins DEF Goal, Becomes
<1>5. ASSUME Refused(r) PROVE Goal
  <2>1. req[r].todo # <<>> BY <1>5 DEF Refused
  <2>2. PICK code \in Codes :
          /\ Answer(r, code)
          /\ code \in Refusals =>
               Head(req[r].todo) \in Refusing /\ (Head(req[r].todo) = "createUser" => code = "409")
    BY <1>5 DEF Refused
  <2>3. PICK q : req' = [req EXCEPT ![r] = q] /\ Ended(req[r], code, q) BY <2>2, AnswerEnds
  <2>4. q \in RequestRecords BY <2>3 DEF Ended
  <2>5. Ends(r, q) BY <1>5, <2>2, <2>3 DEF Ends
  <2>6. QED BY <2>1, <2>3, <2>4, <2>5 DEF Goal, Becomes
<1>0. ASSUME Failed(r) PROVE Goal
  <2> DEFINE e == Head(req[r].todo)
             rec == Does(r, e)
  <2>1. PICK code \in Codes :
          /\ e \in Effects \ {"createOrg", "createUser", "sign", "createSession"} /\ FailedCode(e, code)
          /\ req' = [req EXCEPT ![r] = Answered(rec, code)]
    BY <1>0 DEF Failed
  <2>2. req[r].todo # <<>> BY <1>0 DEF Failed
  <2> HIDE DEF e
  <2>3. /\ rec \in RequestRecords /\ rec.did = req[r].did \cup {e} /\ rec.late = req[r].late
        /\ rec.ctx = req[r].ctx /\ rec.s = req[r].s
    BY <1>1, <2>1, DoesTyped
  <2> HIDE DEF rec
  <2>4. PICK q : q = Answered(rec, code) /\ Ended(rec, code, q) BY <2>3, AnsweredTyped
  <2>5. q \in RequestRecords BY <2>4 DEF Ended
  <2>6. Stopped(r, q) BY <1>0, <2>1, <2>3, <2>4 DEF Stopped, Ended, e
  <2>7. QED BY <2>1, <2>2, <2>4, <2>5, <2>6 DEF Goal, Becomes
<1>6. ASSUME ByToken(r) PROVE Goal
  <2>1. req[r].todo # <<>> /\ Head(req[r].todo) = "auth" BY <1>6 DEF ByToken, Step
  <2>2. c[1] = "token" /\ c[2] \in Users BY <1>3, <1>6, HolderTyped DEF ByToken, c
  <2> DEFINE u == <<"lastUsed">> \o Tail(req[r].todo)
             q == [req[r] EXCEPT !.ctx = c[2], !.todo = u]
  <2>3. Fits(req[r].todo) BY <2>1 DEF Asked
  <2>4. u \in Seq(Words) BY <2>3, TailFits, UsedFirst
  <2>5. req' = [req EXCEPT ![r] = q] BY <1>1, <1>6 DEF ByToken, c, Asked
  <2> HIDE DEF u
  <2>6. q \in RequestRecords BY <1>1, <2>2, <2>4 DEF RequestRecords
  <2>7. /\ q.ctx = c[2] /\ q.todo = u /\ q.cred = req[r].cred /\ q.s = req[r].s /\ q.who = req[r].who
        /\ q.did = req[r].did /\ q.late = req[r].late /\ q.answer = req[r].answer
    BY <1>1 DEF RequestRecords
  <2> HIDE DEF q
  <2>8. TokenFound(r, q) BY <1>6, <2>2, <2>7 DEF TokenFound, u, c
  <2>9. QED BY <2>1, <2>5, <2>6, <2>8 DEF Goal, Becomes
<1>7. ASSUME Passed(r) PROVE Goal
  <2>1. req[r].todo # <<>> /\ Go(r, req[r]) BY <1>7 DEF Passed
  <2>2. Goes(r, req[r]) BY <1>7 DEF Goes
  <2>3. QED BY <1>1, <1>2, <2>1, <2>2, GoBecomes DEF Goal
<1>8. ASSUME Called(r) PROVE Goal
  <2>1. PICK e \in Effects \ {"createOrg", "createUser", "sign", "createSession"} :
          /\ Go(r, Does(r, e))
          /\ Head(req[r].todo) = e \/ (Head(req[r].todo) = "open" /\ e = "attach")
    BY <1>8 DEF Called
  <2>2. req[r].todo # <<>> BY <1>8 DEF Called
  <2> DEFINE rec == Does(r, e)
  <2>3. /\ rec \in RequestRecords /\ rec.did = req[r].did \cup {e} /\ rec.late = req[r].late
        /\ rec.cred = req[r].cred /\ rec.ctx = req[r].ctx /\ rec.s = req[r].s /\ rec.answer = "none"
    BY <1>1, <1>2, <2>2, DoesTyped
  <2> HIDE DEF rec
  <2>4. Goes(r, rec) BY <1>8, <2>1, <2>3 DEF Goes
  <2>5. QED BY <2>1, <2>2, <2>3, <2>4, GoBecomes DEF Goal, rec
<1>9. ASSUME ByJwt(r) PROVE Goal
  <2>1. req[r].todo # <<>> /\ Go(r, [req[r] EXCEPT !.ctx = c[2]]) /\ c[1] = "jwt"
    BY <1>9 DEF ByJwt, Step, c
  <2>2. c[2] \in Users BY <1>3, <2>1, HolderTyped
  <2> DEFINE rec == [req[r] EXCEPT !.ctx = c[2]]
  <2>3. rec \in RequestRecords BY <1>1, <2>2 DEF RequestRecords
  <2>4. /\ rec.ctx = c[2] /\ rec.did = req[r].did /\ rec.late = req[r].late
        /\ rec.cred = req[r].cred /\ rec.s = req[r].s /\ rec.answer = "none"
    BY <1>1, <1>2, <2>1 DEF RequestRecords
  <2> HIDE DEF rec
  <2>5. Goes(r, rec) BY <1>9, <2>2, <2>4 DEF Goes, c
  <2>6. QED BY <2>1, <2>3, <2>4, <2>5, GoBecomes DEF Goal, rec
<1>10. ASSUME Found(r) PROVE Goal
  <2>1. PICK u \in Users : users[u].state = "live" /\ Go(r, [req[r] EXCEPT !.who = u]) BY <1>10 DEF Found
  <2>2. req[r].todo # <<>> BY <1>10 DEF Found, Step
  <2> DEFINE rec == [req[r] EXCEPT !.who = u]
  <2>3. rec \in RequestRecords BY <1>1 DEF RequestRecords
  <2>4. /\ rec.who = u /\ rec.ctx = req[r].ctx /\ rec.did = req[r].did /\ rec.late = req[r].late
        /\ rec.cred = req[r].cred /\ rec.s = req[r].s /\ rec.answer = "none"
    BY <1>1, <1>2, <2>2 DEF RequestRecords
  <2> HIDE DEF rec
  <2>5. Goes(r, rec) BY <1>10, <2>1, <2>4 DEF Goes
  <2>6. QED BY <2>1, <2>2, <2>3, <2>4, <2>5, GoBecomes DEF Goal, rec
<1>11. ASSUME CreateOrg(r) PROVE Goal
  <2>1. PICK u \in Users : /\ users[u].state = "free"
                           /\ users' = [users EXCEPT ![u] = [email |-> req[r].email, state |-> "org"]]
                           /\ Go(r, [Does(r, "createOrg") EXCEPT !.who = u])
    BY <1>11 DEF CreateOrg
  <2>2. req[r].todo # <<>> /\ "createOrg" \in Effects BY <1>11 DEF CreateOrg, Step, Effects
  <2> DEFINE d == Does(r, "createOrg")
             rec == [d EXCEPT !.who = u]
  <2>3. /\ d \in RequestRecords /\ d.did = req[r].did \cup {"createOrg"} /\ d.late = req[r].late
        /\ d.cred = req[r].cred /\ d.ctx = req[r].ctx /\ d.s = req[r].s /\ d.answer = "none"
    BY <1>1, <1>2, <2>2, DoesTyped
  <2> HIDE DEF d
  <2>4. rec \in RequestRecords BY <2>3 DEF RequestRecords
  <2>5. /\ rec.did = req[r].did \cup {"createOrg"} /\ rec.late = req[r].late /\ rec.who = u
        /\ rec.cred = req[r].cred /\ rec.ctx = req[r].ctx /\ rec.s = req[r].s /\ rec.answer = "none"
    BY <2>3 DEF RequestRecords
  <2>6. Go(r, rec) BY <2>1 DEF d
  <2> HIDE DEF rec
  <2>7. Goes(r, rec) BY <1>11, <2>1, <2>5 DEF Goes
  <2>8. QED BY <2>2, <2>4, <2>5, <2>6, <2>7, GoBecomes DEF Goal
<1>12. ASSUME Made(r) \/ Sign(r) \/ ChangeTokens(r) \/ Destroyed(r) PROVE Goal
  <2> DEFINE h == Head(req[r].todo)
  <2>1. req[r].todo # <<>> /\ Go(r, Does(r, h)) /\ h \in Effects
    <3>1. CASE Made(r) BY <3>1 DEF Made, Step, Effects
    <3>2. CASE Sign(r) BY <3>2 DEF Sign, Step, Effects
    <3>3. CASE ChangeTokens(r) BY <3>3 DEF ChangeTokens, Step, Effects
    <3>4. CASE Destroyed(r) BY <3>4 DEF Destroyed, Step, Effects
    <3>5. QED BY <1>12, <3>1, <3>2, <3>3, <3>4
  <2> HIDE DEF h
  <2> DEFINE rec == Does(r, h)
  <2>2. /\ rec \in RequestRecords /\ rec.did = req[r].did \cup {h} /\ rec.late = req[r].late
        /\ rec.cred = req[r].cred /\ rec.ctx = req[r].ctx /\ rec.s = req[r].s /\ rec.answer = "none"
    BY <1>1, <1>2, <2>1, DoesTyped
  <2> HIDE DEF rec
  <2>3. Goes(r, rec) BY <1>12, <2>2 DEF Goes, h
  <2>4. QED BY <2>1, <2>2, <2>3, GoBecomes DEF Goal, rec
<1>13. ASSUME SessionMade(r) PROVE Goal
  <2>1. PICK s \in Sessions :
          /\ row[s].state = "unused"
          /\ row' = [row EXCEPT ![s] = [org |-> IF req[r].ctx = None THEN "local" ELSE req[r].ctx,
                                        state |-> "there"]]
          /\ live' = live \cup {s}
          /\ Go(r, [Does(r, "createSession") EXCEPT !.s = s])
    BY <1>13 DEF SessionMade
  <2>2. req[r].todo # <<>> /\ "createSession" \in Effects BY <1>13 DEF SessionMade, Step, Effects
  <2> DEFINE d == Does(r, "createSession")
             rec == [d EXCEPT !.s = s]
  <2>3. /\ d \in RequestRecords /\ d.did = req[r].did \cup {"createSession"} /\ d.late = req[r].late
        /\ d.cred = req[r].cred /\ d.ctx = req[r].ctx /\ d.answer = "none"
    BY <1>1, <1>2, <2>2, DoesTyped
  <2> HIDE DEF d
  <2>4. rec \in RequestRecords BY <2>3 DEF RequestRecords
  <2>5. /\ rec.did = req[r].did \cup {"createSession"} /\ rec.late = req[r].late /\ rec.s = s
        /\ rec.cred = req[r].cred /\ rec.ctx = req[r].ctx /\ rec.answer = "none"
    BY <2>3 DEF RequestRecords
  <2>6. Go(r, rec) BY <2>1 DEF d
  <2> HIDE DEF rec
  <2>7. Goes(r, rec) BY <1>13, <2>1, <2>5 DEF Goes
  <2>8. QED BY <2>2, <2>4, <2>5, <2>6, <2>7, GoBecomes DEF Goal
<1>14. QED BY <1>0, <1>4, <1>5, <1>6, <1>7, <1>8, <1>9, <1>10, <1>11, <1>12, <1>13 DEF Kind, Goal

\* What the next step of a request tells of the one it just took.
LEMMA NextName ==
  ASSUME NEW t, Fits(t), NEW rec, NEW q, Went(t, rec, q), NEW name, At(q, name)
  PROVE  /\ Len(t) > 2 /\ q.todo = Tail(t) /\ Head(t) = t[1] /\ t[2] = name
         /\ q.who = rec.who /\ q.cred = rec.cred
         /\ name = "sign" => Head(t) = "verify"
         /\ name = "createUser" => Head(t) = "createOrg"
         /\ name # "auth"
<1>1. Len(t) > 2 /\ q.todo = Tail(t) /\ q.who = rec.who /\ q.cred = rec.cred BY DEF At, Went
<1>2. /\ Head(t) = t[1] /\ Len(t) \in Nat /\ Tail(t) \in Seq(Words) /\ Len(Tail(t)) = Len(t) - 1
      /\ \A j \in 1..Len(Tail(t)) : Tail(t)[j] = t[j + 1]
  BY TailFits
<1>3. Head(q.todo) = q.todo[1] BY <1>1, <1>2
<1>4. t[2] = name BY <1>1, <1>2, <1>3 DEF At
<1>5. 2 \in 2..Len(t) BY <1>1, <1>2
<1>6. /\ t[2] = "sign" => t[1] = "verify"
      /\ t[2] = "createUser" => t[1] = "createOrg"
      /\ t[2] # "auth"
  <2>1. /\ t[2] = "sign" => t[2 - 1] = "verify"
        /\ t[2] = "createUser" => t[2 - 1] = "createOrg"
        /\ t[2] # "auth"
    BY <1>5 DEF Fits, Identified
  <2>2. 2 - 1 = 1 OBVIOUS
  <2>3. QED BY <2>1, <2>2
<1>7. QED BY <1>1, <1>2, <1>4, <1>6

LEMMA AfterVerify ==
  ASSUME NEW r, NEW rec, Goes(r, rec), Head(req[r].todo) = "verify"
  PROVE  Found(r) /\ Same /\ rec.who \in Users /\ users[rec.who].state = "live"
<1>1. "verify" \notin Effects BY DEF Effects
<1>2. ~ByJwt(r) /\ ~CreateOrg(r) /\ ~Made(r) /\ ~Sign(r) /\ ~Destroyed(r) /\ ~SessionMade(r)
  BY DEF ByJwt, CreateOrg, Made, Sign, Destroyed, SessionMade, Step
<1>3. ~ChangeTokens(r) /\ ~Passed(r) BY DEF ChangeTokens, Passed, Step
<1>4. Found(r) /\ rec.who \in Users /\ users[rec.who].state = "live" BY <1>1, <1>2, <1>3 DEF Goes
<1>5. QED BY <1>4 DEF Found

LEMMA AfterOrg ==
  ASSUME NEW r, NEW rec, Goes(r, rec), Head(req[r].todo) = "createOrg"
  PROVE  /\ CreateOrg(r) /\ rec.who \in Users /\ users[rec.who].state = "free"
         /\ users' = [users EXCEPT ![rec.who] = [email |-> req[r].email, state |-> "org"]]
<1>1. ~ByJwt(r) /\ ~Found(r) /\ ~Made(r) /\ ~Sign(r) /\ ~Destroyed(r) /\ ~SessionMade(r)
  BY DEF ByJwt, Found, Made, Sign, Destroyed, SessionMade, Step
<1>2. ~ChangeTokens(r) /\ ~Passed(r) BY DEF ChangeTokens, Passed, Step
<1>3. QED BY <1>1, <1>2 DEF Goes

-----------------------------------------------------------------------------
\* Types.

LEMMA GroundStep ==
  ASSUME Ground, Asked, NEW r \in Requests, Kind(r)
  PROVE  Ground'
<1>1. req[r] \in RequestRecords BY DEF Asked
<1>2. req[r].who \in Users \cup {None} /\ req[r].ctx \in Users \cup {None} /\ req[r].email \in Emails \cup {None}
  BY <1>1 DEF RequestRecords
<1>3. CASE Start(r) \/ Refused(r) \/ Failed(r) \/ Passed(r) \/ Called(r) \/ ByJwt(r) \/ ByToken(r) \/ Found(r)
  <2>1. Same BY <1>3 DEF Start, Refused, Failed, Passed, Called, ByJwt, ByToken, Found, Same,
                         bounds, accountVars, sessionVars
  <2>2. QED BY <2>1 DEF Ground, Same
<1>4. CASE CreateOrg(r)
  <2>1. PICK u \in Users : users' = [users EXCEPT ![u] = [email |-> req[r].email, state |-> "org"]]
    BY <1>4 DEF CreateOrg
  <2>2. UNCHANGED <<mode, token, jwts, row, live>> BY <1>4 DEF CreateOrg, bounds, sessionVars
  <2>3. QED BY <1>2, <2>1, <2>2 DEF Ground
<1>5. CASE Made(r) BY <1>2, <1>5 DEF Ground, Made
<1>6. CASE Sign(r)
  <2>1. req[r].who \in Users BY <1>6 DEF Asked, Sign, Step, At
  <2>2. UNCHANGED <<mode, users, token, row, live>> /\ jwts' = jwts \cup {req[r].who}
    BY <1>6 DEF Sign, bounds, sessionVars
  <2>3. QED BY <2>1, <2>2 DEF Ground
<1>7. CASE ChangeTokens(r)
  <2> DEFINE u == req[r].ctx
  <2>1. UNCHANGED <<mode, jwts, row, live>> BY <1>7 DEF ChangeTokens, bounds, sessionVars
  <2>2. /\ \/ token' = [token EXCEPT ![u] = "valid"]
           \/ token' = [token EXCEPT ![u] = IF @ = "valid" THEN "revoked" ELSE @]
        /\ users' = users \/ users' = [users EXCEPT ![u] = [email |-> None, state |-> "erased"]]
    BY <1>7 DEF ChangeTokens
  <2> HIDE DEF u
  <2>3. token' \in [Users -> {"none", "valid", "revoked"}] BY <2>2 DEF Ground
  <2>4. users' \in [Users -> [email : Emails \cup {None}, state : {"free", "org", "live", "erased"}]]
    BY <2>2 DEF Ground
  <2>5. QED BY <2>1, <2>3, <2>4 DEF Ground
<1>8. CASE SessionMade(r)
  <2>1. PICK s \in Sessions :
          /\ row' = [row EXCEPT ![s] = [org |-> IF req[r].ctx = None THEN "local" ELSE req[r].ctx,
                                        state |-> "there"]]
          /\ live' = live \cup {s}
    BY <1>8 DEF SessionMade
  <2>2. UNCHANGED <<mode, users, token, jwts>> BY <1>8 DEF SessionMade
  <2>3. (IF req[r].ctx = None THEN "local" ELSE req[r].ctx) \in Orgs BY <1>2 DEF Orgs
  <2>4. QED BY <2>1, <2>2, <2>3 DEF Ground
<1>9. CASE Destroyed(r) BY <1>9 DEF Ground, Destroyed
<1>10. QED BY <1>3, <1>4, <1>5, <1>6, <1>7, <1>8, <1>9 DEF Kind

\* A list put together from a front and a route, by its first step.
LEMMA BegunFits ==
  ASSUME NEW q, Begun(q)
  PROVE  Fits(q.todo) /\ q.todo # <<>> /\ ~At(q, "sign") /\ ~At(q, "createUser")
<1>1. PICK t \in Routes, p \in Fronts : q.todo = p \o t BY DEF Begun
<1> DEFINE u == q.todo
<1> HIDE DEF u
<1>2. Fits(u) /\ u[1] \notin {"sign", "createUser"} BY <1>1, RoutesFit, FrontFits DEF u
<1>3. u # <<>> /\ Head(u) = u[1] BY <1>2, TailFits
<1>4. QED BY <1>2, <1>3 DEF u, At

LEMMA AskedStep ==
  ASSUME Ground, Asked, NEW r \in Requests, Kind(r)
  PROVE  Asked'
<1>1. PICK q \in RequestRecords : req' = [req EXCEPT ![r] = q] /\ Becomes(r, q) BY KindBecomes
<1>2. req' \in [Requests -> RequestRecords] /\ req'[r] = q /\ \A x \in Requests \ {r} : req'[x] = req[x]
  BY <1>1, GoneOn
<1>3. /\ req[r].todo # <<>> => Fits(req[r].todo) /\ req[r].answer = "none" /\ req[r].s # None
  BY DEF Asked
<1>4. /\ q.todo # <<>> => Fits(q.todo) /\ q.answer = "none" /\ q.s # None
      /\ q.todo = <<>> => q.answer # "none" \/ q.s = None
      /\ At(q, "sign") \/ At(q, "createUser") => q.who \in Users
  <2>1. CASE Begun(q) BY <2>1, BegunFits, InputsAssumption DEF Begun
  <2>2. CASE Ends(r, q)
    <3>1. q.todo = <<>> /\ q.answer \in Codes BY <2>2 DEF Ends, Ended
    <3>2. "none" \notin Codes BY DEF Codes
    <3>3. QED BY <3>1, <3>2 DEF At
  <2>6. CASE Stopped(r, q)
    <3>1. q.todo = <<>> /\ q.answer \in Codes BY <2>6 DEF Stopped
    <3>2. "none" \notin Codes BY DEF Codes
    <3>3. QED BY <3>1, <3>2 DEF At
  <2>3. CASE req[r].todo # <<>> /\ Head(req[r].todo) = "auth" /\ TokenFound(r, q)
    <3>1. q.todo = <<"lastUsed">> \o Tail(req[r].todo) /\ q.s = req[r].s /\ q.answer = req[r].answer
      BY <2>3 DEF TokenFound
    <3> DEFINE u == q.todo
    <3> HIDE DEF u
    <3>2. Fits(req[r].todo) /\ req[r].todo[1] = "auth" BY <1>3, <2>3, TailFits
    <3>3. Fits(u) /\ u[1] = "lastUsed" BY <3>1, <3>2, UsedFits DEF u
    <3>4. u # <<>> /\ Head(u) = u[1] BY <3>3, TailFits
    <3>5. QED BY <1>3, <2>3, <3>1, <3>3, <3>4 DEF At, u
  <2>4. ASSUME req[r].todo # <<>>, NEW rec, Goes(r, rec), Went(req[r].todo, rec, q)
        PROVE  /\ q.todo # <<>> => Fits(q.todo) /\ q.answer = "none" /\ q.s # None
               /\ q.todo = <<>> => q.answer # "none" \/ q.s = None
               /\ At(q, "sign") \/ At(q, "createUser") => q.who \in Users
    <3>1. Fits(req[r].todo) /\ req[r].s # None BY <1>3, <2>4
    <3>2. rec.s # None BY <2>4, <3>1, InputsAssumption DEF Goes
    <3>3. "none" \notin Codes BY DEF Codes
    <3>4. At(q, "sign") => q.who \in Users
      BY <2>4, <3>1, NextName, AfterVerify
    <3>5. ASSUME At(q, "createUser") PROVE q.who \in Users
      <4>1. Head(req[r].todo) = "createOrg" /\ q.who = rec.who BY <2>4, <3>1, <3>5, NextName
      <4>2. QED BY <2>4, <4>1, AfterOrg
    <3>6. q.s # None BY <2>4, <3>2 DEF Went
    <3>7. q.todo # <<>> => Fits(q.todo) /\ q.answer = "none" BY <2>4 DEF Went
    <3>8. q.todo = <<>> => q.answer # "none"
      <4>1. Fits(<<>>) => FALSE BY DEF Fits, Shaped
      <4>2. QED BY <2>4, <3>3, <4>1 DEF Went
    <3>9. QED BY <3>4, <3>5, <3>6, <3>7, <3>8
  <2>5. QED BY <1>1, <2>1, <2>2, <2>3, <2>4, <2>6 DEF Becomes
<1>5. ASSUME NEW x \in Requests
      PROVE  /\ req'[x].todo # <<>> => Fits(req'[x].todo) /\ req'[x].answer = "none" /\ req'[x].s # None
             /\ req'[x].todo = <<>> => req'[x].answer # "none" \/ req'[x].s = None
             /\ At(req'[x], "sign") \/ At(req'[x], "createUser") => req'[x].who \in Users
  <2>1. CASE x = r BY <1>2, <1>4, <2>1
  <2>2. CASE x # r BY <1>2, <2>2 DEF Asked
  <2>3. QED BY <2>1, <2>2
<1>6. QED BY <1>2, <1>5 DEF Asked, At

Buckets == [count : Nat, resetAt : Nat]

\* A check leaves buckets of the right type.
LEMMA LimitTyped ==
  ASSUME Asked, Counted, NEW r \in Requests, Limit(r)
  PROVE  /\ \A k \in DOMAIN buckets' : buckets'[k] \in Buckets
         /\ admitted' \in [Emails -> [0..MaxNow -> Nat]]
<1>1. PICK kind \in Kinds :
        LET k  == <<kind, IF kind = "loginEmail" THEN req[r].email ELSE "ip">>
            b  == [Current(k, kind) EXCEPT !.count = @ + 1]
            bs == [j \in DOMAIN buckets \cup {k} |-> IF j = k THEN b ELSE buckets[j]]
        IN /\ buckets' = IF limiter = "memory" THEN Gc(bs, k) ELSE Expire(bs)
           /\ \/ admitted' = [admitted EXCEPT ![req[r].email][now] = @ + 1]
              \/ admitted' = admitted
  BY DEF Limit
<1> DEFINE k  == <<kind, IF kind = "loginEmail" THEN req[r].email ELSE "ip">>
           b  == [Current(k, kind) EXCEPT !.count = @ + 1]
           bs == [j \in DOMAIN buckets \cup {k} |-> IF j = k THEN b ELSE buckets[j]]
<1> HIDE DEF k
<1>2. Current(k, kind) \in Buckets
  <2>1. Limits[kind].window \in Nat /\ now \in Nat BY LimitsAssumption, BoundsAssumption DEF Counted
  <2>2. Fresh(kind) \in Buckets BY <2>1 DEF Fresh, Buckets
  <2>3. k \in DOMAIN buckets => buckets[k] \in Buckets BY DEF Counted, Buckets
  <2>4. QED BY <2>2, <2>3 DEF Current
<1>3. b \in Buckets BY <1>2 DEF Buckets
<1> HIDE DEF b
<1>4. \A j \in DOMAIN bs : bs[j] \in Buckets BY <1>3 DEF Counted, Buckets
<1> HIDE DEF bs
<1>5. \A S \in SUBSET DOMAIN bs : \A j \in DOMAIN Restrict(bs, S) : Restrict(bs, S)[j] \in Buckets
  BY <1>4 DEF Restrict
<1>6. \A j \in DOMAIN buckets' : buckets'[j] \in Buckets
  <2>1. buckets' = IF limiter = "memory" THEN Gc(bs, k) ELSE Expire(bs) BY <1>1 DEF bs, b, k
  <2> DEFINE S == {j \in DOMAIN bs : bs[j].resetAt > now}
  <2>2. buckets' = bs \/ buckets' = Restrict(bs, S) BY <2>1 DEF Gc, Expire
  <2>3. S \in SUBSET DOMAIN bs OBVIOUS
  <2> HIDE DEF S
  <2>4. QED BY <1>4, <1>5, <2>2, <2>3
<1>7. admitted' \in [Emails -> [0..MaxNow -> Nat]]
  <2>1. admitted' = [admitted EXCEPT ![req[r].email][now] = @ + 1] \/ admitted' = admitted BY <1>1
  <2>2. now \in 0..MaxNow /\ admitted \in [Emails -> [0..MaxNow -> Nat]] BY DEF Counted
  <2> DEFINE e == req[r].email
  <2> HIDE DEF e
  <2>3. ASSUME e \in Emails, admitted' = [admitted EXCEPT ![e][now] = @ + 1]
        PROVE  admitted' \in [Emails -> [0..MaxNow -> Nat]]
    <3>1. admitted[e] \in [0..MaxNow -> Nat] BY <2>2, <2>3
    <3> DEFINE f == admitted[e]
    <3>2. f \in [0..MaxNow -> Nat] BY <3>1
    <3>3. admitted' = [admitted EXCEPT ![e] = [f EXCEPT ![now] = f[now] + 1]] BY <2>3
    <3> HIDE DEF f
    <3>4. f[now] \in Nat BY <2>2, <3>2
    <3>5. [f EXCEPT ![now] = f[now] + 1] \in [0..MaxNow -> Nat] BY <2>2, <3>2, <3>4
    <3>6. QED BY <2>2, <3>3, <3>5
  <2>4. ASSUME e \notin Emails, admitted' = [admitted EXCEPT ![e][now] = @ + 1] PROVE admitted' = admitted
    BY <2>2, <2>4
  <2>5. QED BY <2>1, <2>2, <2>3, <2>4 DEF e
<1>8. QED BY <1>6, <1>7

LEMMA CountedStep ==
  ASSUME Asked, Counted, Next
  PROVE  Counted'
<1>1. MaxStarts[scope] \in Nat /\ MaxNow \in Nat BY BoundsAssumption, ScopesAssumption DEF Counted
<1>2. CASE Tick BY <1>1, <1>2 DEF Tick, Counted, bounds, limitVars
<1>3. ASSUME NEW r \in Requests, Start(r) PROVE Counted'
  BY <1>1, <1>3 DEF Start, Counted, bounds, limitVars
<1>4. ASSUME NEW r \in Requests, Limit(r) PROVE Counted'
  <2>1. UNCHANGED <<limiter, scope, starts, now>> BY <1>4 DEF Limit, bounds
  <2>2. QED BY <1>4, <2>1, LimitTyped DEF Counted, Buckets
<1>5. ASSUME UNCHANGED <<limiter, scope, starts, now, buckets, admitted>> PROVE Counted'
  BY <1>5 DEF Counted
<1>6. ASSUME NEW r \in Requests,
             \/ Checks(r) \/ Authenticate(r) \/ CreateOrg(r) \/ CreateUser(r) \/ VerifyPassword(r)
             \/ Sign(r) \/ ChangeTokens(r) \/ CreateSession(r) \/ Destroy(r) \/ Attach(r)
             \/ CallAccounts(r) \/ CallSession(r) \/ CallOthers(r)
      PROVE  UNCHANGED <<limiter, scope, starts, now, buckets, admitted>>
  <2> USE DEF bounds, limitVars
  <2>1. CASE Checks(r)
    BY <2>1 DEF Checks, Parse, Param, Need, Condition, Quota, GetSession, RequireLive, Other
  <2>2. CASE Authenticate(r) \/ CreateOrg(r) \/ CreateUser(r) \/ VerifyPassword(r) \/ Sign(r)
    BY <2>2 DEF Authenticate, CreateOrg, CreateUser, VerifyPassword, Sign
  <2>3. CASE ChangeTokens(r) \/ CreateSession(r) \/ Destroy(r) \/ Attach(r)
    BY <2>3 DEF ChangeTokens, CreateSession, Destroy, Attach
  <2>4. CASE CallAccounts(r) \/ CallSession(r) \/ CallOthers(r)
    BY <2>4 DEF CallAccounts, CallSession, CallOthers, Calls, Fails, Refuses
  <2>5. QED BY <1>6, <2>1, <2>2, <2>3, <2>4
<1>7. QED BY <1>2, <1>3, <1>4, <1>5, <1>6 DEF Next, Checks

Typed == Ground /\ Asked /\ Counted

LEMMA TypedIsOK == Typed => TypeOK
<1> SUFFICES ASSUME Typed PROVE TypeOK OBVIOUS
<1>1. ASSUME NEW r \in Requests PROVE RequestType(req[r])
  <2> DEFINE q == req[r]
  <2>1. q \in RequestRecords /\ q.todo \in Seq(Words) BY DEF Typed, Asked, RequestRecords
  <2>2. q.todo # <<>> => q.answer = "none" /\ q.s # None BY DEF Typed, Asked
  <2>3. q.todo = <<>> => q.answer # "none" \/ q.s = None BY DEF Typed, Asked
  <2> HIDE DEF q
  <2>4. RequestType(q) BY <2>1, <2>2, <2>3 DEF RequestType, RequestRecords
  <2>5. QED BY <2>4 DEF q
<1>2. QED BY <1>1 DEF Typed, Ground, Counted, TypeOK

LEMMA InitTyped ==
  ASSUME Init
  PROVE  Typed
<1> DEFINE first == CHOOSE u \in Users : TRUE
           e == CHOOSE x \in Emails : TRUE
           s == CHOOSE x \in Sessions : TRUE
<1>1. first \in Users /\ e \in Emails /\ s \in Sessions BY UsersAssumption, InputsAssumption
<1>2. PICK old \in Sessions :
        /\ users = [u \in Users |->
                     IF u = first THEN [email |-> e, state |-> "live"]
                     ELSE [email |-> None, state |-> IF scope = "session" THEN "live" ELSE "free"]]
        /\ token \in {t \in [Users -> {"none", "valid"}] :
                       \A u \in Users : t[u] = "valid" => mode = "cloud" /\ u = first}
        /\ jwts = IF mode = "local" THEN {} ELSE IF scope = "session" THEN Users ELSE {first}
        /\ row = [x \in Sessions |-> [org |-> IF mode = "cloud" THEN first ELSE "local",
                                       state |-> IF x \in {s, old} THEN "there" ELSE "unused"]]
        /\ live = {s}
  BY DEF Init
<1> HIDE DEF first, e, s
<1>3. Ground
  <2>1. mode \in {"local", "cloud"} BY DEF Init
  <2>2. users \in [Users -> [email : Emails \cup {None}, state : {"free", "org", "live", "erased"}]]
    BY <1>1, <1>2
  <2>3. token \in [Users -> {"none", "valid", "revoked"}] BY <1>2
  <2>4. jwts \subseteq Users BY <1>1, <1>2
  <2>5. row \in [Sessions -> [org : Orgs, state : {"unused", "there", "gone"}]] BY <1>1, <1>2 DEF Orgs
  <2>6. live \subseteq Sessions BY <1>1, <1>2
  <2>7. QED BY <2>1, <2>2, <2>3, <2>4, <2>5, <2>6 DEF Ground
<1>4. req = [r \in Requests |-> Idle] BY DEF Init
<1>5. Idle \in RequestRecords
  <2>1. <<>> \in Seq(Words) /\ <<"none">> \in Credentials BY DEF Credentials
  <2>2. QED BY <2>1 DEF Idle, RequestRecords
<1>6. Asked BY <1>4, <1>5 DEF Asked, Idle, At
<1>7. Counted
  <2>1. MaxStarts[scope] \in Nat /\ MaxNow \in Nat BY BoundsAssumption, ScopesAssumption DEF Init
  <2>2. /\ limiter \in {"memory", "redis"} /\ scope \in Scopes /\ starts = 0 /\ now = 0
        /\ buckets = [k \in {} |-> 0] /\ admitted = [x \in Emails |-> [t \in 0..MaxNow |-> 0]]
    BY DEF Init
  <2>3. QED BY <2>1, <2>2 DEF Counted
<1>8. QED BY <1>3, <1>6, <1>7 DEF Typed

LEMMA TypedStep ==
  ASSUME Typed, [Next]_vars
  PROVE  Typed'
<1>1. CASE UNCHANGED vars
  BY <1>1 DEF Typed, Ground, Asked, Counted, At, vars, bounds, accountVars, sessionVars, limitVars
<1>2. CASE Next
  <2>1. Counted' BY <1>2, CountedStep DEF Typed
  <2>2. CASE Same /\ UNCHANGED req BY <2>1, <2>2 DEF Same, Typed, Ground, Asked, At
  <2>3. CASE \E r \in Requests : Kind(r) BY <2>1, <2>3, GroundStep, AskedStep DEF Typed
  <2>4. QED BY <1>2, <2>2, <2>3, NextKinds
<1>3. QED BY <1>1, <1>2

\* Every variable keeps its type and the handler of every request has left of
\* its route a list that ends in a success (createRequestHandler, handleRequest).
THEOREM TypesHold == Spec => []TypeOK
<1>1. Init => Typed BY InitTyped
<1>2. Typed /\ [Next]_vars => Typed' BY TypedStep
<1>3. Typed => TypeOK BY TypedIsOK
<1>4. QED BY <1>1, <1>2, <1>3, PTL DEF Spec

-----------------------------------------------------------------------------
\* A refused request has changed nothing.

\* What a step adds to the changes of its request.
LEMMA Adds ==
  ASSUME NEW r, NEW rec, Goes(r, rec)
  PROVE  \/ rec.did = req[r].did
         \/ /\ Head(req[r].todo) \in Changing
            /\ \E e \in Effects :
                 /\ rec.did = req[r].did \cup {e}
                 /\ Head(req[r].todo) = e \/ (Head(req[r].todo) = "open" /\ e = "attach")
<1> DEFINE h == Head(req[r].todo)
<1>1. CASE Called(r) /\ \E e \in Effects : rec.did = req[r].did \cup {e} /\ (h = e \/ (h = "open" /\ e = "attach"))
  BY <1>1 DEF Changing
<1>2. CASE (Made(r) \/ Sign(r) \/ ChangeTokens(r) \/ Destroyed(r)) /\ rec.did = req[r].did \cup {h}
  <2>1. h \in {"createUser", "sign", "createToken", "revokeToken", "erase", "destroy"}
    BY <1>2 DEF Made, Sign, ChangeTokens, Destroyed, Step
  <2>2. h \in Effects BY <2>1 DEF Effects
  <2>3. QED BY <1>2, <2>2 DEF Changing
<1>3. CASE CreateOrg(r) /\ rec.did = req[r].did \cup {"createOrg"}
  BY <1>3 DEF CreateOrg, Step, Changing, Effects
<1>4. CASE SessionMade(r) /\ rec.did = req[r].did \cup {"createSession"}
  BY <1>4 DEF SessionMade, Step, Changing, Effects
<1>5. QED BY <1>1, <1>2, <1>3, <1>4 DEF Goes

UntouchedBy(q) ==
  /\ q.answer \in Refusals => q.did = {} \/ (q.answer = "409" /\ q.did \in {{"createOrg"}, {"work"}})
  /\ At(q, "auth") => q.ctx = None /\ q.did = {}
  /\ q.did # {} => \A j \in 1..Len(q.todo) :
       \/ q.todo[j] \notin Refusing \cup {"createOrg"}
       \/ q.did = {"createOrg"} /\ j = 1 /\ q.todo[j] = "createUser"

LEMMA UntouchedGoes ==
  ASSUME NEW r, req[r].todo # <<>>, Fits(req[r].todo), UntouchedBy(req[r]),
         NEW rec, NEW q, Goes(r, rec), Went(req[r].todo, rec, q)
  PROVE  UntouchedBy(q)
<1> DEFINE t == req[r].todo
           d == req[r].did
<1>1. /\ Len(t) \in Nat /\ Len(t) >= 2 /\ Head(t) = t[1] /\ Len(Tail(t)) = Len(t) - 1
      /\ \A j \in 1..Len(Tail(t)) : Tail(t)[j] = t[j + 1]
  BY TailFits
<1>2. q.did = rec.did BY DEF Went
<1>3. CASE q.todo = <<>>
  <2>1. q.answer \notin Refusals BY <1>3 DEF Went, Fits, Shaped
  <2>2. ~At(q, "auth") /\ \A j \in 1..Len(q.todo) : FALSE BY <1>3 DEF At
  <2>3. QED BY <2>1, <2>2 DEF UntouchedBy
<1>4. CASE q.todo # <<>>
  <2>1. q.todo = Tail(t) /\ q.answer = "none" BY <1>4 DEF Went
  <2>2. q.answer \notin Refusals BY <2>1 DEF Refusals
  <2>3. ~At(q, "auth") BY NextName
  <2>4. ASSUME NEW j \in 1..Len(Tail(t)), rec.did # {}
        PROVE  \/ Tail(t)[j] \notin Refusing \cup {"createOrg"}
               \/ rec.did = {"createOrg"} /\ j = 1 /\ Tail(t)[j] = "createUser"
    <3>1. j + 1 \in 2..Len(t) /\ j + 1 \in 1..Len(t) /\ 1 \in 1..Len(t) /\ j \in Nat
          /\ Tail(t)[j] = t[j + 1]
      BY <1>1
    <3>2. d # {} => t[j + 1] \notin Refusing \cup {"createOrg"}
      BY <3>1 DEF UntouchedBy
    <3>3. CASE rec.did = d BY <2>4, <3>1, <3>2, <3>3
    <3>4. CASE rec.did # d
      <4>1. PICK e \in Effects :
              rec.did = d \cup {e} /\ t[1] \in Changing /\ (t[1] = e \/ (t[1] = "open" /\ e = "attach"))
        BY <1>1, <3>4, Adds
      <4>2. \/ t[j + 1] \notin Refusing \cup {"createOrg"}
            \/ t[1] = "createOrg" /\ j + 1 = 1 + 1 /\ t[j + 1] = "createUser"
        BY <3>1, <4>1 DEF Fits, Careful
      <4>3. CASE t[1] = "createOrg" /\ j + 1 = 1 + 1 /\ t[j + 1] = "createUser"
        <5>1. d = {} BY <3>1, <4>3 DEF UntouchedBy
        <5>2. e = "createOrg" BY <4>1, <4>3
        <5>3. j = 1 BY <3>1, <4>3
        <5>4. QED BY <3>1, <4>1, <4>3, <5>1, <5>2, <5>3
      <4>4. QED BY <3>1, <4>2, <4>3
    <3>5. QED BY <3>3, <3>4
  <2>5. QED BY <1>2, <2>1, <2>2, <2>3, <2>4 DEF UntouchedBy
<1>5. QED BY <1>3, <1>4

LEMMA UntouchedStep ==
  ASSUME Ground, Asked, Untouched, NEW r \in Requests, Kind(r)
  PROVE  Untouched'
<1>1. PICK q \in RequestRecords : req' = [req EXCEPT ![r] = q] /\ Becomes(r, q) BY KindBecomes
<1>2. req'[r] = q /\ \A x \in Requests \ {r} : req'[x] = req[x] BY <1>1, GoneOn
<1>3. UntouchedBy(req[r]) BY DEF Untouched, UntouchedBy
<1>4. req[r].todo # <<>> => /\ Fits(req[r].todo) /\ req[r].answer = "none"
                            /\ Head(req[r].todo) = req[r].todo[1] /\ 1 \in 1..Len(req[r].todo)
  <2>1. req[r].todo # <<>> => Fits(req[r].todo) /\ req[r].answer = "none" BY DEF Asked
  <2>2. QED BY <2>1, TailFits
<1>5. UntouchedBy(q)
  <2>0. "none" \notin Refusals BY DEF Refusals
  <2>1. CASE Begun(q) BY <2>0, <2>1 DEF Begun, UntouchedBy
  <2>2. CASE req[r].todo # <<>> /\ Ends(r, q)
    <3>1. PICK code \in Codes :
            /\ q.todo = <<>> /\ q.answer = code /\ q.did = req[r].did
            /\ code \in Refusals =>
                 Head(req[r].todo) \in Refusing /\ (Head(req[r].todo) = "createUser" => code = "409")
      BY <2>2 DEF Ends, Ended
    <3>2. code \in Refusals => q.did = {} \/ (code = "409" /\ q.did \in {{"createOrg"}, {"work"}})
      BY <1>3, <1>4, <2>2, <3>1 DEF UntouchedBy
    <3>3. ~At(q, "auth") /\ \A j \in 1..Len(q.todo) : FALSE BY <3>1 DEF At
    <3>4. QED BY <3>1, <3>2, <3>3 DEF UntouchedBy
  <2>6. CASE req[r].todo # <<>> /\ Stopped(r, q)
    <3> DEFINE e == Head(req[r].todo)
    <3>1. /\ q.todo = <<>> /\ q.did = req[r].did \cup {e}
          /\ q.answer \in Refusals => e = "work" /\ q.answer = "409"
      BY <2>6 DEF Stopped, FailedCode
    <3>2. e = "work" => req[r].did = {} BY <1>3, <1>4, <2>6 DEF UntouchedBy, Refusing
    <3>3. q.answer \in Refusals => q.answer = "409" /\ q.did = {"work"} BY <3>1, <3>2
    <3>4. ~At(q, "auth") /\ \A j \in 1..Len(q.todo) : FALSE BY <3>1 DEF At
    <3>5. QED BY <3>3, <3>4 DEF UntouchedBy
  <2>3. CASE req[r].todo # <<>> /\ Head(req[r].todo) = "auth" /\ TokenFound(r, q)
    <3>1. q.did = {} /\ q.answer = "none" BY <1>3, <1>4, <2>3 DEF TokenFound, UntouchedBy, At
    <3> DEFINE u == q.todo
    <3>2. u = <<"lastUsed">> \o Tail(req[r].todo) BY <2>3 DEF TokenFound
    <3> HIDE DEF u
    <3>3. Fits(u) /\ u[1] = "lastUsed" BY <1>4, <2>3, <3>2, UsedFits
    <3>4. Head(u) = u[1] BY <3>3, TailFits
    <3>5. ~At(q, "auth") BY <3>3, <3>4 DEF At, u
    <3>6. QED BY <2>0, <3>1, <3>5 DEF UntouchedBy
  <2>4. ASSUME req[r].todo # <<>>, NEW rec, Goes(r, rec), Went(req[r].todo, rec, q) PROVE UntouchedBy(q)
    BY <1>3, <1>4, <2>4, UntouchedGoes
  <2>5. QED BY <1>1, <2>1, <2>2, <2>3, <2>4, <2>6 DEF Becomes
<1>6. ASSUME NEW x \in Requests PROVE UntouchedBy(req'[x])
  BY <1>2, <1>5 DEF Untouched, UntouchedBy
<1>7. QED BY <1>6 DEF Untouched, UntouchedBy, At

\* A request that is refused has changed nothing, but for the organisation of a
\* registration whose address was taken, and for the session whose engine took a
\* call up and was in another state then: for any number of requests and
\* whatever others do between its steps.  No route has a step that refuses
\* after one that changes something (RoutesFit), and no step undoes that.
THEOREM RefusedLeavesNothingHolds == Spec => []RefusedLeavesNothing
<1>1. Init => Typed /\ Untouched
  <2>1. Init => Untouched
    <3>1. Init => \A r \in Requests : req[r] = Idle BY DEF Init
    <3>2. UntouchedBy(Idle) BY DEF UntouchedBy, Idle, At, Refusals
    <3>3. QED BY <3>1, <3>2 DEF Untouched, UntouchedBy
  <2>2. QED BY <2>1, InitTyped
<1>2. Typed /\ Untouched /\ [Next]_vars => (Typed /\ Untouched)'
  <2> SUFFICES ASSUME Typed, Untouched, [Next]_vars PROVE Typed' /\ Untouched' OBVIOUS
  <2>1. Typed' BY TypedStep
  <2>2. CASE UNCHANGED req BY <2>1, <2>2 DEF Untouched, At
  <2>3. CASE \E r \in Requests : Kind(r) BY <2>1, <2>3, UntouchedStep DEF Typed
  <2>4. QED BY <2>1, <2>2, <2>3, NextKinds DEF vars
<1>3. Untouched => RefusedLeavesNothing BY DEF Untouched, RefusedLeavesNothing
<1>4. QED BY <1>1, <1>2, <1>3, PTL DEF Spec

-----------------------------------------------------------------------------
\* Erased users are locked out.

\* What no step undoes: a registration, an erasure, a token's revocation; an
\* organisation without its user waits for the request that makes one.
LEMMA UsersMove ==
  ASSUME Ground, Asked, Accounts, NEW r \in Requests, Kind(r), NEW u \in Users
  PROVE  /\ Registered(u) => users'[u].state \in {"live", "erased"}
         /\ users[u].state = "erased" => users'[u].state = "erased"
         /\ token[u] = "revoked" => token'[u] = "revoked"
         /\ users[u].state = "org" =>
              users'[u].state = "org" \/ (At(req[r], "createUser") /\ u = req[r].who)
         /\ u \in jwts' \/ token'[u] # "none" => users'[u].state \in {"live", "erased"}
<1> USE DEF Registered
<1>0. /\ u \in jwts \/ token[u] # "none" => users[u].state \in {"live", "erased"}
      /\ users[u] \in [email : Emails \cup {None}, state : {"free", "org", "live", "erased"}]
  BY DEF Accounts, Ground
<1>1. CASE Start(r) \/ Refused(r) \/ Failed(r) \/ Passed(r) \/ Called(r) \/ ByJwt(r) \/ ByToken(r) \/ Found(r)
  <2>1. Same BY <1>1 DEF Start, Refused, Failed, Passed, Called, ByJwt, ByToken, Found, Same,
                         bounds, accountVars, sessionVars
  <2>2. users' = users /\ token' = token /\ jwts' = jwts BY <2>1 DEF Same
  <2>3. QED BY <1>0, <2>2
<1>2. CASE CreateOrg(r)
  <2>1. PICK v \in Users : users[v].state = "free" /\ users' = [users EXCEPT ![v] = [email |-> req[r].email, state |-> "org"]]
    BY <1>2 DEF CreateOrg
  <2>2. token' = token /\ jwts' = jwts BY <1>2 DEF CreateOrg
  <2>3. users'[u].state = IF u = v THEN "org" ELSE users[u].state BY <2>1 DEF Ground
  <2>4. QED BY <1>0, <2>1, <2>2, <2>3
<1>3. CASE Made(r)
  <2>1. /\ users' = [users EXCEPT ![req[r].who].state = "live"] /\ token' = token /\ jwts' = jwts
        /\ At(req[r], "createUser")
    BY <1>3 DEF Made, Step, At
  <2>2. users[req[r].who].state = "org" BY <2>1 DEF Accounts
  <2>3. users'[u].state = IF u = req[r].who THEN "live" ELSE users[u].state BY <2>1 DEF Ground
  <2>4. QED BY <1>0, <2>1, <2>2, <2>3
<1>4. CASE Sign(r)
  <2>1. users' = users /\ token' = token /\ jwts' = jwts \cup {req[r].who} /\ At(req[r], "sign")
    BY <1>4 DEF Sign, Step, At
  <2>2. users[req[r].who].state \in {"live", "erased"} BY <2>1 DEF Accounts
  <2>3. QED BY <1>0, <2>1, <2>2
<1>5. CASE ChangeTokens(r)
  <2> DEFINE c == req[r].ctx
  <2>1. jwts' = jwts BY <1>5 DEF ChangeTokens
  <2>2. c # None => users[c].state \in {"live", "erased"} BY DEF Accounts
  <2>3. u = c => users[u].state \in {"live", "erased"} BY <2>2, UsersAssumption
  <2>4. \/ users' = users /\ token[c] = "none" /\ token' = [token EXCEPT ![c] = "valid"]
        \/ users' = users /\ token' = [token EXCEPT ![c] = IF @ = "valid" THEN "revoked" ELSE @]
        \/ /\ users' = [users EXCEPT ![c] = [email |-> None, state |-> "erased"]]
           /\ token' = [token EXCEPT ![c] = IF @ = "valid" THEN "revoked" ELSE @]
    BY <1>5 DEF ChangeTokens
  <2> HIDE DEF c
  <2>5. CASE users' = users /\ token[c] = "none" /\ token' = [token EXCEPT ![c] = "valid"]
    <3>1. token'[u] = IF u = c THEN "valid" ELSE token[u] BY <2>5 DEF Ground
    <3>2. QED BY <1>0, <2>1, <2>3, <2>5, <3>1
  <2>6. CASE users' = users /\ token' = [token EXCEPT ![c] = IF @ = "valid" THEN "revoked" ELSE @]
    <3>1. token'[u] = IF u = c /\ token[u] = "valid" THEN "revoked" ELSE token[u] BY <2>6 DEF Ground
    <3>2. QED BY <1>0, <2>1, <2>3, <2>6, <3>1
  <2>7. CASE /\ users' = [users EXCEPT ![c] = [email |-> None, state |-> "erased"]]
             /\ token' = [token EXCEPT ![c] = IF @ = "valid" THEN "revoked" ELSE @]
    <3>1. token'[u] = IF u = c /\ token[u] = "valid" THEN "revoked" ELSE token[u] BY <2>7 DEF Ground
    <3>2. users'[u].state = IF u = c THEN "erased" ELSE users[u].state BY <2>7 DEF Ground
    <3>3. QED BY <1>0, <2>1, <2>3, <3>1, <3>2
  <2>8. QED BY <2>4, <2>5, <2>6, <2>7
<1>6. CASE SessionMade(r) \/ Destroyed(r)
  <2>1. users' = users /\ token' = token /\ jwts' = jwts BY <1>6 DEF SessionMade, Destroyed
  <2>2. QED BY <1>0, <2>1
<1>7. QED BY <1>1, <1>2, <1>3, <1>4, <1>5, <1>6 DEF Kind

\* Where a request is after a step, the step it took is the one before.
LEMMA Arrives ==
  ASSUME Asked, NEW r \in Requests, NEW q, Becomes(r, q), NEW name, At(q, name),
         name \in {"sign", "createUser"}
  PROVE  \E rec : /\ Goes(r, rec) /\ q.who = rec.who /\ req[r].todo # <<>>
                  /\ Head(req[r].todo) = IF name = "sign" THEN "verify" ELSE "createOrg"
<1>1. ~Begun(q) BY BegunFits
<1>2. ~Ends(r, q) /\ ~Stopped(r, q) BY DEF Ends, Ended, Stopped, At
<1>3. ASSUME req[r].todo # <<>>, Head(req[r].todo) = "auth", TokenFound(r, q) PROVE FALSE
  <2> DEFINE u == q.todo
  <2>1. u = <<"lastUsed">> \o Tail(req[r].todo) BY <1>3 DEF TokenFound
  <2> HIDE DEF u
  <2>2. Fits(req[r].todo) /\ req[r].todo[1] = "auth" BY <1>3, TailFits DEF Asked
  <2>3. Fits(u) /\ u[1] = "lastUsed" BY <2>1, <2>2, UsedFits
  <2>4. Head(u) = u[1] BY <2>3, TailFits
  <2>5. QED BY <2>3, <2>4 DEF At, u
<1>4. PICK rec : req[r].todo # <<>> /\ Goes(r, rec) /\ Went(req[r].todo, rec, q)
  BY <1>1, <1>2, <1>3 DEF Becomes
<1>5. Fits(req[r].todo) BY <1>4 DEF Asked
<1>6. /\ q.who = rec.who
      /\ name = "sign" => Head(req[r].todo) = "verify"
      /\ name = "createUser" => Head(req[r].todo) = "createOrg"
  BY <1>4, <1>5, NextName
<1>7. QED BY <1>4, <1>6

\* The credential and the caller of a request, before and after its step.
LEMMA Holds ==
  ASSUME Ground, Asked, Accounts, NEW r \in Requests, NEW q \in RequestRecords, Becomes(r, q)
  PROVE  /\ q.ctx # None => q.ctx \in Users /\ Registered(q.ctx)
         /\ q.cred # <<"none">> => q.cred[2] \in Users /\ Registered(q.cred[2])
<1>1. req[r] \in RequestRecords BY DEF Asked
<1> DEFINE c == req[r].cred
<1>2. c \in Credentials /\ q.cred \in Credentials /\ q.ctx \in Users \cup {None} BY <1>1 DEF RequestRecords
<1> HIDE DEF c
<1>3. /\ req[r].ctx # None => Registered(req[r].ctx)
      /\ c # <<"none">> => Registered(c[2])
  BY DEF Accounts, c
<1>4. c[1] \in {"jwt", "token"} => c # <<"none">> OBVIOUS
<1>5. q.ctx = None \/ q.ctx = req[r].ctx \/ (q.ctx = c[2] /\ c[1] \in {"jwt", "token"})
  <2>1. CASE Begun(q) BY <2>1 DEF Begun
  <2>2. CASE Ends(r, q) \/ Stopped(r, q) BY <2>2 DEF Ends, Ended, Stopped
  <2>3. CASE TokenFound(r, q) BY <2>3 DEF TokenFound, ByToken, c
  <2>4. ASSUME NEW rec, Goes(r, rec), Went(req[r].todo, rec, q)
        PROVE  q.ctx = req[r].ctx \/ (q.ctx = c[2] /\ c[1] = "jwt")
    <3>1. rec.ctx = req[r].ctx \/ (rec.ctx = c[2] /\ c[1] = "jwt") BY <2>4 DEF Goes, ByJwt, c
    <3>2. QED BY <2>4, <3>1 DEF Went
  <2>5. QED BY <2>1, <2>2, <2>3, <2>4 DEF Becomes
<1>6. q.ctx # None => q.ctx \in Users /\ Registered(q.ctx) BY <1>2, <1>3, <1>4, <1>5
<1>7. q.cred = <<"none">> \/ q.cred = c \/ q.cred \in Creds
  <2>1. CASE Begun(q) BY <2>1 DEF Begun
  <2>2. CASE Ends(r, q) \/ Stopped(r, q) BY <2>2 DEF Ends, Ended, Stopped
  <2>3. CASE TokenFound(r, q) BY <2>3 DEF TokenFound, c
  <2>4. ASSUME NEW rec, Goes(r, rec), Went(req[r].todo, rec, q) PROVE q.cred = <<"none">> \/ q.cred = c
    BY <2>4 DEF Goes, Went, c
  <2>5. QED BY <2>1, <2>2, <2>3, <2>4 DEF Becomes
<1>8. ASSUME q.cred \in Creds, q.cred # <<"none">> PROVE Registered(q.cred[2])
  <2>1. PICK u \in Users : q.cred[2] = u /\ (u \in jwts \/ token[u] # "none")
    BY <1>8 DEF Creds, Ground
  <2>2. QED BY <2>1 DEF Accounts
<1>9. q.cred # <<"none">> => q.cred[2] \in Users BY <1>2, HolderTyped
<1>10. QED BY <1>3, <1>6, <1>7, <1>8, <1>9

LEMMA AccountsStep ==
  ASSUME Ground, Asked, Accounts, NEW r \in Requests, Kind(r)
  PROVE  Accounts'
<1>1. PICK q \in RequestRecords : req' = [req EXCEPT ![r] = q] /\ Becomes(r, q) BY KindBecomes
<1>2. req'[r] = q /\ \A x \in Requests \ {r} : req'[x] = req[x] BY <1>1, GoneOn
<1>3. \A x \in Requests : req[x] \in RequestRecords BY DEF Asked
<1>4. ASSUME NEW u \in Users
      PROVE  /\ Registered(u) => users'[u].state \in {"live", "erased"}
             /\ users[u].state = "org" =>
                  users'[u].state = "org" \/ (At(req[r], "createUser") /\ u = req[r].who)
             /\ u \in jwts' \/ token'[u] # "none" => users'[u].state \in {"live", "erased"}
  BY UsersMove
<1>5. /\ q.ctx # None => q.ctx \in Users /\ Registered(q.ctx)
      /\ q.cred # <<"none">> => q.cred[2] \in Users /\ Registered(q.cred[2])
  BY <1>1, Holds
<1>6. At(q, "sign") => q.who \in Users /\ users'[q.who].state = "live"
  <2> SUFFICES ASSUME At(q, "sign") PROVE q.who \in Users /\ users'[q.who].state = "live" OBVIOUS
  <2>1. PICK rec : Goes(r, rec) /\ q.who = rec.who /\ Head(req[r].todo) = "verify" BY <1>1, Arrives
  <2>2. Same /\ rec.who \in Users /\ users[rec.who].state = "live" BY <2>1, AfterVerify
  <2>3. QED BY <2>1, <2>2 DEF Same
<1>7. At(q, "createUser") => q.who \in Users /\ users[q.who].state = "free" /\ users'[q.who].state = "org"
  <2> SUFFICES ASSUME At(q, "createUser")
               PROVE q.who \in Users /\ users[q.who].state = "free" /\ users'[q.who].state = "org" OBVIOUS
  <2>1. PICK rec : Goes(r, rec) /\ q.who = rec.who /\ Head(req[r].todo) = "createOrg" BY <1>1, Arrives
  <2>2. /\ rec.who \in Users /\ users[rec.who].state = "free"
        /\ users' = [users EXCEPT ![rec.who] = [email |-> req[r].email, state |-> "org"]]
    BY <2>1, AfterOrg
  <2>3. QED BY <2>1, <2>2 DEF Ground
<1>8. ASSUME NEW x \in Requests
      PROVE  /\ req'[x].ctx # None => users'[req'[x].ctx].state \in {"live", "erased"}
             /\ req'[x].cred # <<"none">> => users'[req'[x].cred[2]].state \in {"live", "erased"}
             /\ At(req'[x], "sign") => users'[req'[x].who].state \in {"live", "erased"}
             /\ At(req'[x], "createUser") => users'[req'[x].who].state = "org"
  <2>1. CASE x = r BY <1>2, <1>4, <1>5, <1>6, <1>7, <2>1
  <2>2. CASE x # r
    <3>1. req'[x] = req[x] BY <1>2, <2>2
    <3>2. /\ req[x].ctx # None => req[x].ctx \in Users /\ Registered(req[x].ctx)
          /\ req[x].cred # <<"none">> => req[x].cred[2] \in Users /\ Registered(req[x].cred[2])
          /\ At(req[x], "sign") => req[x].who \in Users /\ Registered(req[x].who)
          /\ At(req[x], "createUser") => req[x].who \in Users /\ users[req[x].who].state = "org"
      <4>1. req[x].ctx \in Users \cup {None} /\ req[x].cred \in Credentials BY <1>3 DEF RequestRecords
      <4>2. req[x].cred # <<"none">> => req[x].cred[2] \in Users BY <4>1, HolderTyped
      <4>3. At(req[x], "sign") \/ At(req[x], "createUser") => req[x].who \in Users BY DEF Asked
      <4>4. QED BY <4>1, <4>2, <4>3 DEF Accounts
    <3>3. At(req[x], "createUser") /\ At(req[r], "createUser") => req[x].who # req[r].who
      BY <2>2 DEF Accounts
    <3>4. QED BY <1>4, <3>1, <3>2, <3>3
  <2>3. QED BY <2>1, <2>2
<1>9. ASSUME NEW x \in Requests, NEW y \in Requests, At(req'[x], "createUser"), At(req'[y], "createUser"),
             req'[x].who = req'[y].who
      PROVE  x = y
  <2>1. \A z \in Requests \ {r} : At(req'[z], "createUser") => users[req'[z].who].state = "org"
    BY <1>2 DEF Accounts
  <2>2. At(req'[r], "createUser") => users[req'[r].who].state = "free" BY <1>2, <1>7
  <2>3. CASE x # r /\ y # r BY <1>2, <1>9, <2>3 DEF Accounts
  <2>4. QED BY <1>9, <2>1, <2>2, <2>3
<1>10. QED BY <1>4, <1>8, <1>9 DEF Accounts, Registered, At

LEMMA LockedOutStep ==
  ASSUME Ground, Asked, Accounts, LockedOut, NEW r \in Requests, Kind(r)
  PROVE  LockedOut'
<1>1. PICK q \in RequestRecords : req' = [req EXCEPT ![r] = q] /\ Becomes(r, q) BY KindBecomes
<1>2. req'[r] = q /\ \A x \in Requests \ {r} : req'[x] = req[x] BY <1>1, GoneOn
<1>3. \A x \in Requests : req[x] \in RequestRecords BY DEF Asked
<1>4. req[r].late => req[r].ctx = None /\ (At(req[r], "auth") => Dead(req[r].cred)) BY DEF LockedOut
<1>5. q.late => q.ctx = None /\ (At(q, "auth") => Dead(q.cred) /\ Same)
  <2>1. CASE Begun(q) BY <2>1 DEF Begun
  <2>2. CASE Ends(r, q) \/ Stopped(r, q) BY <1>4, <2>2 DEF Ends, Ended, Stopped, At
  <2>3. CASE req[r].todo # <<>> /\ Head(req[r].todo) = "auth" /\ TokenFound(r, q)
    <3>1. q.late = req[r].late /\ At(req[r], "auth") /\ Lookup(req[r].cred[2])
      BY <2>3 DEF TokenFound, ByToken, At
    <3>2. ~Dead(req[r].cred) BY <3>1 DEF Lookup, Dead
    <3>3. QED BY <1>4, <3>1, <3>2
  <2>4. ASSUME req[r].todo # <<>>, NEW rec, Goes(r, rec), Went(req[r].todo, rec, q)
        PROVE  q.late => q.ctx = None /\ ~At(q, "auth")
    <3>1. q.late = req[r].late /\ q.ctx = rec.ctx BY <2>4 DEF Went, Goes
    <3>2. rec.ctx = req[r].ctx \/ ByJwt(r) BY <2>4 DEF Goes
    <3>3. ByJwt(r) => At(req[r], "auth") /\ ~Dead(req[r].cred) BY DEF ByJwt, Step, At, Dead
    <3>4. Fits(req[r].todo) BY <2>4 DEF Asked
    <3>5. ~At(q, "auth") BY <2>4, <3>4, NextName
    <3>6. QED BY <1>4, <3>1, <3>2, <3>3, <3>5
  <2>5. QED BY <1>1, <2>1, <2>2, <2>3, <2>4 DEF Becomes
<1>6. ASSUME NEW x \in Requests
      PROVE  req'[x].late =>
               /\ req'[x].ctx = None
               /\ At(req'[x], "auth") =>
                    /\ req'[x].cred[1] = "token"
                    /\ token'[req'[x].cred[2]] = "revoked" \/ users'[req'[x].cred[2]].state = "erased"
  <2>1. CASE x = r BY <1>2, <1>5, <2>1 DEF Dead, Same
  <2>2. CASE x # r
    <3> DEFINE c == req[x].cred
    <3>1. req'[x] = req[x] BY <1>2, <2>2
    <3>2. c \in Credentials BY <1>3 DEF RequestRecords
    <3>3. c[1] = "token" => c[2] \in Users BY <3>2, HolderTyped
    <3> HIDE DEF c
    <3>4. Dead(c) =>
            c[1] = "token" /\ (token'[c[2]] = "revoked" \/ users'[c[2]].state = "erased")
      BY <3>3, UsersMove DEF Dead
    <3>5. QED BY <3>1, <3>4 DEF LockedOut, c
  <2>3. QED BY <2>1, <2>2
<1>7. QED BY <1>6 DEF LockedOut, Dead, At

\* A user who erased their account, or revoked their token, is not let in by it
\* on any request that starts later: for any number of users and requests, at
\* any step.  A token is not found again once revoked, nor a user once erased;
\* and a request made with a dead token can not find it.
THEOREM ErasedLockedOutHolds == Spec => []ErasedLockedOut
<1> DEFINE I == Typed /\ Accounts /\ LockedOut
<1>1. Init => I
  <2> SUFFICES ASSUME Init PROVE I OBVIOUS
  <2>1. \A r \in Requests : req[r] = Idle BY DEF Init
  <2>2. ~At(Idle, "sign") /\ ~At(Idle, "createUser") /\ ~At(Idle, "auth")
        /\ Idle.ctx = None /\ Idle.cred = <<"none">> /\ ~Idle.late
    BY DEF Idle, At
  <2>3. \A u \in Users : u \in jwts \/ token[u] # "none" => Registered(u)
    <3> DEFINE first == CHOOSE u \in Users : TRUE
               e == CHOOSE x \in Emails : TRUE
    <3>1. users = [u \in Users |->
                     IF u = first THEN [email |-> e, state |-> "live"]
                     ELSE [email |-> None, state |-> IF scope = "session" THEN "live" ELSE "free"]]
      BY DEF Init
    <3>2. \A u \in Users : token[u] = "valid" => u = first BY DEF Init
    <3>3. \A u \in Users : token[u] \in {"none", "valid"} BY DEF Init
    <3>4. \A u \in jwts : scope = "session" \/ u = first BY DEF Init
    <3> HIDE DEF first, e
    <3>5. QED BY <3>1, <3>2, <3>3, <3>4 DEF Registered
  <2>4. Accounts BY <2>1, <2>2, <2>3 DEF Accounts
  <2>5. LockedOut BY <2>1, <2>2 DEF LockedOut
  <2>6. QED BY <2>4, <2>5, InitTyped
<1>2. I /\ [Next]_vars => I'
  <2> SUFFICES ASSUME I, [Next]_vars PROVE I' OBVIOUS
  <2>1. Typed' BY TypedStep
  <2>2. CASE Same /\ UNCHANGED req
    <3>1. users' = users /\ token' = token /\ jwts' = jwts /\ req' = req BY <2>2 DEF Same
    <3>2. Accounts' BY <3>1 DEF Accounts, Registered, At
    <3>3. LockedOut' BY <3>1 DEF LockedOut, Dead, At
    <3>4. QED BY <2>1, <3>2, <3>3
  <2>3. CASE \E r \in Requests : Kind(r)
    <3>1. Accounts' BY <2>3, AccountsStep DEF Typed
    <3>2. LockedOut' BY <2>3, LockedOutStep DEF Typed
    <3>3. QED BY <2>1, <3>1, <3>2
  <2>4. CASE UNCHANGED vars
    <3>1. Same /\ UNCHANGED req BY <2>4 DEF vars, Same, bounds, accountVars, sessionVars
    <3>2. QED BY <2>2, <3>1
  <2>5. QED BY <2>2, <2>3, <2>4, NextKinds
<1>3. I => ErasedLockedOut BY TypedIsOK DEF ErasedLockedOut, LockedOut
<1>4. QED BY <1>1, <1>2, <1>3, PTL DEF Spec

-----------------------------------------------------------------------------
\* Sessions are reached by their own organisation only.

LEMMA RowKeeps ==
  ASSUME Ground, NEW r \in Requests, Kind(r)
  PROVE  /\ mode' = mode
         /\ \A s \in Sessions :
              row[s].state # "unused" => row'[s].state # "unused" /\ row'[s].org = row[s].org
<1>1. CASE Start(r) \/ Refused(r) \/ Failed(r) \/ Passed(r) \/ Called(r) \/ ByJwt(r) \/ ByToken(r) \/ Found(r)
  <2>1. Same BY <1>1 DEF Start, Refused, Failed, Passed, Called, ByJwt, ByToken, Found, Same,
                         bounds, accountVars, sessionVars
  <2>2. QED BY <2>1 DEF Same
<1>2. CASE CreateOrg(r) \/ Made(r) \/ Sign(r) \/ ChangeTokens(r)
  BY <1>2 DEF CreateOrg, Made, Sign, ChangeTokens, bounds, sessionVars
<1>3. CASE SessionMade(r)
  <2>1. PICK s \in Sessions :
          /\ row[s].state = "unused"
          /\ row' = [row EXCEPT ![s] = [org |-> IF req[r].ctx = None THEN "local" ELSE req[r].ctx,
                                        state |-> "there"]]
    BY <1>3 DEF SessionMade
  <2>2. \A x \in Sessions \ {s} : row'[x] = row[x] BY <2>1 DEF Ground
  <2>3. QED BY <1>3, <2>1, <2>2 DEF SessionMade
<1>4. CASE Destroyed(r) BY <1>4 DEF Destroyed, Ground
<1>5. QED BY <1>1, <1>2, <1>3, <1>4 DEF Kind

LEMMA TheirsKeeps ==
  ASSUME Ground, NEW r \in Requests, Kind(r), NEW q
  PROVE  /\ Theirs(q, row) => Theirs(q, row')
         /\ GuardedBy(q, row) => GuardedBy(q, row')
<1>1. \A s \in Sessions : row[s].state # "unused" => row'[s].state # "unused" /\ row'[s].org = row[s].org
  BY RowKeeps
<1>2. Theirs(q, row) => Theirs(q, row') BY <1>1 DEF Theirs
<1>3. QED BY <1>2 DEF GuardedBy

\* A session is reached by whoever it belongs to, checked by a get or made by
\* the request itself.
LEMMA GoesGuarded ==
  ASSUME Ground, Asked, NEW r \in Requests, req[r].todo # <<>>, UntouchedBy(req[r]),
         GuardedBy(req[r], row), NEW rec, Goes(r, rec)
  PROVE  /\ rec.did \cap OnSessionEffects # {} => Theirs(rec, row')
         /\ Theirs(req[r], row) => Theirs(rec, row')
         /\ Head(req[r].todo) = "get" => Theirs(rec, row')
         /\ req[r].ctx \in Users \/ At(req[r], "auth") => rec.ctx \in Users
<1> DEFINE q == req[r]
           h == Head(q.todo)
           T == Theirs(q, row)
<1>1. Fits(q.todo) /\ q \in RequestRecords /\ q.s # None BY DEF Asked
<1>2. 1 \in 1..Len(q.todo) /\ h = q.todo[1] /\ q.todo # <<>> BY <1>1, TailFits
<1>3. q.s \in Sessions /\ q.ctx \in Users \cup {None} BY <1>1 DEF RequestRecords
<1>4. /\ h \in Reaching => T
      /\ h \in {"get", "createSession"} => q.ctx \in Users
      /\ q.did \cap OnSessionEffects # {} => T
  <2>1. h \in Reaching => T \/ \E i \in 1..(1 - 1) : q.todo[i] = "get" BY <1>2 DEF GuardedBy
  <2>2. h \in {"get", "createSession"} => q.ctx \in Users \/ At(q, "auth") BY <1>2 DEF GuardedBy
  <2>3. QED BY <2>1, <2>2 DEF GuardedBy, At
<1>5. h = "auth" => ~T /\ q.did = {} BY <1>2, UsersAssumption DEF UntouchedBy, At, Theirs
<1>6. Kind(r) BY DEF Goes, Kind
<1>7. T => Theirs(q, row') BY <1>6, TheirsKeeps
<1>8. At(q, "auth") <=> h = "auth" BY <1>2 DEF At
<1> HIDE DEF h, T
<1>9. CASE Passed(r) /\ rec.ctx = q.ctx /\ rec.s = q.s /\ rec.did = q.did
  <2>1. T => Theirs(rec, row') BY <1>7, <1>9 DEF Theirs
  <2>2. h # "auth" BY <1>9 DEF Passed, h
  <2>3. ASSUME h = "get" PROVE T
    <3>1. row[q.s].state = "there" /\ q.ctx \in {None, row[q.s].org} BY <1>9, <2>3 DEF Passed, h
    <3>2. QED BY <1>3, <1>4, <2>3, <3>1, UsersAssumption DEF T, Theirs
  <2>4. QED BY <1>4, <1>8, <1>9, <2>1, <2>2, <2>3 DEF h, T
<1>10. CASE /\ Called(r) /\ rec.ctx = q.ctx /\ rec.s = q.s
            /\ \E e \in Effects \ {"createOrg", "createUser", "sign", "createSession"} :
                 rec.did = q.did \cup {e} /\ (h = e \/ (h = "open" /\ e = "attach"))
  <2>1. T => Theirs(rec, row') BY <1>7, <1>10 DEF Theirs
  <2>2. h # "auth" /\ h # "get" BY <1>10 DEF Effects
  <2>3. PICK e \in Effects \ {"createOrg", "createUser", "sign", "createSession"} :
          rec.did = q.did \cup {e} /\ (h = e \/ (h = "open" /\ e = "attach"))
    BY <1>10
  <2>4. e \in OnSessionEffects => h \in Reaching BY <2>3 DEF Reaching
  <2>5. rec.did \cap OnSessionEffects # {} => T BY <1>4, <2>3, <2>4
  <2>6. QED BY <1>8, <1>10, <2>1, <2>2, <2>5 DEF h, T
<1>11. CASE ByJwt(r) /\ rec.ctx \in Users /\ rec.did = q.did
  <2>1. h = "auth" BY <1>11 DEF ByJwt, Step, h
  <2>2. QED BY <1>5, <1>11, <2>1 DEF h, T
<1>12. CASE (Found(r) \/ CreateOrg(r) \/ Made(r) \/ Sign(r) \/ ChangeTokens(r))
            /\ rec.ctx = q.ctx /\ rec.s = q.s
            /\ (rec.did = q.did \/ rec.did = q.did \cup {h} \/ rec.did = q.did \cup {"createOrg"})
  <2>1. T => Theirs(rec, row') BY <1>7, <1>12 DEF Theirs
  <2>2. h \in {"verify", "createOrg", "createUser", "sign", "createToken", "revokeToken", "erase"}
    BY <1>12 DEF Found, CreateOrg, Made, Sign, ChangeTokens, Step, h
  <2>3. h \notin OnSessionEffects /\ "createOrg" \notin OnSessionEffects BY <2>2 DEF OnSessionEffects
  <2>4. rec.did \cap OnSessionEffects # {} => T BY <1>4, <1>12, <2>3
  <2>5. h # "auth" /\ h # "get" BY <2>2
  <2>6. QED BY <1>8, <1>12, <2>1, <2>4, <2>5 DEF h, T
<1>13. CASE Destroyed(r) /\ rec.ctx = q.ctx /\ rec.s = q.s
  <2>1. h = "destroy" BY <1>13 DEF Destroyed, Step, h
  <2>2. T BY <1>4, <2>1 DEF Reaching, OnSessionEffects
  <2>3. Theirs(rec, row') BY <1>7, <1>13, <2>2 DEF Theirs
  <2>4. QED BY <1>13, <2>3 DEF Theirs
<1>14. CASE /\ SessionMade(r) /\ rec.ctx = q.ctx /\ rec.s \in Sessions
            /\ row' = [row EXCEPT ![rec.s] = [org |-> IF q.ctx = None THEN "local" ELSE q.ctx,
                                              state |-> "there"]]
  <2>1. h = "createSession" BY <1>14 DEF SessionMade, Step, h
  <2>2. q.ctx \in Users /\ q.ctx # None BY <1>4, <2>1, UsersAssumption
  <2>3. row'[rec.s] = [org |-> q.ctx, state |-> "there"] BY <1>14, <2>2 DEF Ground
  <2>4. Theirs(rec, row') BY <1>14, <2>2, <2>3 DEF Theirs
  <2>5. QED BY <2>4 DEF Theirs
<1>15. QED BY <1>9, <1>10, <1>11, <1>12, <1>13, <1>14 DEF Goes, h, T

\* In the cloud a route for anyone reaches no session; before any other comes
\* authentication, and a get before one on a session.
LEMMA BegunGuarded ==
  ASSUME NEW q, Begun(q), mode = "cloud"
  PROVE  GuardedBy(q, row)
<1>1. PICK t \in Routes, p \in Fronts :
        /\ q.todo = p \o t
        /\ mode = "cloud" /\ t \notin PublicRoutes <=> p \in {<<"auth">>, <<"auth", "get">>}
        /\ mode = "cloud" /\ t \in OnSession \ UpgradeRoutes <=> p \in {<<"get">>, <<"auth", "get">>}
  BY DEF Begun
<1> DEFINE u == q.todo
           n == Len(p)
<1>2. u = p \o t BY <1>1
<1> HIDE DEF u
<1>3. p \in Seq(Words) /\ n \in 0..2 BY FrontsShort
<1>4. Fits(t) /\ t[1] \notin {"sign", "createUser", "auth"} BY RoutesFit
<1>5. t \in Seq(Words) /\ Len(t) \in Nat BY <1>4, TailFits
<1>6. /\ Len(u) = n + Len(t)
      /\ \A j \in 1..n : u[j] = p[j]
      /\ \A j \in (n + 1)..Len(u) : u[j] = t[j - n]
      /\ Fits(u)
  <2>1. p \in Fronts /\ t[1] \notin {"sign", "createUser", "auth"} BY <1>4
  <2>2. Len(u) = Len(p) + Len(t) BY <1>2, <1>4, <2>1, FrontFits
  <2>3. \A j \in 1..Len(p) : u[j] = p[j] BY <1>2, <1>4, <2>1, FrontFits
  <2>4. \A j \in (Len(p) + 1)..Len(u) : u[j] = t[j - Len(p)] BY <1>2, <1>4, <2>1, FrontFits
  <2>5. Fits(u) BY <1>2, <1>4, <2>1, FrontFits
  <2>6. QED BY <2>2, <2>3, <2>4, <2>5
<1>7. Head(u) = u[1] /\ u # <<>> BY <1>6, TailFits
<1>8. p = <<>> \/ p = <<"auth">> \/ p = <<"get">> \/ p = <<"auth", "get">> BY DEF Fronts
<1>9. CASE t \in PublicRoutes
  <2>1. t \notin OnSession BY <1>9, RoutesGuarded
  <2>2. p \notin {<<"auth">>, <<"auth", "get">>, <<"get">>} BY <1>1, <1>9, <2>1
  <2>3. p = <<>> BY <1>8, <2>2
  <2>4. n = 0 BY <2>3
  <2>5. \A j \in 1..Len(u) : u[j] = t[j] /\ j \in 1..Len(t) BY <1>5, <1>6, <2>4
  <2>6. \A j \in 1..Len(t) : t[j] \notin Reaching \cup {"get", "createSession"} BY <1>9, RoutesGuarded
  <2>7. q.did = {} BY DEF Begun
  <2>8. QED BY <2>5, <2>6, <2>7 DEF GuardedBy, u
<1>10. CASE t \notin PublicRoutes
  <2>1. p \in {<<"auth">>, <<"auth", "get">>} BY <1>1, <1>10
  <2>2. n >= 1 /\ p[1] = "auth" /\ \A j \in 1..n : p[j] \in {"auth", "get"}
    <3>1. CASE p = <<"auth">> BY <3>1
    <3>2. CASE p = <<"auth", "get">> BY <3>2
    <3>3. QED BY <2>1, <3>1, <3>2
  <2>3. u[1] = "auth" BY <1>3, <1>6, <2>2
  <2>4. At(q, "auth") BY <1>7, <2>3 DEF At, u
  <2>5. ASSUME NEW j \in 1..Len(u), u[j] \in Reaching PROVE \E i \in 1..(j - 1) : u[i] = "get"
    <3>1. "auth" \notin Reaching /\ "get" \notin Reaching BY DEF Reaching, OnSessionEffects
    <3>2. j \in (n + 1)..Len(u) /\ j - n \in 1..Len(t) /\ u[j] = t[j - n]
      <4>1. j \notin 1..n BY <1>6, <2>2, <2>5, <3>1
      <4>2. j \in (n + 1)..Len(u) BY <1>3, <4>1
      <4>3. QED BY <1>3, <1>5, <1>6, <4>2
    <3>3. t \in OnSession BY <2>5, <3>2, RoutesGuarded
    <3>4. CASE t \in UpgradeRoutes
      <4>1. PICK i \in 1..((j - n) - 1) : t[i] = "get" BY <2>5, <3>2, <3>4, RoutesGuarded
      <4>2. n + i \in (n + 1)..Len(u) /\ (n + i) - n = i /\ n + i \in 1..(j - 1) BY <1>3, <3>2, <4>1
      <4>3. u[n + i] = t[i] BY <1>6, <4>2
      <4>4. QED BY <4>1, <4>2, <4>3
    <3>5. CASE t \notin UpgradeRoutes
      <4>1. p \in {<<"get">>, <<"auth", "get">>} BY <1>1, <3>3, <3>5
      <4>2. p = <<"auth", "get">>
        <5>1. p # <<"get">> BY <2>2
        <5>2. QED BY <4>1, <5>1
      <4>3. n = 2 /\ p[2] = "get" BY <4>2
      <4>4. u[2] = "get" /\ 2 \in 1..(j - 1) BY <1>6, <3>2, <4>3
      <4>5. QED BY <4>4
    <3>6. QED BY <3>4, <3>5
  <2>6. q.did = {} BY DEF Begun
  <2>7. QED BY <2>4, <2>5, <2>6 DEF GuardedBy, u
<1>11. QED BY <1>9, <1>10

\* A token was found: what remains to do is the same, and the caller is known.
LEMMA TokenGuarded ==
  ASSUME NEW r, Fits(req[r].todo), req[r].todo # <<>>, Head(req[r].todo) = "auth",
         UntouchedBy(req[r]), GuardedBy(req[r], row), NEW q, TokenFound(r, q)
  PROVE  GuardedBy(q, row)
<1> DEFINE t == req[r].todo
           u == q.todo
<1>1. u = <<"lastUsed">> \o Tail(t) /\ q.ctx \in Users /\ q.did = req[r].did BY DEF TokenFound
<1>2. At(req[r], "auth") BY DEF At
<1>3. req[r].ctx = None /\ q.did = {} BY <1>1, <1>2 DEF UntouchedBy
<1>4. ~Theirs(req[r], row) BY <1>3, UsersAssumption DEF Theirs
<1>5. \A j \in 1..Len(t) : t[j] \in Reaching => \E i \in 1..(j - 1) : t[i] = "get"
  BY <1>4 DEF GuardedBy
<1> HIDE DEF u, t
<1>6. Fits(t) /\ t[1] = "auth" /\ Len(t) \in Nat
  <2>1. Fits(t) /\ Head(t) = "auth" BY DEF t
  <2>2. QED BY <2>1, TailFits
<1>7. Len(u) = Len(t) /\ u[1] = "lastUsed" /\ \A j \in 2..Len(u) : u[j] = t[j]
  BY <1>1, <1>6, UsedFits
<1>8. ASSUME NEW j \in 1..Len(u), u[j] \in Reaching PROVE \E i \in 1..(j - 1) : u[i] = "get"
  <2>1. "lastUsed" \notin Reaching BY DEF Reaching, OnSessionEffects
  <2>2. j # 1 BY <1>7, <1>8, <2>1
  <2>3. j \in 2..Len(u) /\ j \in 1..Len(t) BY <1>6, <1>7, <2>2
  <2>4. PICK i \in 1..(j - 1) : t[i] = "get" BY <1>5, <1>7, <1>8, <2>3
  <2>5. i # 1 BY <1>6, <2>4
  <2>6. i \in 2..Len(u) BY <1>6, <1>7, <2>3, <2>5
  <2>7. QED BY <1>7, <2>4, <2>6
<1>9. QED BY <1>1, <1>3, <1>8 DEF GuardedBy, u

LEMMA WentGuarded ==
  ASSUME Ground, Asked, NEW r \in Requests, req[r].todo # <<>>, UntouchedBy(req[r]),
         GuardedBy(req[r], row), NEW rec, Goes(r, rec), NEW q, Went(req[r].todo, rec, q)
  PROVE  GuardedBy(q, row')
<1> DEFINE t == req[r].todo
           T == Theirs(rec, row')
<1>1. /\ rec.did \cap OnSessionEffects # {} => T
      /\ Theirs(req[r], row) => T
      /\ Head(t) = "get" => T
      /\ req[r].ctx \in Users \/ At(req[r], "auth") => rec.ctx \in Users
  BY GoesGuarded
<1>2. q.ctx = rec.ctx /\ q.did = rec.did /\ q.s = rec.s BY DEF Went
<1>3. T => Theirs(q, row') BY <1>2 DEF Theirs
<1>4. Fits(t) BY DEF Asked
<1>5. /\ t \in Seq(Words) /\ Head(t) = t[1] /\ Len(t) \in Nat /\ Len(t) >= 2
      /\ Len(Tail(t)) = Len(t) - 1 /\ \A j \in 1..Len(Tail(t)) : Tail(t)[j] = t[j + 1]
  BY <1>4, TailFits
<1>6. \A j \in 1..Len(t) :
        /\ t[j] \in Reaching => Theirs(req[r], row) \/ \E i \in 1..(j - 1) : t[i] = "get"
        /\ t[j] \in {"get", "createSession"} => req[r].ctx \in Users \/ At(req[r], "auth")
  BY DEF GuardedBy
<1> DEFINE v == Tail(t)
<1>7. Len(v) = Len(t) - 1 /\ \A j \in 1..Len(v) : v[j] = t[j + 1] BY <1>5
<1>8. q.todo = <<>> \/ q.todo = v BY DEF Went
<1> HIDE DEF t, T, v
<1>9. ASSUME NEW j \in 1..Len(v)
      PROVE  /\ v[j] \in Reaching => T \/ \E i \in 1..(j - 1) : v[i] = "get"
             /\ v[j] \in {"get", "createSession"} => rec.ctx \in Users
  <2>1. j + 1 \in 1..Len(t) /\ v[j] = t[j + 1] BY <1>5, <1>7
  <2>2. v[j] \in {"get", "createSession"} => rec.ctx \in Users BY <1>1, <1>6, <2>1
  <2>3. ASSUME v[j] \in Reaching, ~T PROVE \E i \in 1..(j - 1) : v[i] = "get"
    <3>1. PICK i \in 1..((j + 1) - 1) : t[i] = "get" BY <1>1, <1>6, <2>1, <2>3
    <3>2. i # 1 BY <1>1, <1>5, <2>3, <3>1
    <3>3. i - 1 \in 1..(j - 1) /\ i - 1 \in 1..Len(v) /\ (i - 1) + 1 = i BY <1>5, <1>7, <3>1, <3>2
    <3>4. v[i - 1] = t[i] BY <1>7, <3>3
    <3>5. QED BY <3>1, <3>3, <3>4
  <2>4. QED BY <2>2, <2>3
<1>10. CASE q.todo = <<>>
  <2>1. \A j \in 1..Len(q.todo) : FALSE BY <1>10
  <2>2. QED BY <1>1, <1>2, <1>3, <2>1 DEF GuardedBy
<1>11. CASE q.todo = v BY <1>1, <1>2, <1>3, <1>9, <1>11 DEF GuardedBy
<1>12. QED BY <1>8, <1>10, <1>11

LEMMA GuardedStep ==
  ASSUME Ground, Asked, Untouched, Guarded, NEW r \in Requests, Kind(r)
  PROVE  Guarded'
<1>1. PICK q \in RequestRecords : req' = [req EXCEPT ![r] = q] /\ Becomes(r, q) BY KindBecomes
<1>2. req'[r] = q /\ \A x \in Requests \ {r} : req'[x] = req[x] BY <1>1, GoneOn
<1>3. mode' = mode BY RowKeeps
<1>4. CASE mode # "cloud" BY <1>3, <1>4 DEF Guarded
<1>5. CASE mode = "cloud"
  <2>1. \A x \in Requests : GuardedBy(req[x], row) BY <1>5 DEF Guarded
  <2>2. UntouchedBy(req[r]) BY DEF Untouched, UntouchedBy
  <2>3. req[r].todo # <<>> => Fits(req[r].todo) BY DEF Asked
  <2>4. GuardedBy(q, row')
    <3>1. CASE Begun(q)
      <4>1. GuardedBy(q, row) BY <1>5, <3>1, BegunGuarded
      <4>2. QED BY <4>1, TheirsKeeps
    <3>2. CASE Ends(r, q)
      <4>1. q.todo = <<>> /\ q.did = req[r].did /\ q.s = req[r].s /\ q.ctx = req[r].ctx
        BY <3>2 DEF Ends, Ended
      <4>2. \A j \in 1..Len(q.todo) : FALSE BY <4>1
      <4>3. GuardedBy(req[r], row) BY <2>1
      <4>4. GuardedBy(q, row) BY <4>1, <4>2, <4>3 DEF GuardedBy, Theirs
      <4>5. QED BY <4>4, TheirsKeeps
    <3>6. CASE req[r].todo # <<>> /\ Stopped(r, q)
      <4> DEFINE e == Head(req[r].todo)
      <4>1. /\ q.todo = <<>> /\ q.did = req[r].did \cup {e} /\ q.s = req[r].s /\ q.ctx = req[r].ctx
            /\ e \notin {"createSession"}
        BY <3>6 DEF Stopped
      <4>2. \A j \in 1..Len(q.todo) : FALSE BY <4>1
      <4>3. GuardedBy(req[r], row) BY <2>1
      <4>4. e = req[r].todo[1] /\ 1 \in 1..Len(req[r].todo) BY <2>3, <3>6, TailFits
      <4> HIDE DEF e
      <4>5. e \in Reaching => Theirs(req[r], row) \/ \E i \in 1..(1 - 1) : req[r].todo[i] = "get"
        BY <4>3, <4>4 DEF GuardedBy
      <4>6. e \in OnSessionEffects => Theirs(req[r], row) BY <4>1, <4>5 DEF Reaching
      <4>7. q.did \cap OnSessionEffects # {} => Theirs(q, row)
        BY <4>1, <4>3, <4>6 DEF GuardedBy, Theirs
      <4>8. GuardedBy(q, row) BY <4>2, <4>7 DEF GuardedBy
      <4>9. QED BY <4>8, TheirsKeeps
    <3>3. CASE req[r].todo # <<>> /\ Head(req[r].todo) = "auth" /\ TokenFound(r, q)
      <4>1. GuardedBy(q, row) BY <2>1, <2>2, <2>3, <3>3, TokenGuarded
      <4>2. QED BY <4>1, TheirsKeeps
    <3>4. ASSUME req[r].todo # <<>>, NEW rec, Goes(r, rec), Went(req[r].todo, rec, q)
          PROVE  GuardedBy(q, row')
      BY <2>1, <2>2, <3>4, WentGuarded
    <3>5. QED BY <1>1, <3>1, <3>2, <3>3, <3>4, <3>6 DEF Becomes
  <2>5. ASSUME NEW x \in Requests PROVE GuardedBy(req'[x], row')
    <3>1. CASE x = r BY <1>2, <2>4, <3>1
    <3>2. CASE x # r BY <1>2, <2>1, <3>2, TheirsKeeps
    <3>3. QED BY <3>1, <3>2
  <2>6. QED BY <2>5 DEF Guarded, GuardedBy, Theirs, At
<1>6. QED BY <1>4, <1>5

\* In the cloud only members of a session's organisation reach it, on every
\* route, for any number of requests, users and sessions: the guard in front of
\* the session routes finds it to be the caller's, and a session's organisation
\* does not change between the guard and what the route does.
THEOREM OwnOrgOnlyHolds == Spec => []OwnOrgOnly
<1> DEFINE I == Typed /\ Untouched /\ Guarded
<1>1. Init => I
  <2> SUFFICES ASSUME Init PROVE I OBVIOUS
  <2>1. \A r \in Requests : req[r] = Idle BY DEF Init
  <2>2. UntouchedBy(Idle) BY DEF UntouchedBy, Idle, At, Refusals
  <2>3. GuardedBy(Idle, row)
    <3>1. \A j \in 1..Len(Idle.todo) : FALSE BY DEF Idle
    <3>2. Idle.did = {} BY DEF Idle
    <3>3. QED BY <3>1, <3>2 DEF GuardedBy
  <2>4. QED BY <2>1, <2>2, <2>3, InitTyped DEF Untouched, UntouchedBy, Guarded
<1>2. I /\ [Next]_vars => I'
  <2> SUFFICES ASSUME I, [Next]_vars PROVE I' OBVIOUS
  <2>1. Typed' BY TypedStep
  <2>2. CASE Same /\ UNCHANGED req
    <3>1. mode' = mode /\ row' = row /\ req' = req BY <2>2 DEF Same
    <3>2. Untouched' BY <3>1 DEF Untouched, At
    <3>3. Guarded' BY <3>1 DEF Guarded, GuardedBy, Theirs, At
    <3>4. QED BY <2>1, <3>2, <3>3
  <2>3. CASE \E r \in Requests : Kind(r)
    <3>1. Untouched' BY <2>3, UntouchedStep DEF Typed
    <3>2. Guarded' BY <2>3, GuardedStep DEF Typed
    <3>3. QED BY <2>1, <3>1, <3>2
  <2>4. CASE UNCHANGED vars
    <3>1. Same /\ UNCHANGED req BY <2>4 DEF vars, Same, bounds, accountVars, sessionVars
    <3>2. QED BY <2>2, <3>1
  <2>5. QED BY <2>2, <2>3, <2>4, NextKinds
<1>3. I => OwnOrgOnly BY DEF Guarded, GuardedBy, Theirs, OwnOrgOnly
<1>4. QED BY <1>1, <1>2, <1>3, PTL DEF Spec

-----------------------------------------------------------------------------
\* How many attempts at an address are let through.

\* A sum of naturals over a finite set is a number of dots: f[x] of them at
\* each x.
Dots(f, S) == {p \in S \X Nat : 1 <= p[2] /\ p[2] <= f[p[1]]}
Dotted(f, S) == Cardinality(Dots(f, S))

\* Among the subsets of a finite set, whatever holds of none but some fails of
\* one whose smaller subsets it all holds of.
LEMMA LeastSubset ==
  ASSUME NEW S, IsFiniteSet(S), NEW Bad \in SUBSET (SUBSET S), Bad # {}
  PROVE  \E T \in Bad : \A x \in T : T \ {x} \notin Bad
<1>1. IsWellFoundedOn(StrictSubsetOrdering(S), FiniteSubsetsOf(S))
  BY FS_StrictSubsetOrderingWellFounded
<1>2. \A T \in SUBSET S : IsFiniteSet(T) BY FS_Subset
<1>3. Bad \subseteq FiniteSubsetsOf(S) BY <1>2 DEF FiniteSubsetsOf
<1>4. PICK T \in Bad : \A U \in Bad : <<U, T>> \notin StrictSubsetOrdering(S) BY <1>1, <1>3, WFMin
<1>5. ASSUME NEW x \in T, T \ {x} \in Bad PROVE FALSE
  <2>1. <<T \ {x}, T>> \in StrictSubsetOrdering(S) BY <1>2, <1>5 DEF StrictSubsetOrdering
  <2>2. QED BY <1>4, <1>5, <2>1
<1>6. QED BY <1>4, <1>5

\* The dots of a set are those of one element and those of the others.
LEMMA DotsAt ==
  ASSUME NEW S, NEW f, \A y \in S : f[y] \in Nat, NEW x \in S,
         IsFiniteSet(Dots(f, S \ {x}))
  PROVE  IsFiniteSet(Dots(f, S)) /\ Dotted(f, S) = f[x] + Dotted(f, S \ {x})
<1> DEFINE Column == {x} \X (1..f[x])
           Others == Dots(f, S \ {x})
<1>1. Dots(f, S) = Others \cup Column BY DEF Dots
<1>2. Others \cap Column = {} BY DEF Dots
<1> DEFINE top == f[x]
<1>3. top \in Nat OBVIOUS
<1>4. IsFiniteSet(1..top) /\ Cardinality(1..top) = top
  <2> HIDE DEF top
  <2>1. 1 \in Int /\ top \in Int BY <1>3
  <2>2. QED BY <1>3, <2>1, FS_Interval
<1>5. IsFiniteSet({x}) /\ Cardinality({x}) = 1 BY FS_Singleton
<1>6. IsFiniteSet(Column) /\ Cardinality(Column) = 1 * top
  <2> DEFINE N == 1..top
  <2> HIDE DEF N
  <2>1. IsFiniteSet(N) /\ Cardinality(N) = top BY <1>4 DEF N
  <2>2. IsFiniteSet({x} \X N) /\ Cardinality({x} \X N) = Cardinality({x}) * Cardinality(N)
    BY <1>5, <2>1, FS_Product
  <2>3. QED BY <1>5, <2>1, <2>2 DEF N
<1> HIDE DEF Column, Others
<1>7. IsFiniteSet(Others) BY DEF Others
<1>8. /\ IsFiniteSet(Others \cup Column)
      /\ Cardinality(Others \cup Column) = Cardinality(Others) + Cardinality(Column) - Cardinality(Others \cap Column)
  BY <1>6, <1>7, FS_Union
<1>9. Cardinality(Others \cap Column) = 0 BY <1>2, FS_EmptySet
<1>10. Cardinality(Others) \in Nat BY <1>7, FS_CardinalityType
<1>11. Cardinality(Dots(f, S)) = f[x] + Cardinality(Others) BY <1>1, <1>3, <1>6, <1>8, <1>9, <1>10
<1>12. QED BY <1>1, <1>8, <1>11 DEF Dotted, Others

\* There are finitely many dots.
LEMMA DotsFinite ==
  ASSUME NEW S, IsFiniteSet(S), NEW f, \A y \in S : f[y] \in Nat
  PROVE  IsFiniteSet(Dots(f, S)) /\ Dotted(f, S) \in Nat
<1> DEFINE Bad == {T \in SUBSET S : ~IsFiniteSet(Dots(f, T))}
<1>1. ASSUME Bad # {} PROVE FALSE
  <2>1. PICK T \in Bad : \A x \in T : T \ {x} \notin Bad
    <3> HIDE DEF Bad
    <3>1. Bad \in SUBSET (SUBSET S) BY DEF Bad
    <3>2. QED BY <1>1, <3>1, LeastSubset
  <2>2. CASE T = {}
    <3>1. Dots(f, T) = {} BY <2>2 DEF Dots
    <3>2. QED BY <3>1, FS_EmptySet
  <2>3. CASE T # {}
    <3>1. PICK x \in T : TRUE BY <2>3
    <3>2. IsFiniteSet(Dots(f, T \ {x})) BY <2>1, <3>1
    <3>3. \A y \in T : f[y] \in Nat OBVIOUS
    <3>4. IsFiniteSet(Dots(f, T)) BY <3>1, <3>2, <3>3, DotsAt
    <3>5. QED BY <3>4
  <2>4. QED BY <2>2, <2>3
<1>2. IsFiniteSet(Dots(f, S)) BY <1>1
<1>3. QED BY <1>2, FS_CardinalityType DEF Dotted

\* FoldFunctionOnSet, of an addition from 0, counts the dots.
LEMMA SumOfDots ==
  ASSUME NEW S, IsFiniteSet(S), NEW f, \A y \in S : f[y] \in Nat
  PROVE  FoldFunctionOnSet(LAMBDA a, b : a + b, 0, f, S) = Dotted(f, S)
<1> DEFINE c(s) == CHOOSE x \in s : TRUE
           Body(g, s) == IF s = {} THEN 0 ELSE f[c(s)] + g[s \ {c(s)}]
           Recurs(g) == g = [s \in SUBSET S |-> Body(g, s)]
           sum == CHOOSE g : Recurs(g)
           count == [s \in SUBSET S |-> Dotted(f, s)]
<1>1. FoldFunctionOnSet(LAMBDA a, b : a + b, 0, f, S) = sum[S]
  BY DEF FoldFunctionOnSet, MapThenFoldSet
<1>2. ASSUME NEW s \in SUBSET S
      PROVE  /\ s = {} => Dotted(f, s) = 0
             /\ s # {} => c(s) \in s /\ Dotted(f, s) = f[c(s)] + Dotted(f, s \ {c(s)})
  <2>1. CASE s = {}
    <3>1. Dots(f, s) = {} BY <2>1 DEF Dots
    <3>2. QED BY <2>1, <3>1, FS_EmptySet DEF Dotted
  <2>2. CASE s # {}
    <3>1. c(s) \in s BY <2>2
    <3>2. \A y \in s : f[y] \in Nat OBVIOUS
    <3> HIDE DEF c
    <3>3. IsFiniteSet(s \ {c(s)}) BY FS_Subset
    <3>4. IsFiniteSet(Dots(f, s \ {c(s)})) BY <3>2, <3>3, DotsFinite
    <3>5. QED BY <2>2, <3>1, <3>2, <3>4, DotsAt
  <2>3. QED BY <2>1, <2>2
<1>3. ASSUME NEW s \in SUBSET S PROVE count[s] = Body(count, s)
  <2>1. CASE s = {} BY <1>2, <2>1
  <2>2. CASE s # {}
    <3>1. c(s) \in s /\ Dotted(f, s) = f[c(s)] + Dotted(f, s \ {c(s)}) BY <1>2, <2>2
    <3> HIDE DEF c
    <3>2. s \ {c(s)} \in SUBSET S OBVIOUS
    <3>3. count[s \ {c(s)}] = Dotted(f, s \ {c(s)}) BY <3>2
    <3>4. QED BY <2>2, <3>1, <3>3
  <2>3. QED BY <2>1, <2>2
<1>4. Recurs(count)
  <2> DEFINE h == [s \in SUBSET S |-> Body(count, s)]
  <2>1. \A s \in SUBSET S : h[s] = count[s] BY <1>3
  <2>2. count = [s \in SUBSET S |-> count[s]] /\ h = [s \in SUBSET S |-> h[s]] OBVIOUS
  <2>3. count = h
    <3> HIDE DEF count, h
    <3>1. QED BY <2>1, <2>2
  <2>4. QED BY <2>3
<1>5. Recurs(sum)
  <2> HIDE DEF count, Recurs
  <2>1. QED BY <1>4
<1>6. ASSUME NEW s \in SUBSET S PROVE sum[s] = Body(sum, s)
  <2> HIDE DEF sum, Body
  <2>1. QED BY <1>5
<1> HIDE DEF sum, count
<1> DEFINE Bad == {s \in SUBSET S : sum[s] # Dotted(f, s)}
<1>7. ASSUME Bad # {} PROVE FALSE
  <2>1. PICK s \in Bad : \A x \in s : s \ {x} \notin Bad
    <3> HIDE DEF Bad
    <3>1. Bad \in SUBSET (SUBSET S) BY DEF Bad
    <3>2. QED BY <1>7, <3>1, LeastSubset
  <2>2. s \in SUBSET S /\ sum[s] # Dotted(f, s) BY <2>1
  <2>3. CASE s = {} BY <1>2, <1>6, <2>2, <2>3
  <2>4. CASE s # {}
    <3>1. c(s) \in s /\ Dotted(f, s) = f[c(s)] + Dotted(f, s \ {c(s)}) BY <1>2, <2>2, <2>4
    <3>2. sum[s] = f[c(s)] + sum[s \ {c(s)}] BY <1>6, <2>2, <2>4
    <3> HIDE DEF c
    <3>3. sum[s \ {c(s)}] = Dotted(f, s \ {c(s)}) BY <2>1, <2>2, <3>1
    <3>4. QED BY <2>2, <3>1, <3>2, <3>3
  <2>5. QED BY <2>3, <2>4
<1>8. QED BY <1>1, <1>7

\* More places, more dots; those of two sets are at most those of each.
LEMMA MoreDots ==
  ASSUME NEW S, NEW T, IsFiniteSet(S), IsFiniteSet(T), NEW f, \A y \in S \cup T : f[y] \in Nat
  PROVE  /\ S \subseteq T => Dotted(f, S) <= Dotted(f, T)
         /\ Dotted(f, S \cup T) <= Dotted(f, S) + Dotted(f, T)
<1>1. IsFiniteSet(Dots(f, S)) /\ IsFiniteSet(Dots(f, T)) BY DotsFinite
<1>2. S \subseteq T => Dots(f, S) \in SUBSET Dots(f, T) BY DEF Dots
<1>3. S \subseteq T => Dotted(f, S) <= Dotted(f, T) BY <1>1, <1>2, FS_Subset DEF Dotted
<1>4. Dots(f, S \cup T) = Dots(f, S) \cup Dots(f, T) BY DEF Dots
<1> DEFINE A == Dots(f, S)
           B == Dots(f, T)
<1> HIDE DEF A, B
<1>5. IsFiniteSet(A) /\ IsFiniteSet(B) BY <1>1 DEF A, B
<1>6. Cardinality(A \cup B) = Cardinality(A) + Cardinality(B) - Cardinality(A \cap B) BY <1>5, FS_Union
<1>7. IsFiniteSet(A \cap B) BY <1>5, FS_Intersection
<1>8. Cardinality(A) \in Nat /\ Cardinality(B) \in Nat /\ Cardinality(A \cap B) \in Nat
  BY <1>5, <1>7, FS_CardinalityType
<1>9. Cardinality(A \cup B) <= Cardinality(A) + Cardinality(B) BY <1>6, <1>8
<1>10. QED BY <1>3, <1>4, <1>9 DEF Dotted, A, B

\* One more at a place: one more dot where the place is counted.
LEMMA OneDot ==
  ASSUME NEW S, IsFiniteSet(S), NEW f, \A y \in S : f[y] \in Nat,
         NEW n, NEW g, g[n] = f[n] + 1, \A y \in S \ {n} : g[y] = f[y]
  PROVE  /\ n \in S => Dotted(g, S) = Dotted(f, S) + 1
         /\ n \notin S => Dotted(g, S) = Dotted(f, S)
<1>1. g[n] = f[n] + 1 /\ \A y \in S \ {n} : g[y] = f[y] OBVIOUS
<1>2. \A y \in S : f[y] \in Nat OBVIOUS
<1>3. IsFiniteSet(Dots(f, S)) /\ Dotted(f, S) \in Nat BY <1>2, DotsFinite
<1>4. CASE n \notin S
  <2>1. \A x \in S : g[x] = f[x] BY <1>1, <1>4
  <2>2. Dots(g, S) = Dots(f, S) BY <2>1 DEF Dots
  <2>3. QED BY <1>4, <2>2 DEF Dotted
<1>5. CASE n \in S
  <2> DEFINE p == <<n, f[n] + 1>>
  <2>1. f[n] \in Nat BY <1>2, <1>5
  <2>2. p \notin Dots(f, S) BY <2>1 DEF Dots
  <2>3. ASSUME NEW q PROVE q \in Dots(g, S) <=> q \in Dots(f, S) \/ q = p
    <3>1. CASE q \in S \X Nat
      <4>1. q[1] \in S /\ q[2] \in Nat /\ q = <<q[1], q[2]>> BY <3>1
      <4>2. CASE q[1] = n
        <5>1. q \in Dots(g, S) <=> 1 <= q[2] /\ q[2] <= f[n] + 1 BY <1>1, <3>1, <4>2 DEF Dots
        <5>2. q \in Dots(f, S) <=> 1 <= q[2] /\ q[2] <= f[n] BY <3>1, <4>2 DEF Dots
        <5>3. q = p <=> q[2] = f[n] + 1 BY <4>1, <4>2
        <5>4. QED BY <2>1, <4>1, <5>1, <5>2, <5>3
      <4>3. CASE q[1] # n
        <5>1. g[q[1]] = f[q[1]] BY <1>1, <4>1, <4>3
        <5>2. q # p BY <4>3
        <5>3. QED BY <3>1, <5>1, <5>2 DEF Dots
      <4>4. QED BY <4>2, <4>3
    <3>2. CASE q \notin S \X Nat
      <4>1. p \in S \X Nat BY <1>5, <2>1
      <4>2. QED BY <3>2, <4>1 DEF Dots
    <3>3. QED BY <3>1, <3>2
  <2> HIDE DEF p
  <2>4. Dots(g, S) = Dots(f, S) \cup {p} BY <2>3
  <2>5. Cardinality(Dots(f, S) \cup {p}) = Cardinality(Dots(f, S)) + 1 BY <1>3, <2>2, FS_AddElement
  <2>6. QED BY <1>5, <2>4, <2>5 DEF Dotted
<1>6. QED BY <1>4, <1>5

PerEmail == Limits["loginEmail"].limit
Span == Limits["loginEmail"].window
Times == 0..MaxNow

Since(t) == {x \in Times : t <= x}
Between(t, u) == {x \in Times : t <= x /\ x < u}

\* What was admitted at one address, f by time, when it is n: with a bucket
\* whose window is not over (`open', its count c and end r), and without.
Evenly(f, n, open, c, r) ==
  /\ \A x \in Times : x > n => f[x] = 0
  /\ open =>
       /\ c \in Nat /\ r \in Nat
       /\ \E s \in 0..n :
            /\ r = s + Span /\ r > n
            /\ Dotted(f, Since(s)) <= c /\ Dotted(f, Since(s)) <= PerEmail
            /\ \A t \in Times : t + Span > s => Dotted(f, Between(t, s)) <= PerEmail
  /\ ~open =>
       /\ Span > 0 => f[n] = 0
       /\ \A t \in Times : t + Span > n => Dotted(f, Since(t)) <= PerEmail
  /\ \A t \in Times : Dotted(f, Between(t, t + Span)) <= 2 * PerEmail

\* The limit of an address, its window and the clock are natural numbers.
LEMMA WindowTypes == PerEmail \in Nat /\ Span \in Nat /\ MaxNow \in Nat
<1>1. "loginEmail" \in Kinds BY DEF Kinds
<1>2. QED BY <1>1, LimitsAssumption, BoundsAssumption DEF PerEmail, Span

\* The times of a window are finitely many.
LEMMA TimesFinite == \A S \in SUBSET Times : IsFiniteSet(S)
<1>1. IsFiniteSet(Times) BY WindowTypes, FS_Interval DEF Times
<1>2. QED BY <1>1, FS_Subset

\* Sums over times compare as their sets do.
LEMMA TimesCompare ==
  ASSUME NEW f \in [Times -> Nat], NEW S \in SUBSET Times, NEW T \in SUBSET Times
  PROVE  /\ Dotted(f, S) \in Nat
         /\ S \subseteq T => Dotted(f, S) <= Dotted(f, T)
         /\ Dotted(f, S \cup T) <= Dotted(f, S) + Dotted(f, T)
<1>1. IsFiniteSet(S) /\ IsFiniteSet(T) BY TimesFinite
<1>2. \A y \in S \cup T : f[y] \in Nat OBVIOUS
<1>3. \A y \in S : f[y] \in Nat OBVIOUS
<1>4. Dotted(f, S) \in Nat BY <1>1, <1>3, DotsFinite
<1>5. QED BY <1>1, <1>2, <1>4, MoreDots

\* Nothing, when all there is is nought.
LEMMA NoDots ==
  ASSUME NEW f \in [Times -> Nat], NEW S \in SUBSET Times, \A x \in S : f[x] = 0
  PROVE  Dotted(f, S) = 0
<1>1. Dots(f, S) = {} BY DEF Dots
<1>2. QED BY <1>1, FS_EmptySet DEF Dotted

\* Before the first attempt.
LEMMA EvenlyFirst ==
  ASSUME NEW f \in [Times -> Nat], \A x \in Times : f[x] = 0, NEW c, NEW r
  PROVE  Evenly(f, 0, FALSE, c, r)
<1>1. \A S \in SUBSET Times : Dotted(f, S) = 0 BY NoDots
<1>2. \A t, u : Since(t) \in SUBSET Times /\ Between(t, u) \in SUBSET Times BY DEF Since, Between
<1>3. \A t, u : Dotted(f, Since(t)) = 0 /\ Dotted(f, Between(t, u)) = 0 BY <1>1, <1>2
<1>4. 0 \in Times BY WindowTypes DEF Times
<1>5. QED BY <1>3, <1>4, WindowTypes DEF Evenly

\* Time goes by, and may end the window.
LEMMA EvenlyLater ==
  ASSUME NEW f \in [Times -> Nat], NEW n \in Times, n + 1 \in Times, NEW open \in BOOLEAN, NEW c, NEW r,
         Evenly(f, n, open, c, r)
  PROVE  Evenly(f, n + 1, open /\ r > n + 1, c, r)
<1>1. n \in Nat BY WindowTypes DEF Times
<1>2. \A x \in Times : x \in Nat BY WindowTypes DEF Times
<1>3. \A x \in Times : x > n + 1 => f[x] = 0 BY <1>1, <1>2 DEF Evenly
<1>4. f[n + 1] = 0 BY <1>1 DEF Evenly
<1>5. \A t \in Times : Dotted(f, Between(t, t + Span)) <= 2 * PerEmail BY DEF Evenly
<1>6. ASSUME open, r > n + 1
      PROVE  /\ c \in Nat /\ r \in Nat
             /\ \E s \in 0..(n + 1) :
                  /\ r = s + Span /\ r > n + 1
                  /\ Dotted(f, Since(s)) <= c /\ Dotted(f, Since(s)) <= PerEmail
                  /\ \A t \in Times : t + Span > s => Dotted(f, Between(t, s)) <= PerEmail
  <2>1. c \in Nat /\ r \in Nat BY <1>6 DEF Evenly
  <2>2. PICK s \in 0..n :
            /\ r = s + Span /\ r > n
            /\ Dotted(f, Since(s)) <= c /\ Dotted(f, Since(s)) <= PerEmail
            /\ \A t \in Times : t + Span > s => Dotted(f, Between(t, s)) <= PerEmail
    BY <1>6 DEF Evenly
  <2>3. s \in 0..(n + 1) BY <1>1
  <2>4. QED BY <1>6, <2>1, <2>2, <2>3
<1>7. ASSUME ~(open /\ r > n + 1), NEW t \in Times, t + Span > n + 1
      PROVE  Dotted(f, Since(t)) <= PerEmail
  <2>1. CASE ~open BY <1>1, <1>2, <1>7, <2>1, WindowTypes DEF Evenly
  <2>2. CASE open
    <3>1. PICK s \in 0..n : r = s + Span /\ r > n /\ Dotted(f, Since(s)) <= PerEmail
      BY <2>2 DEF Evenly
    <3>2. r \in Nat BY <2>2 DEF Evenly
    <3>3. t > s BY <1>1, <1>2, <1>7, <2>2, <3>1, <3>2, WindowTypes
    <3>4. Since(t) \subseteq Since(s) /\ Since(t) \in SUBSET Times /\ Since(s) \in SUBSET Times
      <4>1. s \in Nat /\ t \in Nat BY <1>1, <1>2
      <4>2. \A x \in Times : t <= x => s <= x BY <1>2, <3>3, <4>1
      <4>3. QED BY <4>2 DEF Since
    <3>5. Dotted(f, Since(t)) <= Dotted(f, Since(s)) /\ Dotted(f, Since(t)) \in Nat /\ Dotted(f, Since(s)) \in Nat
      BY <3>4, TimesCompare
    <3>6. QED BY <3>1, <3>5, WindowTypes
  <2>3. QED BY <2>1, <2>2
<1>8. QED BY <1>3, <1>4, <1>5, <1>6, <1>7 DEF Evenly

\* The window of an attempt: the one that is open, or a new one; counted once
\* more, it is as good as before.
LEMMA EvenlyCounted ==
  ASSUME NEW f \in [Times -> Nat], NEW n \in Times, NEW open \in BOOLEAN, NEW c, NEW r,
         Evenly(f, n, open, c, r)
  PROVE  /\ open => Evenly(f, n, TRUE, c + 1, r)
         /\ ~open => Evenly(f, n, n + Span > n, 1, n + Span)
<1>1. n \in Nat BY WindowTypes DEF Times
<1>2. \A x \in Times : x \in Nat BY WindowTypes DEF Times
<1>3. \A t, u : Since(t) \in SUBSET Times /\ Between(t, u) \in SUBSET Times BY DEF Since, Between
<1>4. \A t, u : Dotted(f, Since(t)) \in Nat /\ Dotted(f, Between(t, u)) \in Nat BY <1>3, TimesCompare
<1>5. ASSUME open PROVE Evenly(f, n, TRUE, c + 1, r)
  <2>1. c \in Nat /\ r \in Nat BY <1>5 DEF Evenly
  <2>2. PICK s \in 0..n :
            /\ r = s + Span /\ r > n
            /\ Dotted(f, Since(s)) <= c /\ Dotted(f, Since(s)) <= PerEmail
            /\ \A t \in Times : t + Span > s => Dotted(f, Between(t, s)) <= PerEmail
    BY <1>5 DEF Evenly
  <2>3. Dotted(f, Since(s)) \in Nat BY <1>4
  <2>4. Dotted(f, Since(s)) <= c + 1 /\ c + 1 \in Nat BY <2>1, <2>2, <2>3
  <2>5. /\ \A x \in Times : x > n => f[x] = 0
        /\ \A t \in Times : Dotted(f, Between(t, t + Span)) <= 2 * PerEmail
    BY DEF Evenly
  <2>6. QED BY <2>1, <2>2, <2>4, <2>5 DEF Evenly
<1>6. ASSUME ~open PROVE Evenly(f, n, n + Span > n, 1, n + Span)
  <2>1. /\ \A x \in Times : x > n => f[x] = 0
        /\ \A t \in Times : Dotted(f, Between(t, t + Span)) <= 2 * PerEmail
        /\ Span > 0 => f[n] = 0
        /\ \A t \in Times : t + Span > n => Dotted(f, Since(t)) <= PerEmail
    BY <1>6 DEF Evenly
  <2>2. CASE Span = 0
    <3>1. ~(n + Span > n) BY <1>1, <2>2
    <3>2. QED BY <2>1, <2>2, <3>1 DEF Evenly
  <2>3. CASE Span # 0
    <3>1. Span > 0 /\ n + Span > n /\ n + Span \in Nat /\ n \in 0..n BY <1>1, <2>3, WindowTypes
    <3>2. \A x \in Since(n) : f[x] = 0 BY <1>1, <1>2, <2>1, <3>1 DEF Since
    <3>3. Dotted(f, Since(n)) = 0 BY <1>3, <3>2, NoDots
    <3>4. ASSUME NEW t \in Times, t + Span > n PROVE Dotted(f, Between(t, n)) <= PerEmail
      <4>1. Between(t, n) \subseteq Since(t) BY DEF Since, Between
      <4>2. Dotted(f, Between(t, n)) <= Dotted(f, Since(t)) BY <1>3, <4>1, TimesCompare
      <4>3. Dotted(f, Since(t)) <= PerEmail BY <2>1, <3>4
      <4>4. QED BY <1>4, <4>2, <4>3, WindowTypes
    <3>5. 0 <= 1 /\ 0 <= PerEmail /\ 1 \in Nat BY WindowTypes
    <3>6. QED BY <2>1, <3>1, <3>3, <3>4, <3>5 DEF Evenly
  <2>4. QED BY <2>2, <2>3
<1>7. QED BY <1>5, <1>6

\* An attempt let through, in a window that has room for it.
LEMMA EvenlyAdmitted ==
  ASSUME NEW f \in [Times -> Nat], NEW n \in Times, NEW open \in BOOLEAN, NEW c, NEW r,
         Evenly(f, n, open, c, r), NEW g \in [Times -> Nat], g = [f EXCEPT ![n] = f[n] + 1]
  PROVE  /\ open /\ c + 1 <= PerEmail => Evenly(g, n, TRUE, c + 1, r)
         /\ ~open /\ 1 <= PerEmail => Evenly(g, n, n + Span > n, 1, n + Span)
<1>1. n \in Nat BY WindowTypes DEF Times
<1>2. \A x \in Times : x \in Nat BY WindowTypes DEF Times
<1>3. \A t, u : Since(t) \in SUBSET Times /\ Between(t, u) \in SUBSET Times BY DEF Since, Between
<1>4. \A t, u : Dotted(f, Since(t)) \in Nat /\ Dotted(f, Between(t, u)) \in Nat BY <1>3, TimesCompare
<1>5. \A t, u : Dotted(g, Since(t)) \in Nat /\ Dotted(g, Between(t, u)) \in Nat BY <1>3, TimesCompare
<1>6. \A S \in SUBSET Times : Dotted(g, S) = IF n \in S THEN Dotted(f, S) + 1 ELSE Dotted(f, S)
  <2>1. ASSUME NEW S \in SUBSET Times
        PROVE  Dotted(g, S) = IF n \in S THEN Dotted(f, S) + 1 ELSE Dotted(f, S)
    <3>1. IsFiniteSet(S) BY TimesFinite
    <3>2. \A y \in S : f[y] \in Nat OBVIOUS
    <3>3. g[n] = f[n] + 1 /\ \A y \in S \ {n} : g[y] = f[y] OBVIOUS
    <3>4. /\ n \in S => Dotted(g, S) = Dotted(f, S) + 1
          /\ n \notin S => Dotted(g, S) = Dotted(f, S)
      BY <3>1, <3>2, <3>3, OneDot, Zenon
    <3>5. QED BY <3>4
  <2>2. QED BY <2>1
<1>7. \A x \in Times : x > n => g[x] = 0 BY <1>1, <1>2 DEF Evenly
<1>8. \A t \in Times : Dotted(f, Between(t, t + Span)) <= 2 * PerEmail BY DEF Evenly
\* What is asked of the new window, from its start s, given the old sums there.
<1>9. ASSUME NEW s \in 0..n, NEW d \in Nat, s + Span > n,
             Dotted(f, Since(s)) + 1 <= d, Dotted(f, Since(s)) + 1 <= PerEmail,
             \A t \in Times : t + Span > s => Dotted(f, Between(t, s)) <= PerEmail
      PROVE  Evenly(g, n, TRUE, d, s + Span)
  <2>1. s \in Nat /\ s <= n /\ s \in Times BY <1>1, WindowTypes DEF Times
  <2>2. n \in Since(s) BY <2>1 DEF Since
  <2>3. Dotted(g, Since(s)) = Dotted(f, Since(s)) + 1 BY <1>3, <1>6, <2>2
  <2>4. \A t \in Times : n \notin Between(t, s) BY <1>1, <2>1 DEF Between
  <2>5. \A t \in Times : Dotted(g, Between(t, s)) = Dotted(f, Between(t, s)) BY <1>3, <1>6, <2>4
  <2>6. \A t \in Times : t + Span > s => Dotted(g, Between(t, s)) <= PerEmail BY <1>9, <2>5
  <2>7. ASSUME NEW t \in Times PROVE Dotted(g, Between(t, t + Span)) <= 2 * PerEmail
    <3> DEFINE W == Between(t, t + Span)
    <3>1. t \in Nat /\ W \in SUBSET Times BY <1>2, <1>3
    <3>2. CASE n \notin W
      <4>1. Dotted(g, W) = Dotted(f, W) BY <1>6, <3>1, <3>2
      <4>2. QED BY <1>8, <4>1
    <3>3. CASE n \in W
      <4>1. t + Span > n BY <3>3 DEF Between
      <4>2. W \subseteq Between(t, s) \cup Since(s)
        <5>1. \A x \in W : x \in Times /\ t <= x BY DEF Between
        <5>2. \A x \in Times : x < s \/ s <= x BY <1>2, <2>1
        <5>3. QED BY <5>1, <5>2 DEF Between, Since
      <4> HIDE DEF W
      <4>3. Dotted(g, W) <= Dotted(g, Between(t, s) \cup Since(s)) BY <1>3, <3>1, <4>2, TimesCompare
      <4>4. Dotted(g, Between(t, s) \cup Since(s)) <= Dotted(g, Between(t, s)) + Dotted(g, Since(s))
        BY <1>3, TimesCompare
      <4>5. Between(t, s) \cup Since(s) \in SUBSET Times BY <1>3
      <4>6. Dotted(g, Between(t, s) \cup Since(s)) \in Nat /\ Dotted(g, W) \in Nat BY <3>1, <4>5, TimesCompare
      <4>7. t + Span > s BY <1>1, <2>1, <3>1, <4>1, WindowTypes
      <4>8. Dotted(g, Between(t, s)) <= PerEmail BY <2>6, <4>7
      <4>9. Dotted(g, Since(s)) <= PerEmail BY <1>9, <2>3
      <4>10. Dotted(g, W) <= 2 * PerEmail
        <5>1. Dotted(g, Between(t, s)) \in Nat /\ Dotted(g, Since(s)) \in Nat BY <1>5
        <5>2. QED BY <4>3, <4>4, <4>6, <4>8, <4>9, <5>1, WindowTypes
      <4>11. QED BY <4>10 DEF W
    <3>4. QED BY <3>2, <3>3
  <2>8. s + Span \in Nat BY <2>1, WindowTypes
  <2>9. Dotted(g, Since(s)) <= d /\ Dotted(g, Since(s)) <= PerEmail BY <1>9, <2>3
  <2>10. QED BY <1>7, <1>9, <2>6, <2>7, <2>8, <2>9 DEF Evenly
<1>10. ASSUME open, c + 1 <= PerEmail PROVE Evenly(g, n, TRUE, c + 1, r)
  <2>1. c \in Nat /\ r \in Nat BY <1>10 DEF Evenly
  <2>2. PICK s \in 0..n :
            /\ r = s + Span /\ r > n
            /\ Dotted(f, Since(s)) <= c /\ Dotted(f, Since(s)) <= PerEmail
            /\ \A t \in Times : t + Span > s => Dotted(f, Between(t, s)) <= PerEmail
    BY <1>10 DEF Evenly
  <2>3. Dotted(f, Since(s)) + 1 <= c + 1 /\ Dotted(f, Since(s)) + 1 <= PerEmail /\ c + 1 \in Nat
    BY <1>4, <1>10, <2>1, <2>2, WindowTypes
  <2>4. Evenly(g, n, TRUE, c + 1, s + Span) BY <1>9, <2>2, <2>3
  <2>5. QED BY <2>2, <2>4
<1>11. ASSUME ~open, 1 <= PerEmail PROVE Evenly(g, n, n + Span > n, 1, n + Span)
  <2>1. /\ Span > 0 => f[n] = 0
        /\ \A t \in Times : t + Span > n => Dotted(f, Since(t)) <= PerEmail
    BY <1>11 DEF Evenly
  <2>2. CASE Span = 0
    <3>1. ~(n + Span > n) /\ ~(Span > 0) BY <1>1, <2>2
    <3>2. ASSUME NEW t \in Times, t + Span > n PROVE Dotted(g, Since(t)) <= PerEmail
      <4>1. n \notin Since(t) BY <1>1, <1>2, <2>2, <3>2 DEF Since
      <4>2. Dotted(g, Since(t)) = Dotted(f, Since(t)) BY <1>3, <1>6, <4>1
      <4>3. QED BY <2>1, <3>2, <4>2
    <3>3. ASSUME NEW t \in Times PROVE Dotted(g, Between(t, t + Span)) <= 2 * PerEmail
      <4>1. n \notin Between(t, t + Span) BY <1>1, <1>2, <2>2 DEF Between
      <4>2. Dotted(g, Between(t, t + Span)) = Dotted(f, Between(t, t + Span)) BY <1>3, <1>6, <4>1
      <4>3. QED BY <1>8, <4>2
    <3>4. QED BY <1>7, <3>1, <3>2, <3>3 DEF Evenly
  <2>3. CASE Span # 0
    <3>1. Evenly(f, n, n + Span > n, 1, n + Span) BY <1>11, EvenlyCounted
    <3>2. n + Span > n BY <1>1, <2>3, WindowTypes
    <3>3. PICK s \in 0..n :
            /\ n + Span = s + Span
            /\ \A t \in Times : t + Span > s => Dotted(f, Between(t, s)) <= PerEmail
      BY <3>1, <3>2 DEF Evenly
    <3>4. s = n BY <1>1, <3>3, WindowTypes
    <3>5. \A x \in Since(n) : f[x] = 0
      <4>1. Span > 0 BY <2>3, WindowTypes
      <4>2. f[n] = 0 /\ \A x \in Times : x > n => f[x] = 0 BY <2>1, <4>1 DEF Evenly
      <4>3. QED BY <1>1, <1>2, <4>2 DEF Since
    <3>6. Dotted(f, Since(n)) = 0 BY <1>3, <3>5, NoDots
    <3>7. Dotted(f, Since(n)) + 1 <= 1 /\ Dotted(f, Since(n)) + 1 <= PerEmail BY <1>11, <3>6
    <3>8. Evenly(g, n, TRUE, 1, n + Span) BY <1>9, <3>2, <3>3, <3>4, <3>7
    <3>9. QED BY <3>2, <3>8
  <2>4. QED BY <2>2, <2>3
<1>12. QED BY <1>10, <1>11

Key(e) == <<"loginEmail", e>>

\* The bucket of a key, when its window is not over.
Open(k) == k \in DOMAIN buckets /\ buckets[k].resetAt > now

EvenAt(e) == Evenly(admitted[e], now, Open(Key(e)), buckets[Key(e)].count, buckets[Key(e)].resetAt)
Even == \A e \in Emails : EvenAt(e)

\* Without a bucket, its numbers do not matter.
LEMMA ClosedAny ==
  ASSUME NEW f, NEW n, NEW c, NEW r, NEW d, NEW q, Evenly(f, n, FALSE, c, r)
  PROVE  Evenly(f, n, FALSE, d, q)
BY DEF Evenly

\* A check of some kind counts in its own bucket, leaves the open ones of others
\* and opens none of them; it lets an attempt through only within the limit.
CountsIn(r, kind, k) ==
  LET c == IF Open(k) THEN buckets[k].count + 1 ELSE 1
      t == IF Open(k) THEN buckets[k].resetAt ELSE now + Limits[kind].window
  IN /\ k = <<kind, IF kind = "loginEmail" THEN req[r].email ELSE "ip">>
     /\ now' = now
     /\ Open(k)' <=> t > now
     /\ Open(k)' => buckets'[k].count = c /\ buckets'[k].resetAt = t
     /\ \A j : j # k => (Open(j)' <=> Open(j)) /\ (Open(j) => buckets'[j] = buckets[j])
     /\ \/ admitted' = admitted
        \/ /\ kind = "loginEmail" /\ c <= Limits[kind].limit
           /\ admitted' = [admitted EXCEPT ![req[r].email][now] = @ + 1]

\* That is what the limiter does.
LEMMA LimitCounts ==
  ASSUME Counted, NEW r \in Requests, Limit(r)
  PROVE  \E kind \in Kinds : \E k : CountsIn(r, kind, k)
<1>1. PICK kind \in Kinds : \E k :
        LET b  == [Current(k, kind) EXCEPT !.count = @ + 1]
            bs == [j \in DOMAIN buckets \cup {k} |-> IF j = k THEN b ELSE buckets[j]]
        IN /\ k = <<kind, IF kind = "loginEmail" THEN req[r].email ELSE "ip">>
           /\ buckets' = IF limiter = "memory" THEN Gc(bs, k) ELSE Expire(bs)
           /\ \/ admitted' = admitted
              \/ /\ kind = "loginEmail" /\ b.count <= Limits[kind].limit
                 /\ admitted' = [admitted EXCEPT ![req[r].email][now] = @ + 1]
  BY DEF Limit
<1>2. PICK k :
        LET b  == [Current(k, kind) EXCEPT !.count = @ + 1]
            bs == [j \in DOMAIN buckets \cup {k} |-> IF j = k THEN b ELSE buckets[j]]
        IN /\ k = <<kind, IF kind = "loginEmail" THEN req[r].email ELSE "ip">>
           /\ buckets' = IF limiter = "memory" THEN Gc(bs, k) ELSE Expire(bs)
           /\ \/ admitted' = admitted
              \/ /\ kind = "loginEmail" /\ b.count <= Limits[kind].limit
                 /\ admitted' = [admitted EXCEPT ![req[r].email][now] = @ + 1]
  BY <1>1
<1>3. now' = now BY DEF Limit
<1> DEFINE b  == [Current(k, kind) EXCEPT !.count = @ + 1]
           bs == [j \in DOMAIN buckets \cup {k} |-> IF j = k THEN b ELSE buckets[j]]
           c == IF Open(k) THEN buckets[k].count + 1 ELSE 1
           t == IF Open(k) THEN buckets[k].resetAt ELSE now + Limits[kind].window
           left == {j \in DOMAIN bs : bs[j].resetAt > now}
<1>4. \/ admitted' = admitted
      \/ /\ kind = "loginEmail" /\ b.count <= Limits[kind].limit
         /\ admitted' = [admitted EXCEPT ![req[r].email][now] = @ + 1]
  BY <1>2
<1>5. buckets' = bs \/ buckets' = [j \in left |-> bs[j]]
  <2>1. buckets' = IF limiter = "memory" THEN Gc(bs, k) ELSE Expire(bs) BY <1>2
  <2>2. Expire(bs) = [j \in left |-> bs[j]] BY DEF Expire, Restrict
  <2>3. Gc(bs, k) = bs \/ Gc(bs, k) = [j \in left |-> bs[j]] BY DEF Gc, Restrict
  <2>4. QED
    <3> HIDE DEF bs, left
    <3>1. QED BY <2>1, <2>2, <2>3
<1>6. b.count = c /\ b.resetAt = t
  <2>1. CASE Open(k)
    <3>1. buckets[k] \in [count : Nat, resetAt : Nat] BY <2>1 DEF Counted, Open
    <3>2. Current(k, kind) = buckets[k] BY <2>1 DEF Current, Open
    <3>3. QED BY <2>1, <3>1, <3>2
  <2>2. CASE ~Open(k)
    <3>1. Current(k, kind) = [count |-> 0, resetAt |-> now + Limits[kind].window]
      BY <2>2 DEF Current, Open, Fresh
    <3>2. QED BY <2>2, <3>1
  <2>3. QED BY <2>1, <2>2
<1> HIDE DEF b, c, t
<1>7. k \in DOMAIN bs /\ bs[k] = b OBVIOUS
<1>8. \A j : j # k => (j \in DOMAIN bs <=> j \in DOMAIN buckets) /\ (j \in DOMAIN bs => bs[j] = buckets[j])
  OBVIOUS
<1>9. ASSUME NEW j
      PROVE  /\ j \in DOMAIN buckets' /\ buckets'[j].resetAt > now <=> j \in DOMAIN bs /\ bs[j].resetAt > now
             /\ j \in DOMAIN buckets' => buckets'[j] = bs[j]
  <2> HIDE DEF bs
  <2>1. CASE buckets' = bs BY <2>1
  <2>2. CASE buckets' = [i \in left |-> bs[i]] BY <2>2
  <2>3. QED BY <1>5, <2>1, <2>2
<1> HIDE DEF bs
<1>10. \A j : Open(j)' <=> j \in DOMAIN buckets' /\ buckets'[j].resetAt > now BY <1>3 DEF Open
<1>11. Open(k)' <=> t > now
  BY <1>6, <1>7, <1>9, <1>10
<1>12. Open(k)' => buckets'[k].count = c /\ buckets'[k].resetAt = t BY <1>6, <1>7, <1>9, <1>10
<1>13. ASSUME NEW j, j # k
       PROVE  (Open(j)' <=> Open(j)) /\ (Open(j) => buckets'[j] = buckets[j])
  BY <1>8, <1>9, <1>10, <1>13 DEF Open
<1>14. k = <<kind, IF kind = "loginEmail" THEN req[r].email ELSE "ip">> BY <1>2
<1>15. \/ admitted' = admitted
       \/ /\ kind = "loginEmail" /\ c <= Limits[kind].limit
          /\ admitted' = [admitted EXCEPT ![req[r].email][now] = @ + 1]
  BY <1>4, <1>6
<1>16. CountsIn(r, kind, k) BY <1>3, <1>11, <1>12, <1>13, <1>14, <1>15 DEF CountsIn, c, t
<1>17. QED BY <1>16

\* Nothing is admitted yet.
LEMMA InitEven ==
  ASSUME Init, Counted
  PROVE  Even
<1>1. ASSUME NEW e \in Emails PROVE EvenAt(e)
  <2>1. ~Open(Key(e)) /\ now = 0 BY DEF Init, Open
  <2>2. admitted[e] \in [Times -> Nat] /\ \A x \in Times : admitted[e][x] = 0 BY <1>1 DEF Init, Times
  <2>3. Evenly(admitted[e], 0, FALSE, buckets[Key(e)].count, buckets[Key(e)].resetAt) BY <2>2, EvenlyFirst
  <2>4. Open(Key(e)) = FALSE BY <2>1 DEF Open
  <2>5. QED BY <2>1, <2>3, <2>4 DEF EvenAt
<1>2. QED BY <1>1 DEF Even

\* As time goes by.
LEMMA TickEven ==
  ASSUME Counted, Even, Tick
  PROVE  Even'
<1>1. ASSUME NEW e \in Emails PROVE EvenAt(e)'
  <2> DEFINE f == admitted[e]
             k == Key(e)
  <2>1. f \in [Times -> Nat] /\ now \in Times BY DEF Counted, Times
  <2>2. now + 1 \in Times BY WindowTypes, <2>1 DEF Tick, Times
  <2>3. now' = now + 1 /\ UNCHANGED <<admitted, buckets>> BY DEF Tick, limitVars
  <2>4. Evenly(f, now, Open(k), buckets[k].count, buckets[k].resetAt) BY <1>1 DEF Even, EvenAt
  <2>5. Open(k) \in BOOLEAN BY DEF Open
  <2>6. Evenly(f, now + 1, Open(k) /\ buckets[k].resetAt > now + 1, buckets[k].count, buckets[k].resetAt)
    <3> HIDE DEF k
    <3>1. QED BY <2>1, <2>2, <2>4, <2>5, EvenlyLater
  <2>7. Open(k)' = (Open(k) /\ buckets[k].resetAt > now + 1)
    <3>1. k \in DOMAIN buckets => buckets[k].resetAt \in Nat BY DEF Counted
    <3>2. now \in Nat BY <2>1, WindowTypes DEF Times
    <3> HIDE DEF k
    <3>3. k' = k BY DEF k, Key
    <3>4. QED BY <2>3, <3>1, <3>2, <3>3 DEF Open
  <2>8. QED BY <2>3, <2>6, <2>7 DEF EvenAt, Key
<1>2. QED BY <1>1 DEF Even

\* A check of the limiter, at this address or for another key.
LEMMA LimitEven ==
  ASSUME Asked, Counted, Even, NEW r \in Requests, Limit(r), Counted'
  PROVE  Even'
<1>1. PICK kind \in Kinds : \E k : CountsIn(r, kind, k) BY LimitCounts
<1>2. PICK k : CountsIn(r, kind, k) BY <1>1
<1> DEFINE c == IF Open(k) THEN buckets[k].count + 1 ELSE 1
           t == IF Open(k) THEN buckets[k].resetAt ELSE now + Limits[kind].window
<1>3. /\ k = <<kind, IF kind = "loginEmail" THEN req[r].email ELSE "ip">>
      /\ now' = now
      /\ Open(k)' <=> t > now
      /\ Open(k)' => buckets'[k].count = c /\ buckets'[k].resetAt = t
      /\ \A j : j # k => (Open(j)' <=> Open(j)) /\ (Open(j) => buckets'[j] = buckets[j])
  BY <1>2 DEF CountsIn
<1>4. \/ admitted' = admitted
      \/ /\ kind = "loginEmail" /\ c <= Limits[kind].limit
         /\ admitted' = [admitted EXCEPT ![req[r].email][now] = @ + 1]
  BY <1>2 DEF CountsIn
<1>5. now \in Times /\ admitted \in [Emails -> [Times -> Nat]] /\ admitted' \in [Emails -> [Times -> Nat]]
  BY DEF Counted, Times
<1>6. ASSUME NEW e \in Emails PROVE EvenAt(e)'
  <2> DEFINE f == admitted[e]
             g == admitted'[e]
  <2>1. Evenly(f, now, Open(Key(e)), buckets[Key(e)].count, buckets[Key(e)].resetAt) BY <1>6 DEF Even, EvenAt
  <2>2. f \in [Times -> Nat] /\ g \in [Times -> Nat] BY <1>5
  <2>3. CASE k = Key(e)
    <3>1. kind = "loginEmail" /\ req[r].email = e BY <1>3, <2>3 DEF Key
    <3>2. Open(k) \in BOOLEAN /\ Open(k)' \in BOOLEAN BY DEF Open
    <3>3. Evenly(f, now, Open(k), buckets[k].count, buckets[k].resetAt) BY <2>1, <2>3
    <3>4. t = IF Open(k) THEN buckets[k].resetAt ELSE now + Span BY <3>1 DEF Span
    <3>5. Open(k) => t > now BY DEF Open
    <3>6. g = f \/ (c <= PerEmail /\ g = [f EXCEPT ![now] = f[now] + 1])
      <4>1. CASE admitted' = admitted BY <4>1
      <4>2. CASE c <= PerEmail /\ admitted' = [admitted EXCEPT ![e][now] = @ + 1] BY <1>5, <4>2
      <4>3. QED BY <1>4, <3>1, <4>1, <4>2 DEF PerEmail
    <3> HIDE DEF f, g
    <3>7. Evenly(g, now, t > now, c, t)
      <4>1. CASE g = f
        <5>1. CASE Open(k)
          <6>1. Evenly(f, now, TRUE, buckets[k].count + 1, buckets[k].resetAt)
            BY <1>5, <2>2, <3>2, <3>3, <5>1, EvenlyCounted
          <6>2. (t > now) = TRUE BY <3>5, <5>1, Zenon
          <6>3. QED BY <4>1, <5>1, <6>1, <6>2
        <5>2. CASE ~Open(k)
          <6>1. Evenly(f, now, now + Span > now, 1, now + Span)
            BY <1>5, <2>2, <3>2, <3>3, <5>2, EvenlyCounted
          <6>2. QED BY <3>4, <4>1, <5>2, <6>1
        <5>3. QED BY <5>1, <5>2
      <4>2. CASE c <= PerEmail /\ g = [f EXCEPT ![now] = f[now] + 1]
        <5>1. CASE Open(k)
          <6>1. Evenly(g, now, TRUE, buckets[k].count + 1, buckets[k].resetAt)
            BY <1>5, <2>2, <3>2, <3>3, <4>2, <5>1, EvenlyAdmitted
          <6>2. (t > now) = TRUE BY <3>5, <5>1, Zenon
          <6>3. QED BY <5>1, <6>1, <6>2
        <5>2. CASE ~Open(k)
          <6>1. Evenly(g, now, now + Span > now, 1, now + Span)
            BY <1>5, <2>2, <3>2, <3>3, <4>2, <5>2, EvenlyAdmitted
          <6>2. QED BY <3>4, <5>2, <6>1
        <5>3. QED BY <5>1, <5>2
      <4>3. QED BY <3>6, <4>1, <4>2
    <3>8. Evenly(g, now, Open(k)', buckets'[k].count, buckets'[k].resetAt)
      <4>1. CASE t > now
        <5>1. Open(k)' = (t > now) BY <1>3, <4>1, Zenon
        <5>2. buckets'[k].count = c /\ buckets'[k].resetAt = t BY <1>3, <4>1
        <5> HIDE DEF c, t
        <5>3. QED BY <3>7, <5>1, <5>2
      <4>2. CASE ~(t > now)
        <5>1. Open(k)' = FALSE /\ (t > now) = FALSE
          <6> HIDE DEF t
          <6>1. QED BY <1>3, <4>2 DEF Open
        <5> HIDE DEF c, t
        <5>2. Evenly(g, now, FALSE, c, t) BY <3>7, <5>1
        <5>3. Evenly(g, now, FALSE, buckets'[k].count, buckets'[k].resetAt) BY <5>2, ClosedAny
        <5>4. QED BY <5>1, <5>3
      <4>3. QED BY <4>1, <4>2
    <3>9. QED BY <1>3, <2>3, <3>8 DEF EvenAt, Key, g
  <2>4. CASE k # Key(e)
    <3>1. g = f
      <4>1. CASE admitted' = admitted BY <4>1
      <4>2. CASE kind = "loginEmail" /\ admitted' = [admitted EXCEPT ![req[r].email][now] = @ + 1]
        <5>1. req[r].email # e BY <1>3, <2>4, <4>2 DEF Key
        <5>2. QED BY <1>5, <4>2, <5>1
      <4>3. QED BY <1>4, <4>1, <4>2
    <3> HIDE DEF f, g
    <3> DEFINE j == Key(e)
    <3>2. (Open(j)' <=> Open(j)) /\ (Open(j) => buckets'[j] = buckets[j]) BY <1>3, <2>4 DEF Key
    <3>3. Evenly(f, now, Open(j)', buckets'[j].count, buckets'[j].resetAt)
      <4>1. CASE Open(j)
        <5>1. Open(j)' = Open(j) BY <3>2 DEF Open
        <5>2. QED BY <2>1, <3>2, <4>1, <5>1
      <4>2. CASE ~Open(j)
        <5>1. Open(j) = FALSE /\ Open(j)' = FALSE BY <3>2, <4>2 DEF Open
        <5>2. Evenly(f, now, FALSE, buckets[j].count, buckets[j].resetAt) BY <2>1, <5>1
        <5>3. Evenly(f, now, FALSE, buckets'[j].count, buckets'[j].resetAt)
          <6> DEFINE d == buckets'[j].count
                     q == buckets'[j].resetAt
          <6>1. Evenly(f, now, FALSE, buckets[j].count, buckets[j].resetAt) BY <5>2
          <6> HIDE DEF d, q, j
          <6>2. Evenly(f, now, FALSE, d, q) BY <6>1, ClosedAny
          <6>3. QED BY <6>2 DEF d, q
        <5>4. QED BY <5>1, <5>3
      <4>3. QED BY <4>1, <4>2
    <3>4. QED BY <1>3, <3>1, <3>3 DEF EvenAt, Key, g
  <2>5. QED BY <2>3, <2>4
<1>7. QED BY <1>6 DEF Even

\* Nothing else counts.
LEMMA EvenStep ==
  ASSUME Asked, Counted, Even, [Next]_vars, Counted'
  PROVE  Even'
<1>1. CASE Tick BY <1>1, TickEven
<1>2. ASSUME NEW r \in Requests, Limit(r) PROVE Even' BY <1>2, LimitEven
<1>3. ASSUME UNCHANGED <<now, buckets, admitted>> PROVE Even'
  BY <1>3 DEF Even, EvenAt, Open, Key
<1>4. CASE UNCHANGED vars BY <1>3, <1>4 DEF vars, limitVars
<1>5. ASSUME NEW r \in Requests,
             \/ Start(r) \/ Checks(r) \/ Authenticate(r) \/ CreateOrg(r) \/ CreateUser(r) \/ VerifyPassword(r)
             \/ Sign(r) \/ ChangeTokens(r) \/ CreateSession(r) \/ Destroy(r) \/ Attach(r)
             \/ CallAccounts(r) \/ CallSession(r) \/ CallOthers(r)
      PROVE  UNCHANGED <<now, buckets, admitted>>
  <2> USE DEF bounds, limitVars
  <2>1. CASE Checks(r)
    BY <2>1 DEF Checks, Parse, Param, Need, Condition, Quota, GetSession, RequireLive, Other
  <2>2. CASE Start(r) \/ Authenticate(r) \/ CreateOrg(r) \/ CreateUser(r) \/ VerifyPassword(r) \/ Sign(r)
    BY <2>2 DEF Start, Authenticate, CreateOrg, CreateUser, VerifyPassword, Sign
  <2>3. CASE ChangeTokens(r) \/ CreateSession(r) \/ Destroy(r) \/ Attach(r)
    BY <2>3 DEF ChangeTokens, CreateSession, Destroy, Attach
  <2>4. CASE CallAccounts(r) \/ CallSession(r) \/ CallOthers(r)
    BY <2>4 DEF CallAccounts, CallSession, CallOthers, Calls, Fails, Refuses
  <2>5. QED BY <1>5, <2>1, <2>2, <2>3, <2>4
<1>6. QED BY <1>1, <1>2, <1>3, <1>4, <1>5 DEF Next, Checks

\* The limit of an address holds in every window, doubled: AdmittedPerWindow.
LEMMA EvenIsAdmitted ==
  ASSUME Counted, Even
  PROVE  AdmittedPerWindow
<1>1. ASSUME NEW e \in Emails, NEW u \in 0..MaxNow
      PROVE  LET within == {x \in u..MaxNow : x < u + Limits["loginEmail"].window}
             IN FoldFunctionOnSet(LAMBDA a, b : a + b, 0, admitted[e], within) <= 2 * Limits["loginEmail"].limit
  <2> DEFINE within == {x \in u..MaxNow : x < u + Limits["loginEmail"].window}
             f == admitted[e]
  <2>1. within = Between(u, u + Span) BY WindowTypes DEF Between, Times, Span
  <2>2. f \in [Times -> Nat] BY DEF Counted, Times
  <2>3. within \in SUBSET Times BY <2>1 DEF Between
  <2>4. \A y \in within : f[y] \in Nat BY <2>2, <2>3
  <2>5. IsFiniteSet(within) BY <2>3, TimesFinite
  <2>6. Dotted(f, Between(u, u + Span)) <= 2 * PerEmail BY <1>1 DEF Even, EvenAt, Evenly, Times
  <2> HIDE DEF within, f
  <2>7. FoldFunctionOnSet(LAMBDA a, b : a + b, 0, f, within) = Dotted(f, within)
    BY <2>4, <2>5, SumOfDots
  <2>8. FoldFunctionOnSet(LAMBDA a, b : a + b, 0, f, within) <= 2 * PerEmail BY <2>1, <2>6, <2>7
  <2>9. QED BY <2>8 DEF within, f, PerEmail
<1>2. QED BY <1>1 DEF AdmittedPerWindow

\* No window of time sees more than twice the limit of an address, for any
\* limit, any window and any size at which the limiter collects
\* (enforceAuthRateLimit over fixed windows, in memory or in Redis).
THEOREM AdmittedPerWindowHolds == Spec => []AdmittedPerWindow
<1>1. Init => Typed /\ Even BY InitTyped, InitEven DEF Typed
<1>2. Typed /\ Even /\ [Next]_vars => (Typed /\ Even)'
  <2> SUFFICES ASSUME Typed, Even, [Next]_vars PROVE (Typed /\ Even)' OBVIOUS
  <2>1. Typed' BY TypedStep
  <2>2. Even' BY <2>1, EvenStep DEF Typed
  <2>3. QED BY <2>1, <2>2
<1>3. Typed /\ Even => AdmittedPerWindow BY EvenIsAdmitted DEF Typed
<1>4. QED BY <1>1, <1>2, <1>3, PTL DEF Spec

=============================================================================
