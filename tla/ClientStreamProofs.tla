-------------------------- MODULE ClientStreamProofs --------------------------
(***************************************************************************)
(* Theorems about ClientStream, for every set of clients and of sessions,    *)
(* every scenario and every bound.                                          *)
(***************************************************************************)
EXTENDS ClientStream, FiniteSetTheorems, TLAPS

Phases == {"requesting", "thinking"} \cup PIVPhases

\* Views, frames and POSTs with their types.
Views == [isSubmitting : BOOLEAN, error : BOOLEAN, text : SUBSET Turns,
          phase : {None} \cup Phases, completed : SUBSET PIVPhases, retryCount : Nat,
          prompt : Requests \cup {None}, prompts : SUBSET Requests,
          answers : SUBSET SUBSET Turns]

FrameTypes == {"phase_change", "token", "done", "error", "permission_request", "plan_ready",
               "validate_result", "checkpoint"}

Frames == {f \in [type : FrameTypes,
                  of : {None, "passed", "failed"} \cup Phases \cup Turns \cup Requests] :
             /\ f.type = "phase_change" => f.of \in Phases
             /\ f.type = "token" => f.of \in Turns
             /\ f.type = "permission_request" => f.of \in Requests}

Posts == [kind : {"message", "cancel", "permission", "decision", "clear"}, by : Clients,
          of : (Clients \X Nat) \cup Requests \cup {None}, approved : BOOLEAN,
          state : {"sent", "ok", "failed"}]

Typed ==
  /\ TypeOK
  /\ view \in [Clients -> Views] /\ sent \in [Clients -> 0..MaxPosts]
  /\ inbox \in [Clients -> Seq(Frames)]
  /\ post \subseteq Posts

\* What a POST on its way says of the rest: a message is the only one of its
\* turn, which has not begun; a yes to a request was a user's.
Sound(p) ==
  /\ p.kind = "message" =>
       /\ p.of \in Turns /\ p.of[1] = p.by /\ p.of[2] <= sent[p.by]
       /\ at[p.of] = "none"
       /\ p.state = "sent" /\ ~p.approved
  /\ p.kind = "permission" => p.of \in Requests /\ (p.approved => p.of \in yes)
  /\ p.kind = "decision" => p.of \in Turns
  /\ p.kind = "cancel" => p.by \in escaped

Posted ==
  /\ \A p \in post : Sound(p)
  /\ \A m \in Turns : m[2] > sent[m[1]] => at[m] = "none"

\* The turn of a pending request waits for it.
Waiting == \A m \in Turns : Latest(m) \in pending => at[m] = "gate" /\ verdict[m] = "open"

Granted == \A m \in Turns : verdict[m] = "granted" => Latest(m) \in yes

\* Only a turn that is over has spent more than its retries.
Budgeted == \A m \in Turns : at[m] # "over" => retries[m] <= MaxRetries

\* A Set of sockets is of one session, the Set in the table has a member, and
\* while the daemon is up the clients whose stream is open are in their session's.
Grouped ==
  /\ \A c \in Clients, s \in Sessions : group[c] # 0 /\ group[c] = table[s] => home[c] = s
  /\ \A s \in Sessions : table[s] # 0 => \E c \in Clients : group[c] = table[s]
  /\ \A c \in Clients : conn[c] \in {"off", "left"} => group[c] = 0
  /\ daemon = "up" => \A c \in Clients :
       /\ (group[c] # 0) <=> (conn[c] = "open")
       /\ group[c] # 0 => group[c] = table[home[c]]

\* What a stream that was never open, was left or broke off still holds.
Emptied == \A c \in Clients :
  conn[c] \in {"off", "left"} \/ (daemon = "down" /\ conn[c] = "open") => inbox[c] = <<>>

\* The frames after which the input is back, and nothing of the turn follows.
Ending(f)   == f.type \in {"done", "error"}
NoToken(s)  == \A i \in 1..Len(s) : s[i].type # "token"
NoEnding(s) == \A i \in 1..Len(s) : ~Ending(s[i])

\* The last turn of a client, and whether it is over.
Last(c) == <<c, sent[c]>>
Over(c) == sent[c] = 0 \/ at[Last(c)] = "over"

\* Client c reads text of its last turn only, up to the frame that ends it; its
\* input is back after that frame and not before, unless the daemon is down.
Ordered(c) ==
  /\ \A i \in 1..Len(inbox[c]) :
       inbox[c][i].type = "token" => inbox[c][i].of = Last(c) /\ at[Last(c)] # "none"
  /\ \A i, j \in 1..Len(inbox[c]) :
       i < j /\ Ending(inbox[c][i]) => inbox[c][j].type # "token" /\ ~Ending(inbox[c][j])
  /\ NoEnding(inbox[c]) \/ daemon = "down" \/ Over(c)
  /\ ~view[c].isSubmitting =>
       NoToken(inbox[c]) /\ (daemon = "down" \/ (Over(c) /\ NoEnding(inbox[c])))
  /\ view[c].error => ~view[c].isSubmitting
  /\ \/ \A k \in 1..(sent[c] - 1) : at[<<c, k>>] = "over"
     \/ daemon = "down" /\ NoToken(inbox[c])
  /\ view[c].text \subseteq {Last(c)}
  /\ \A t \in view[c].answers : \E m \in Turns : t \subseteq {m}

InOrder == \A c \in Clients : Alone(c) /\ c \notin escaped => Ordered(c)

-----------------------------------------------------------------------------
\* A finite set of naturals that is not empty has a largest element.
LEMMA HasMax ==
  ASSUME NEW S \in SUBSET Nat, IsFiniteSet(S), S # {}
  PROVE  Max(S) \in S /\ \A y \in S : Max(S) >= y
<1> DEFINE HasLargest(T) == \E x \in T : \A y \in T : x >= y
           Bad == {T \in FiniteSubsetsOf(Nat) : T # {} /\ ~HasLargest(T)}
<1>1. ASSUME Bad # {} PROVE FALSE
  <2>1. IsWellFoundedOn(StrictSubsetOrdering(Nat), FiniteSubsetsOf(Nat))
    BY FS_StrictSubsetOrderingWellFounded
  <2>2. PICK T \in Bad : \A U \in Bad : <<U, T>> \notin StrictSubsetOrdering(Nat)
    <3> HIDE DEF Bad
    <3>1. Bad \subseteq FiniteSubsetsOf(Nat) BY DEF Bad
    <3>2. QED BY <1>1, <2>1, <3>1, WFMin
  <2>3. T \in SUBSET Nat /\ IsFiniteSet(T) /\ T # {} BY DEF FiniteSubsetsOf
  <2>4. PICK x \in T : TRUE BY <2>3
  <2> DEFINE U == T \ {x}
  <2>5. U \in SUBSET Nat /\ IsFiniteSet(U) BY <2>3, FS_RemoveElement
  <2>6. <<U, T>> \in StrictSubsetOrdering(Nat) BY <2>3, <2>4, <2>5 DEF StrictSubsetOrdering
  <2>7. U = {} \/ HasLargest(U) BY <2>2, <2>5, <2>6 DEF FiniteSubsetsOf
  <2>8. HasLargest(T) BY <2>3, <2>4, <2>7
  <2>9. QED BY <2>8
<1>2. HasLargest(S) BY <1>1 DEF FiniteSubsetsOf
<1>3. QED BY <1>2 DEF Max

-----------------------------------------------------------------------------
\* Frames and their delivery.

LEMMA ScenarioTyped ==
  ASSUME TypeOK
  PROVE  /\ mode \in [Sessions -> {"chat", "piv", "spent"}] /\ home \in [Clients -> Sessions]
         /\ scenario.posts \in [Clients -> 0..MaxPosts] /\ scenario.asks \in 0..MaxAsks
BY ScenariosAssumption DEF TypeOK, mode, home

LEMMA FramesTyped ==
  /\ Done \in Frames /\ Error \in Frames
  /\ \A p \in Phases : Phase(p) \in Frames
  /\ \A m \in Turns : Frame("token", m) \in Frames /\ Frame("plan_ready", m) \in Frames
                      /\ Frame("checkpoint", m) \in Frames
  /\ \A r \in Requests : Frame("permission_request", r) \in Frames
  /\ Frame("validate_result", "passed") \in Frames /\ Frame("validate_result", "failed") \in Frames
BY DEF Frames, FrameTypes, Frame, Done, Error, Phase

LEMMA FrameFields == \A type, of : Frame(type, of).type = type /\ Frame(type, of).of = of
BY DEF Frame

LEMMA PhasesOfEngine == {"planning", "implementing", "validating"} \subseteq Phases
<1>1. \A i \in 1..3 : i \in DOMAIN PIV_PHASES BY DEF PIV_PHASES
<1>2. PIV_PHASES[1] = "planning" /\ PIV_PHASES[2] = "implementing" /\ PIV_PHASES[3] = "validating"
  BY DEF PIV_PHASES
<1>3. QED BY <1>1, <1>2 DEF Phases, PIVPhases

\* What a turn may send: its own text, and what ends it as the last frame.
Script(m, fs) ==
  /\ fs \in Seq(Frames)
  /\ \A i \in 1..Len(fs) : fs[i].type = "token" => fs[i].of = m
  /\ \A i \in 1..Len(fs) : Ending(fs[i]) => i = Len(fs) /\ at'[m] = "over"

\* It reaches open streams of its own session.
Sends(m) == \E fs, R :
  /\ Deliver(R, fs) /\ Script(m, fs)
  /\ \A c \in R : c \in Clients /\ conn[c] = "open" /\ home[c] = SessionOf(m)

LEMMA NothingSent ==
  ASSUME Typed, NEW m \in Turns, inbox' = inbox PROVE Sends(m)
<1>1. Deliver({}, <<>>) BY DEF Deliver, Typed
<1>2. Script(m, <<>>) BY DEF Script
<1>3. QED BY <1>1, <1>2 DEF Sends

LEMMA EmitSends ==
  ASSUME NEW m \in Turns, NEW fs, Script(m, fs), emit(SessionOf(m), fs)
  PROVE  Sends(m) /\ UNCHANGED <<conn, table, group>>
BY DEF Sends, emit, Subscribed

LEMMA PublishSends ==
  ASSUME Typed, Grouped, NEW m \in Turns, NEW fs, Script(m, fs), publish(SessionOf(m), fs)
  PROVE  Sends(m) /\ UNCHANGED <<conn, table, group>>
<1>1. SessionOf(m) \in Sessions BY ScenarioTyped DEF Typed, SessionOf, Turns
<1>2. \A c \in Published(SessionOf(m)) :
        c \in Clients /\ conn[c] = "open" /\ home[c] = SessionOf(m)
  BY <1>1 DEF Published, Members, Grouped
<1>3. QED BY <1>2 DEF Sends, publish

LEMMA OneFrame ==
  ASSUME NEW m \in Turns, NEW f \in Frames, f.type = "token" => f.of = m,
         Ending(f) => at'[m] = "over"
  PROVE  Script(m, <<f>>)
BY DEF Script

LEMMA TwoFrames ==
  ASSUME NEW m \in Turns, NEW f \in Frames, NEW g \in Frames, f.type = "token" => f.of = m,
         ~Ending(f), g.type = "token" => g.of = m, Ending(g) => at'[m] = "over"
  PROVE  Script(m, <<f, g>>)
<1>1. <<f, g>> \in Seq(Frames) /\ Len(<<f, g>>) = 2 OBVIOUS
<1>2. <<f, g>>[1] = f /\ <<f, g>>[2] = g OBVIOUS
<1>3. QED BY <1>1, <1>2 DEF Script

-----------------------------------------------------------------------------
\* What every step of a turn does to what the invariants speak of.

Unasked(m) == UNCHANGED <<asked, verdict, pending>> /\ (at[m] = "gate" => verdict[m] # "open")

Asks(m) ==
  /\ at[m] # "gate" /\ at'[m] = "gate" /\ asked[m] < scenario.asks
  /\ asked' = [asked EXCEPT ![m] = @ + 1]
  /\ verdict' = [verdict EXCEPT ![m] = "open"]
  /\ pending' = pending \cup {<<m, asked[m] + 1>>}

Spends(m) ==
  \/ retries' = retries
  \/ retries' = [retries EXCEPT ![m] = @ + 1] /\ (retries[m] + 1 > MaxRetries => at'[m] = "over")

Running(m) == daemon # "down" /\ at[m] \notin {"none", "over", "lost"}

Labelled(m) == \E l \in Labels : at' = [at EXCEPT ![m] = l] /\ l # "none"

Moves(m) ==
  /\ Running(m) /\ Labelled(m)
  /\ Unasked(m) \/ Asks(m)
  /\ Spends(m)
  /\ engine' \in [Sessions -> BOOLEAN]
  /\ Sends(m)
  /\ UNCHANGED <<scenario, daemon, current, aborted, conn, table, group, clientVars, yes>>
  /\ post' \subseteq post

LEMMA StepLabels ==
  ASSUME Typed, NEW m \in Turns, NEW from, NEW to, Step(m, from, to),
         from \notin {"none", "over", "lost"}, to \in Labels, to # "none"
  PROVE  /\ Running(m) /\ Labelled(m) /\ at[m] = from /\ at'[m] = to
         /\ UNCHANGED <<scenario, daemon, current, aborted, clientVars, post, yes>>
BY DEF Step, Goto, Running, Labelled, Typed, TypeOK

LEMMA QuietEffects ==
  ASSUME Typed, NEW m \in Turns, Quiet, at[m] = "gate" => verdict[m] # "open"
  PROVE  Unasked(m) /\ Spends(m) /\ engine' \in [Sessions -> BOOLEAN]
BY DEF Quiet, Unasked, Spends, Typed, TypeOK

LEMMA RequestEffects ==
  ASSUME Typed, Grouped, NEW m \in Turns, requestPermission(m), at[m] # "gate", at'[m] = "gate"
  PROVE  Asks(m) /\ Sends(m) /\ UNCHANGED <<conn, table, group>>
<1>1. Asks(m) BY DEF requestPermission, Asks
<1> DEFINE f == Frame("permission_request", <<m, asked[m] + 1>>)
<1>2. <<m, asked[m] + 1>> \in Requests
  BY ScenarioTyped, BoundsAssumption DEF requestPermission, Requests, Typed, TypeOK
<1>3. f \in Frames /\ f.type = "permission_request" BY <1>2, FramesTyped, FrameFields
<1>4. Script(m, <<f>>) BY <1>3, OneFrame DEF Ending
<1>5. publish(SessionOf(m), <<f>>) BY DEF requestPermission
<1>6. QED BY <1>1, <1>4, <1>5, PublishSends

LEMMA RequestingMoves ==
  ASSUME Typed, Grouped, NEW m \in Turns, NEW from, from \notin {"none", "over", "lost", "gate"},
         Step(m, from, "gate"), requestPermission(m), UNCHANGED <<retries, engine>>
  PROVE  Moves(m)
<1>1. /\ Running(m) /\ Labelled(m) /\ at[m] # "gate" /\ at'[m] = "gate"
      /\ UNCHANGED <<scenario, daemon, current, aborted, clientVars, post, yes>>
  BY StepLabels DEF Labels
<1>2. Asks(m) /\ Sends(m) /\ UNCHANGED <<conn, table, group>> BY <1>1, RequestEffects
<1>3. QED BY <1>1, <1>2 DEF Moves, Spends, Typed, TypeOK

\* A step that asks for nothing and spends nothing.
LEMMA QuietMoves ==
  ASSUME Typed, NEW m \in Turns, Quiet, NEW from, NEW to, Step(m, from, to),
         from \notin {"none", "over", "lost"}, to \in Labels, to # "none",
         from = "gate" => verdict[m] # "open",
         Sends(m), UNCHANGED <<conn, table, group>>
  PROVE  Moves(m)
<1>1. /\ Running(m) /\ Labelled(m) /\ at[m] = from
      /\ UNCHANGED <<scenario, daemon, current, aborted, clientVars, post, yes>>
  BY StepLabels
<1>2. Unasked(m) /\ Spends(m) /\ engine' \in [Sessions -> BOOLEAN] BY <1>1, QuietEffects
<1>3. QED BY <1>1, <1>2 DEF Moves

LEMMA SilentMoves ==
  ASSUME Typed, NEW m \in Turns, Quiet, NEW from, NEW to, Step(m, from, to),
         from \notin {"none", "over", "lost"}, to \in Labels, to # "none",
         from = "gate" => verdict[m] # "open", UNCHANGED streamVars
  PROVE  Moves(m)
<1>1. Sends(m) /\ UNCHANGED <<conn, table, group>> BY NothingSent DEF streamVars
<1>2. QED BY <1>1, QuietMoves

LEMMA PublishMoves ==
  ASSUME Typed, Grouped, NEW m \in Turns, Quiet, NEW from, NEW to, NEW fs, Step(m, from, to),
         from \notin {"none", "over", "lost", "gate"}, to \in Labels, to # "none",
         Script(m, fs), publish(SessionOf(m), fs)
  PROVE  Moves(m)
<1>1. Sends(m) /\ UNCHANGED <<conn, table, group>> BY PublishSends
<1>2. QED BY <1>1, QuietMoves

LEMMA ChatMoves ==
  ASSUME Typed, Grouped, NEW m \in Turns,
         Stored(m) \/ Answer(m) \/ UseTool(m) \/ PassGate(m) \/ Close(m) \/ Finish(m) \/ Quit(m)
  PROVE  Moves(m)
<1> USE DEF Labels, ChatLabels, Ended
<1>1. CASE Stored(m)
  <2>1. CASE Step(m, "pre", "work") /\ publish(SessionOf(m), <<Phase("requesting"), Phase("thinking")>>)
    <3>1. {"requesting", "thinking"} \subseteq Phases BY DEF Phases
    <3>2. \A p \in {"requesting", "thinking"} : Phase(p) \in Frames /\ Phase(p).type = "phase_change"
      BY <3>1, FramesTyped, FrameFields DEF Phase
    <3>3. Script(m, <<Phase("requesting"), Phase("thinking")>>) BY <3>2, TwoFrames DEF Ending
    <3>4. QED BY <1>1, <2>1, <3>3, PublishMoves DEF Stored
  <2>2. CASE Step(m, "pre", "lost") /\ UNCHANGED streamVars
    BY <1>1, <2>2, SilentMoves DEF Stored
  <2>3. QED BY <1>1, <2>1, <2>2 DEF Stored
<1>2. CASE Answer(m)
  <2>1. Frame("token", m) \in Frames /\ Frame("token", m).type = "token" /\ Frame("token", m).of = m
    BY FramesTyped, FrameFields
  <2>2. Script(m, <<Frame("token", m)>>) BY <2>1, OneFrame DEF Ending
  <2>3. QED BY <1>2, <2>2, PublishMoves DEF Answer
<1>3. CASE UseTool(m) BY <1>3, RequestingMoves DEF UseTool
<1>4. CASE PassGate(m) BY <1>4, SilentMoves DEF PassGate
<1>5. CASE Close(m) BY <1>5, SilentMoves DEF Close
<1>6. ASSUME NEW from, from \in {"work", "spoken", "closing"}, Step(m, from, "over"), Quiet,
             NEW f \in {Done, Error}, publish(SessionOf(m), <<f>>)
      PROVE  Moves(m)
  <2>1. f \in Frames /\ f.type \in {"done", "error"} BY FramesTyped, FrameFields DEF Done, Error
  <2>2. at'[m] = "over" BY <1>6, StepLabels
  <2>3. Script(m, <<f>>) BY <2>1, <2>2, OneFrame
  <2>4. QED BY <1>6, <2>3, PublishMoves
<1>7. CASE Finish(m) BY <1>6, <1>7 DEF Finish
<1>8. CASE Quit(m)
  <2>1. CASE m \in aborted BY <1>8, <2>1, SilentMoves DEF Quit
  <2>2. CASE m \notin aborted BY <1>6, <1>8, <2>2 DEF Quit
  <2>3. QED BY <2>1, <2>2
<1>9. QED BY <1>1, <1>2, <1>3, <1>4, <1>5, <1>7, <1>8

\* A step of the engine that tells of it.
LEMMA EmitMoves ==
  ASSUME Typed, NEW m \in Turns, NEW from, NEW to, NEW fs, Step(m, from, to),
         from \notin {"none", "over", "lost"}, to \in Labels, to # "none",
         UNCHANGED <<asked, verdict, pending>>, from = "gate" => verdict[m] # "open",
         Spends(m), engine' \in [Sessions -> BOOLEAN],
         Script(m, fs), emit(SessionOf(m), fs)
  PROVE  Moves(m)
<1>1. /\ Running(m) /\ Labelled(m) /\ at[m] = from
      /\ UNCHANGED <<scenario, daemon, current, aborted, clientVars, post, yes>>
  BY StepLabels
<1>2. Sends(m) /\ UNCHANGED <<conn, table, group>> BY EmitSends
<1>3. QED BY <1>1, <1>2 DEF Moves, Unasked

\* Another round, reported by a frame that is neither text nor an end, or by none.
LEMMA AgainMoves ==
  ASSUME Typed, NEW m \in Turns, NEW from, NEW before,
         Again(m, from, "implementing", before),
         before = <<>> \/ before = <<Frame("validate_result", "failed")>>,
         from \notin {"none", "over", "lost"},
         UNCHANGED <<asked, verdict, engine, pending>>, from = "gate" => verdict[m] # "open"
  PROVE  Moves(m)
<1>1. engine' \in [Sessions -> BOOLEAN] BY DEF Typed, TypeOK
<1>2. ASSUME NEW f \in Frames, f.type # "token", Ending(f) => at'[m] = "over"
      PROVE  Script(m, before \o <<f>>)
  <2>1. CASE before = <<>>
    <3>1. before \o <<f>> = <<f>> BY <2>1
    <3>2. QED BY <1>2, <3>1, OneFrame
  <2>2. CASE before = <<Frame("validate_result", "failed")>>
    <3> DEFINE g == Frame("validate_result", "failed")
    <3>1. g \in Frames /\ g.type = "validate_result" BY FramesTyped, FrameFields
    <3>2. before \o <<f>> = <<g>> \o <<f>> BY <2>2
    <3> HIDE DEF g
    <3> DEFINE s == <<g>> \o <<f>>
    <3>3. <<g>> \in Seq(Frames) /\ <<f>> \in Seq(Frames) BY <1>2, <3>1
    <3>4. s \in Seq(Frames) /\ Len(s) = 2 BY <3>3
    <3>5. s[1] = g /\ s[2] = f BY <3>3
    <3> HIDE DEF s
    <3>6. Script(m, s) BY <1>2, <3>1, <3>4, <3>5 DEF Script, Ending
    <3>7. QED BY <3>2, <3>6 DEF s
  <2>3. QED BY <2>1, <2>2
<1>3. CASE retries[m] + 1 > MaxRetries
  <2>1. Step(m, from, "over") /\ emit(SessionOf(m), before \o <<Error>>) BY <1>3 DEF Again
  <2>2. at'[m] = "over" BY <2>1, StepLabels DEF Labels, Ended
  <2>3. Error \in Frames /\ Error.type = "error" BY FramesTyped, FrameFields DEF Error
  <2>4. Script(m, before \o <<Error>>) BY <1>2, <2>2, <2>3
  <2>5. Spends(m) BY <2>2 DEF Again, Spends
  <2>6. QED BY <1>1, <2>1, <2>4, <2>5, EmitMoves DEF Labels, Ended
<1>4. CASE ~(retries[m] + 1 > MaxRetries)
  <2> DEFINE f == Phase("implementing")
  <2>1. Step(m, from, "implementing") /\ emit(SessionOf(m), before \o <<f>>) BY <1>4 DEF Again
  <2>2. f \in Frames /\ f.type = "phase_change"
    BY PhasesOfEngine, FramesTyped, FrameFields DEF Phase
  <2>3. Script(m, before \o <<f>>) BY <1>2, <2>2 DEF Ending
  <2>4. Spends(m) BY <1>4 DEF Again, Spends
  <2>5. QED BY <1>1, <2>1, <2>3, <2>4, EmitMoves DEF Labels, PIVLabels
<1>5. QED BY <1>3, <1>4

LEMMA TaskMoves ==
  ASSUME Typed, Grouped, NEW m \in Turns,
         BeginTask(m) \/ OfferPlan(m) \/ Propose(m) \/ DiffDecided(m) \/ Apply(m) \/ Validate(m)
         \/ FailTask(m)
  PROVE  Moves(m)
<1> USE DEF Labels, PIVLabels, Ended
<1>1. CASE BeginTask(m)
  <2>1. CASE engine[SessionOf(m)] BY <1>1, <2>1, SilentMoves DEF BeginTask, Quiet, ChatLabels
  <2>2. CASE ~engine[SessionOf(m)]
    <3>1. Phase("planning") \in Frames /\ Phase("planning").type = "phase_change"
      BY PhasesOfEngine, FramesTyped, FrameFields DEF Phase
    <3>2. Script(m, <<Phase("planning")>>) BY <3>1, OneFrame DEF Ending
    <3>3. engine' \in [Sessions -> BOOLEAN] BY <1>1, <2>2 DEF BeginTask, Typed, TypeOK
    <3>4. QED BY <1>1, <2>2, <3>2, <3>3, EmitMoves DEF BeginTask, Spends
  <2>3. QED BY <2>1, <2>2
<1>2. CASE OfferPlan(m)
  <2> DEFINE f == Frame("token", m)
             g == Frame("plan_ready", m)
  <2>1. f \in Frames /\ g \in Frames /\ f.type = "token" /\ g.type = "plan_ready" /\ f.of = m
    BY FramesTyped, FrameFields
  <2>2. Script(m, <<f, g>>) BY <2>1, TwoFrames DEF Ending
  <2>3. QED BY <1>2, <2>2, EmitMoves DEF OfferPlan, Quiet, Spends, Typed, TypeOK
<1>3. CASE Propose(m)
  <2>1. CASE Step(m, "implementing", "gate") /\ requestPermission(m)
    BY <1>3, <2>1, RequestingMoves DEF Propose
  <2>2. CASE Step(m, "implementing", "applying") /\ UNCHANGED <<asked, verdict, pending, streamVars>>
    BY <1>3, <2>2, SilentMoves DEF Propose, Quiet
  <2>3. QED BY <1>3, <2>1, <2>2 DEF Propose
<1>4. CASE DiffDecided(m)
  <2>1. CASE /\ verdict[m] = "granted" /\ Step(m, "gate", "applying")
             /\ UNCHANGED <<retries, streamVars>>
    BY <1>4, <2>1, SilentMoves DEF DiffDecided, Quiet
  <2>2. CASE verdict[m] = "refused" /\ Again(m, "gate", "implementing", <<>>)
    BY <1>4, <2>2, AgainMoves DEF DiffDecided
  <2>3. QED BY <1>4, <2>1, <2>2 DEF DiffDecided
<1>5. CASE Apply(m)
  <2>1. CASE Again(m, "applying", "implementing", <<>>) BY <1>5, <2>1, AgainMoves DEF Apply
  <2>2. CASE /\ Step(m, "applying", "validating") /\ retries' = retries
             /\ emit(SessionOf(m), <<Phase("validating")>>)
    <3>1. Phase("validating") \in Frames /\ Phase("validating").type = "phase_change"
      BY PhasesOfEngine, FramesTyped, FrameFields DEF Phase
    <3>2. Script(m, <<Phase("validating")>>) BY <3>1, OneFrame DEF Ending
    <3>3. QED BY <1>5, <2>2, <3>2, EmitMoves DEF Apply, Spends, Typed, TypeOK
  <2>3. QED BY <1>5, <2>1, <2>2 DEF Apply
<1>6. CASE Validate(m)
  <2> DEFINE f == Frame("validate_result", "passed")
             g == Frame("checkpoint", m)
  <2>1. CASE Again(m, "validating", "implementing", <<Frame("validate_result", "failed")>>)
    BY <1>6, <2>1, AgainMoves DEF Validate
  <2>2. CASE /\ Step(m, "validating", "over") /\ retries' = retries
             /\ emit(SessionOf(m), <<f, g, Done>>)
    <3>1. /\ f \in Frames /\ g \in Frames /\ Done \in Frames
          /\ f.type = "validate_result" /\ g.type = "checkpoint" /\ Done.type = "done"
      BY FramesTyped, FrameFields DEF Done
    <3>2. at'[m] = "over" BY <2>2, StepLabels
    <3> HIDE DEF f, g
    <3>3. Script(m, <<f, g, Done>>)
      <4>1. <<f, g, Done>> \in Seq(Frames) /\ Len(<<f, g, Done>>) = 3 BY <3>1
      <4>2. <<f, g, Done>>[1] = f /\ <<f, g, Done>>[2] = g /\ <<f, g, Done>>[3] = Done OBVIOUS
      <4>3. QED BY <3>1, <3>2, <4>1, <4>2 DEF Script, Ending
    <3>4. QED BY <1>6, <2>2, <3>3, EmitMoves DEF Validate, Spends, Typed, TypeOK
  <2>3. QED BY <1>6, <2>1, <2>2 DEF Validate
<1>7. CASE FailTask(m)
  <2>1. PICK from \in {"planning", "implementing", "applying", "validating"} : Step(m, from, "over")
    BY <1>7 DEF FailTask
  <2>2. at'[m] = "over" BY <2>1, StepLabels
  <2>3. Error \in Frames /\ Error.type = "error" BY FramesTyped, FrameFields DEF Error
  <2>4. Script(m, <<Error>>) BY <2>2, <2>3, OneFrame
  <2>5. QED BY <1>7, <2>1, <2>4, EmitMoves DEF FailTask, Quiet, Spends, Typed, TypeOK
<1>8. QED BY <1>1, <1>2, <1>3, <1>4, <1>5, <1>6, <1>7

LEMMA TurnMoves ==
  ASSUME Typed, Grouped, NEW m \in Turns, Turn(m) PROVE Moves(m)
BY ChatMoves, TaskMoves DEF Turn

\* A decision moves the turn that waits for it, or nothing.
LEMMA DecisionMoves ==
  ASSUME Typed, Posted, NEW p \in post, p.kind = "decision", Handle(p)
  PROVE  \/ \E m \in Turns : Moves(m)
         \/ /\ UNCHANGED <<scenario, daemon, turnVars, streamVars, clientVars, yes>>
            /\ post' \subseteq post
<1> DEFINE m == p.of
<1>1. m \in Turns BY DEF Posted, Sound
<1>2. /\ HandleDecision(p) /\ daemon # "down"
      /\ UNCHANGED <<scenario, daemon, clientVars, yes>>
  BY DEF Handle, HandleMessage, HandleCancel, HandlePermission, HandleClear
<1>3. UNCHANGED <<current, aborted, asked, verdict, engine, pending>> /\ post' \subseteq post
  BY <1>2 DEF HandleDecision, Forgotten
<1>4. CASE at[m] # "awaiting"
  BY <1>2, <1>3, <1>4 DEF HandleDecision, turnVars
<1>5. CASE at[m] = "awaiting"
  <2>1. Running(m) /\ Unasked(m) BY <1>2, <1>3, <1>5 DEF Running, Unasked
  <2>2. engine' \in [Sessions -> BOOLEAN] BY <1>3 DEF Typed, TypeOK
  <2>3. SUFFICES Labelled(m) /\ Spends(m) /\ Sends(m) /\ UNCHANGED <<conn, table, group>>
    BY <1>1, <1>2, <1>3, <2>1, <2>2 DEF Moves
  <2>4. at \in [Turns -> Labels] /\ {"implementing", "over", "planning"} \subseteq Labels
    BY DEF Typed, TypeOK, Labels, PIVLabels, Ended
  <2>5. Phase("implementing") \in Frames /\ Phase("planning") \in Frames /\ Error \in Frames
    BY PhasesOfEngine, FramesTyped
  <2>6. /\ Phase("implementing").type = "phase_change" /\ Phase("planning").type = "phase_change"
        /\ Error.type = "error"
    BY FrameFields DEF Phase, Error
  <2>7. CASE p.approved
    <3>1. at' = [at EXCEPT ![m] = "implementing"] /\ retries' = retries
          /\ emit(SessionOf(m), <<Phase("implementing")>>)
      BY <1>2, <1>5, <2>7 DEF HandleDecision, Goto
    <3>2. Script(m, <<Phase("implementing")>>) BY <1>1, <2>5, <2>6, OneFrame DEF Ending
    <3>3. Labelled(m) /\ Spends(m) BY <2>4, <3>1 DEF Labelled, Spends
    <3>4. QED BY <1>1, <3>1, <3>2, <3>3, EmitSends
  <2>8. CASE ~p.approved
    <3> DEFINE spent == retries[m] + 1 > MaxRetries
               f == IF spent THEN Error ELSE Phase("planning")
    <3>1. /\ retries' = [retries EXCEPT ![m] = @ + 1]
          /\ at' = [at EXCEPT ![m] = IF spent THEN "over" ELSE "planning"]
          /\ emit(SessionOf(m), <<f>>)
      BY <1>2, <1>5, <2>8 DEF HandleDecision, Goto
    <3>2. spent => at'[m] = "over" BY <1>1, <2>4, <3>1
    <3>3. f \in Frames /\ f.type # "token" /\ (Ending(f) => spent) BY <2>5, <2>6 DEF Ending
    <3>4. Labelled(m) /\ Spends(m) BY <2>4, <3>1, <3>2 DEF Labelled, Spends
    <3> HIDE DEF f, spent
    <3>5. Script(m, <<f>>) BY <1>1, <3>2, <3>3, OneFrame
    <3>6. QED BY <1>1, <3>1, <3>4, <3>5, EmitSends
  <2>9. QED BY <2>7, <2>8
<1>6. QED BY <1>4, <1>5

-----------------------------------------------------------------------------
\* The views of the clients.

LEMMA ViewsFit == \A v \in Views : ViewOK(v)
BY DEF Views, ViewOK, Phases

LEMMA InitialView == initialREPLViewState \in Views
BY DEF initialREPLViewState, Views

LEMMA ClientViews ==
  ASSUME NEW v \in Views
  PROVE  /\ submitted(v) \in Views /\ submit_error(v) \in Views /\ clear_transcript(v) \in Views
         /\ \A id : permission_resolved(v, id) \in Views
BY DEF Views, submitted, submit_error, clear_transcript, permission_resolved

LEMMA ReducedViews ==
  ASSUME NEW v \in Views, NEW f \in Frames PROVE reduceFrame(v, f) \in Views
<1>1. CASE f.type = "phase_change"
  <2>1. f.of \in Phases BY <1>1 DEF Frames
  <2>2. withCompletedPreviousPhase(v.completed, v.phase, f.of) \in SUBSET PIVPhases
    BY DEF withCompletedPreviousPhase, Views
  <2>3. QED BY <1>1, <2>1, <2>2 DEF reduceFrame, Views
<1>2. CASE f.type = "token"
  <2>1. f.of \in Turns BY <1>2 DEF Frames
  <2>2. QED BY <1>2, <2>1 DEF reduceFrame, Views
<1>3. CASE f.type = "done"
  <2>1. finalizeAssistantTurn(v) \in Views BY DEF finalizeAssistantTurn, Views
  <2>2. QED BY <1>3, <2>1 DEF reduceFrame
<1>4. CASE f.type = "error"
  <2>1. Failed(v) \in Views BY DEF Failed, Views
  <2>2. QED BY <1>4, <2>1 DEF reduceFrame
<1>5. CASE f.type = "permission_request"
  <2>1. f.of \in Requests BY <1>5 DEF Frames
  <2>2. Prompted(v, f.of) \in Views BY <2>1 DEF Prompted, Views
  <2>3. QED BY <1>5, <2>2 DEF reduceFrame
<1>6. CASE f.type \in {"plan_ready", "validate_result", "checkpoint"}
  <2>1. Reported(v, f) \in Views BY DEF Reported, Views
  <2>2. QED BY <1>6, <2>1 DEF reduceFrame, Cards
<1>7. QED BY <1>1, <1>2, <1>3, <1>4, <1>5, <1>6 DEF Frames, FrameTypes

LEMMA ShowTyped ==
  ASSUME Typed, NEW c \in Clients, NEW v \in Views, Show(c, v)
  PROVE  view' \in [Clients -> Views] /\ resolvedRef' \subseteq Clients
BY DEF Typed, TypeOK, Show

-----------------------------------------------------------------------------
\* Type correctness.

\* What a step does not touch needs no proof: the parts of Typed.
Turned == /\ at \in [Turns -> Labels] /\ current \in Turns \cup {None} /\ aborted \subseteq Turns
          /\ retries \in [Turns -> 0..(MaxRetries + 1)] /\ engine \in [Sessions -> BOOLEAN]
Gated  == /\ asked \in [Turns -> 0..MaxAsks]
          /\ verdict \in [Turns -> {"open", "granted", "refused"}]
          /\ pending \subseteq {Latest(m) : m \in Turns}
Wired  == /\ conn \in [Clients -> {"off", "open", "shut", "left", "broken"}]
          /\ table \in [Sessions -> Nat] /\ group \in [Clients -> Nat]
          /\ inbox \in [Clients -> Seq(Frames)]
Seen   == /\ view \in [Clients -> Views] /\ sent \in [Clients -> 0..MaxPosts]
          /\ resolvedRef \subseteq Clients /\ escaped \subseteq Clients
          /\ early \subseteq Turns
Heard  == yes \subseteq Requests /\ post \subseteq Posts
Alive  == scenario \in Scenarios /\ daemon \in {"up", "closing", "down"}

LEMMA TypedParts == Typed <=> Turned /\ Gated /\ Wired /\ Seen /\ Heard /\ Alive
BY ViewsFit DEF Typed, TypeOK, Turned, Gated, Wired, Seen, Heard, Alive

LEMMA TypedNext == Turned' /\ Gated' /\ Wired' /\ Seen' /\ Heard' /\ Alive' => Typed'
BY ViewsFit DEF Typed, TypeOK, Turned, Gated, Wired, Seen, Heard, Alive

LEMMA DeliverTyped ==
  ASSUME Typed, NEW R, NEW fs \in Seq(Frames), Deliver(R, fs)
  PROVE  inbox' \in [Clients -> Seq(Frames)]
BY DEF Typed, Deliver

LEMMA MovesTyped ==
  ASSUME Typed, Waiting, Budgeted, NEW m \in Turns, Moves(m)
  PROVE  Typed'
<1>1. Alive' /\ Seen' /\ Heard' BY TypedParts DEF Moves, clientVars, Alive, Seen, Heard
<1>2. Turned'
  <2>1. at' \in [Turns -> Labels] BY TypedParts DEF Turned, Moves, Labelled
  <2>2. retries[m] \in 0..MaxRetries
    BY BoundsAssumption DEF Typed, TypeOK, Budgeted, Moves, Running
  <2>3. retries' \in [Turns -> 0..(MaxRetries + 1)]
    BY <2>2, BoundsAssumption, TypedParts DEF Turned, Moves, Spends
  <2>4. QED BY <2>1, <2>3, TypedParts DEF Turned, Moves
<1>3. Gated'
  <2>1. CASE Unasked(m) BY <2>1, TypedParts DEF Gated, Unasked, Latest
  <2>2. CASE Asks(m)
    <3>1. asked[m] + 1 \in 0..MaxAsks
      BY <2>2, ScenarioTyped, BoundsAssumption DEF Asks, Typed, TypeOK
    <3>2. asked' \in [Turns -> 0..MaxAsks] /\ verdict' \in [Turns -> {"open", "granted", "refused"}]
      BY <2>2, <3>1, TypedParts DEF Gated, Asks
    <3>3. ASSUME NEW id \in pending' PROVE \E n \in Turns : id = <<n, asked'[n]>>
      <4>1. asked'[m] = asked[m] + 1 /\ \A n \in Turns \ {m} : asked'[n] = asked[n]
        BY <2>2, TypedParts DEF Gated, Asks
      <4>2. CASE id = <<m, asked[m] + 1>> BY <4>1, <4>2
      <4>3. CASE id \in pending
        <5>1. PICK n \in Turns : id = <<n, asked[n]>> BY <4>3, TypedParts DEF Gated, Latest
        <5>2. n # m BY <2>2, <4>3, <5>1 DEF Waiting, Latest, Asks
        <5>3. QED BY <4>1, <5>1, <5>2
      <4>4. QED BY <2>2, <3>3, <4>2, <4>3 DEF Asks
    <3>4. QED BY <3>2, <3>3 DEF Gated, Latest
  <2>3. QED BY <2>1, <2>2 DEF Moves
<1>4. Wired'
  <2>1. inbox' \in [Clients -> Seq(Frames)] BY DeliverTyped DEF Moves, Sends, Script
  <2>2. QED BY <2>1, TypedParts DEF Wired, Moves
<1>5. QED BY <1>1, <1>2, <1>3, <1>4, TypedNext

\* What a POST of another kind does at the daemon.
LEMMA HandledTyped ==
  ASSUME Typed, Posted, Waiting, Grouped, NEW p \in post, p.kind # "decision", Handle(p)
  PROVE  Typed'
<1>1. Alive' /\ Seen' BY TypedParts DEF Handle, clientVars, Alive, Seen
<1>2. \A state \in {"ok", "failed"} : [p EXCEPT !.state = state] \in Posts
  BY TypedParts DEF Heard, Posts
<1>3. Heard'
  BY <1>2, TypedParts
  DEF Heard, Handle, HandleMessage, HandleCancel, HandlePermission, HandleDecision, HandleClear,
      Forgotten, Answered
<1>4. CASE HandleMessage(p)
  <2>1. p.of \in Turns BY <1>4 DEF HandleMessage, Posted, Sound
  <2>2. Turned'
    BY <1>4, <2>1, TypedParts DEF Turned, HandleMessage, Goto, Abort, AtWork, Labels, ChatLabels
  <2>3. Gated' /\ Wired' BY <1>4, TypedParts DEF Gated, Wired, HandleMessage, streamVars, Latest
  <2>4. QED BY <1>1, <1>3, <2>2, <2>3, TypedNext
<1>5. CASE HandleCancel(p)
  <2>1. Turned' /\ Gated'
    BY <1>5, TypedParts DEF Turned, Gated, HandleCancel, Abort, AtWork, Latest
  <2>2. <<Done>> \in Seq(Frames) BY FramesTyped
  <2>3. Wired'
    BY <1>5, <2>2, DeliverTyped, TypedParts DEF Wired, HandleCancel, publish
  <2>4. QED BY <1>1, <1>3, <2>1, <2>3, TypedNext
<1>6. CASE HandlePermission(p)
  <2>1. Turned' /\ Wired' BY <1>6, TypedParts DEF Turned, Wired, HandlePermission, streamVars
  <2>2. Gated' BY <1>6, TypedParts DEF Gated, HandlePermission, Latest
  <2>3. QED BY <1>1, <1>3, <2>1, <2>2, TypedNext
<1>7. CASE HandleClear(p)
  <2>1. Turned' /\ Gated' /\ Wired'
    BY <1>7, TypedParts DEF Turned, Gated, Wired, HandleClear, turnVars, streamVars, Latest
  <2>2. QED BY <1>1, <1>3, <2>1, TypedNext
<1>8. QED BY <1>4, <1>5, <1>6, <1>7 DEF Handle, HandleDecision

LEMMA RefuseTyped ==
  ASSUME Typed, NEW ids, Refuse(ids), asked' = asked PROVE Gated'
BY TypedParts DEF Gated, Refuse, Latest

LEMMA TimeoutTyped ==
  ASSUME Typed, NEW id, Timeout(id) PROVE Typed'
<1>1. Gated' BY RefuseTyped DEF Timeout
<1>2. Turned' /\ Wired' /\ Seen' /\ Heard' /\ Alive'
  BY TypedParts DEF Timeout, Turned, Wired, Seen, Heard, Alive, streamVars, clientVars
<1>3. QED BY <1>1, <1>2, TypedNext

LEMMA EndTyped ==
  ASSUME Typed, Shutdown \/ Exit PROVE Typed'
<1>1. CASE Shutdown
  <2>1. Gated' BY <1>1, RefuseTyped DEF Shutdown
  <2>2. Turned' /\ Wired' /\ Seen' /\ Heard' /\ Alive'
    BY <1>1, TypedParts DEF Shutdown, Turned, Wired, Seen, Heard, Alive, clientVars
  <2>3. QED BY <2>1, <2>2, TypedNext
<1>2. CASE Exit
  <2>1. Gated' BY <1>2, TypedParts DEF Exit, turnVars, Gated, Latest
  <2>2. Turned' /\ Wired' /\ Seen' /\ Heard' /\ Alive'
    BY <1>2, TypedParts DEF Exit, turnVars, Turned, Wired, Seen, Heard, Alive, clientVars
  <2>3. QED BY <2>1, <2>2, TypedNext
<1>3. QED BY <1>1, <1>2

-----------------------------------------------------------------------------
\* Sockets that come and go.

\* The Set a client joins: the session's, or one that is nobody's.
Joins(c, g) ==
  /\ g \in Nat \ {0}
  /\ table' = [table EXCEPT ![home[c]] = g] /\ group' = [group EXCEPT ![c] = g]
  /\ \/ g = table[home[c]]
     \/ /\ table[home[c]] = 0
        /\ \A d \in Clients : group[d] # g
        /\ \A t \in Sessions : table[t] # g

LEMMA AttachJoins ==
  ASSUME Typed, Grouped, NEW c \in Clients, attach(c)
  PROVE  \E g : Joins(c, g)
<1> DEFINE groups == {group[d] : d \in Clients}
           S == groups \cup {table[t] : t \in Sessions}
           g == IF table[home[c]] # 0 THEN table[home[c]] ELSE 1 + Max(S)
<1>1. group \in [Clients -> Nat] /\ table \in [Sessions -> Nat] /\ home[c] \in Sessions
  BY ScenarioTyped, TypedParts DEF Wired, Typed
<1>2. IsFiniteSet(groups)
  <2>1. group \in Surjection(Clients, groups) BY <1>1 DEF Surjection
  <2>2. QED BY <2>1, ClientsAssumption, FS_Surjection
<1>3. IsFiniteSet(groups \cup {0}) BY <1>2, FS_AddElement
<1>4. S \in SUBSET (groups \cup {0})
  <2>1. \A t \in Sessions : table[t] \in groups \cup {0} BY DEF Grouped
  <2>2. QED BY <2>1
<1>5. IsFiniteSet(S) BY <1>3, <1>4, FS_Subset
<1>6. \A d \in Clients : group[d] \in S OBVIOUS
<1>7. S \in SUBSET Nat /\ S # {}
  <2>1. S \in SUBSET Nat BY <1>1
  <2> HIDE DEF S
  <2>2. QED BY <1>6, <2>1
<1>8. \A t \in Sessions : table[t] \in S OBVIOUS
<1>9. table' = [table EXCEPT ![home[c]] = g] /\ group' = [group EXCEPT ![c] = g]
  BY DEF attach
<1> HIDE DEF S
<1>10. Max(S) \in Nat /\ \A y \in S : Max(S) >= y BY <1>5, <1>7, HasMax
<1>11. CASE table[home[c]] # 0 BY <1>1, <1>9, <1>11 DEF Joins
<1>12. CASE table[home[c]] = 0
  <2>1. g = 1 + Max(S) BY <1>12
  <2>2. \A y \in S : y # g BY <1>7, <1>10, <2>1
  <2>3. g \in Nat \ {0} BY <1>10, <2>1
  <2> HIDE DEF g
  <2>4. QED BY <1>6, <1>8, <1>9, <1>12, <2>2, <2>3 DEF Joins
<1>13. QED BY <1>11, <1>12

LEMMA AttachTyped ==
  ASSUME Typed, Grouped, NEW c \in Clients, attach(c)
  PROVE  Typed' /\ Grouped'
<1>1. PICK g : Joins(c, g) BY AttachJoins
<1>2. /\ daemon # "down" /\ conn[c] = "off" /\ conn' = [conn EXCEPT ![c] = "open"]
      /\ UNCHANGED <<scenario, daemon, turnVars, inbox, clientVars, post, yes>>
  BY DEF attach
<1>3. home[c] \in Sessions /\ home' = home BY <1>2, ScenarioTyped DEF Typed, home
<1>4. Wired' BY <1>1, <1>2, <1>3, TypedParts DEF Wired, Joins
<1>5. Turned' /\ Gated' /\ Seen' /\ Heard' /\ Alive'
  BY <1>2, TypedParts DEF Turned, Gated, Seen, Heard, Alive, turnVars, clientVars, Latest
<1>6. Typed' BY <1>4, <1>5, TypedNext
<1>7. group[c] = 0 BY <1>2 DEF Grouped
<1>8. /\ group'[c] = g /\ \A d \in Clients \ {c} : group'[d] = group[d]
      /\ table'[home[c]] = g /\ \A t \in Sessions \ {home[c]} : table'[t] = table[t]
      /\ conn'[c] = "open" /\ \A d \in Clients \ {c} : conn'[d] = conn[d]
      /\ g # 0
  BY <1>1, <1>2, <1>3, TypedParts DEF Wired, Joins
<1>9. \A t \in Sessions \ {home[c]} : table[t] # g
  <2>1. ASSUME NEW t \in Sessions \ {home[c]}, table[t] = g PROVE FALSE
    <3>1. g = table[home[c]] BY <1>1, <2>1 DEF Joins
    <3>2. PICK d \in Clients : group[d] = g BY <1>3, <1>8, <3>1 DEF Grouped
    <3>3. QED BY <1>3, <1>8, <2>1, <3>1, <3>2 DEF Grouped
  <2>2. QED BY <2>1
<1>10. \A d \in Clients : group[d] = g => g = table[home[c]] BY <1>1 DEF Joins
<1>11. \A d \in Clients, t \in Sessions : group'[d] # 0 /\ group'[d] = table'[t] => home[d] = t
  <2>1. ASSUME NEW d \in Clients, NEW t \in Sessions, group'[d] # 0, group'[d] = table'[t]
        PROVE  home[d] = t
    <3>1. CASE d = c BY <1>8, <1>9, <2>1, <3>1
    <3>2. CASE d # c /\ t = home[c]
      <4>1. group[d] # 0 /\ group[d] = table[home[c]] BY <1>8, <1>10, <2>1, <3>2
      <4>2. QED BY <1>3, <3>2, <4>1 DEF Grouped
    <3>3. CASE d # c /\ t # home[c] BY <1>8, <2>1, <3>3 DEF Grouped
    <3>4. QED BY <3>1, <3>2, <3>3
  <2>2. QED BY <2>1
<1>12. \A t \in Sessions : table'[t] # 0 => \E d \in Clients : group'[d] = table'[t]
  BY <1>7, <1>8 DEF Grouped
<1>13. \A d \in Clients : conn'[d] \in {"off", "left"} => group'[d] = 0
  BY <1>8 DEF Grouped
<1>14. ASSUME daemon = "up", NEW d \in Clients
       PROVE  /\ (group'[d] # 0) <=> (conn'[d] = "open")
              /\ group'[d] # 0 => group'[d] = table'[home[d]]
  <2>1. CASE d = c BY <1>8, <2>1
  <2>2. CASE d # c
    <3>1. (group[d] # 0) <=> (conn[d] = "open") BY <1>14 DEF Grouped
    <3>2. ASSUME group[d] # 0 PROVE group[d] = table'[home[d]]
      <4>1. group[d] = table[home[d]] BY <1>14, <3>2 DEF Grouped
      <4>2. CASE home[d] = home[c] BY <1>1, <1>8, <3>2, <4>1, <4>2 DEF Joins
      <4>3. CASE home[d] # home[c]
        <5>1. home[d] \in Sessions BY ScenarioTyped DEF Typed
        <5>2. QED BY <1>8, <4>1, <4>3, <5>1
      <4>4. QED BY <4>2, <4>3
    <3>3. QED BY <1>8, <2>2, <3>1, <3>2
  <2>3. QED BY <2>1, <2>2
<1>15. daemon' = daemon BY <1>2
<1>16. QED BY <1>3, <1>6, <1>11, <1>12, <1>13, <1>14, <1>15 DEF Grouped

LEMMA DetachTyped ==
  ASSUME Typed, Grouped, NEW c \in Clients, Leave(c) \/ ClosedSocket(c)
  PROVE  Typed' /\ Grouped'
<1>1. detach(c) /\ UNCHANGED <<scenario, daemon, turnVars, clientVars, post, yes>>
  BY DEF Leave, ClosedSocket
<1>2. home[c] \in Sessions /\ home' = home BY <1>1, ScenarioTyped DEF Typed, home
<1>3. /\ conn' \in [Clients -> {"off", "open", "shut", "left", "broken"}]
      /\ inbox' \in [Clients -> Seq(Frames)]
      /\ \A d \in Clients \ {c} : conn'[d] = conn[d]
      /\ conn'[c] # "open" /\ (daemon = "up" => conn[c] = "open")
      /\ group[c] # 0 \/ daemon # "up"
  <2>0. /\ conn \in [Clients -> {"off", "open", "shut", "left", "broken"}]
        /\ inbox \in [Clients -> Seq(Frames)]
    BY TypedParts DEF Wired
  <2>1. CASE Leave(c)
    <3>1. <<>> \in Seq(Frames) OBVIOUS
    <3>2. daemon = "up" => group[c] # 0 BY <2>1 DEF Leave, Grouped
    <3>3. QED BY <2>0, <2>1, <3>1, <3>2 DEF Leave
  <2>2. CASE ClosedSocket(c)
    <3>1. daemon # "up" BY <2>2 DEF ClosedSocket, Grouped
    <3>2. QED BY <2>0, <2>2, <3>1 DEF ClosedSocket
  <2>3. QED BY <2>1, <2>2
<1>4. /\ group' = [group EXCEPT ![c] = 0]
      /\ table' = IF Members(group[c]) = {c} THEN [table EXCEPT ![home[c]] = 0] ELSE table
  BY <1>1 DEF detach
<1>5. Wired' BY <1>2, <1>3, <1>4, TypedParts DEF Wired
<1>6. Turned' /\ Gated' /\ Seen' /\ Heard' /\ Alive'
  BY <1>1, TypedParts DEF Turned, Gated, Seen, Heard, Alive, turnVars, clientVars, Latest
<1>7. Typed' BY <1>5, <1>6, TypedNext
<1>8. /\ group'[c] = 0 /\ \A d \in Clients \ {c} : group'[d] = group[d]
      /\ \A t \in Sessions : table'[t] # 0 => table'[t] = table[t]
      /\ \A t \in Sessions : table'[t] # table[t] => t = home[c] /\ Members(group[c]) = {c}
      /\ Members(group[c]) = {c} => table'[home[c]] = 0
  BY <1>2, <1>4, TypedParts DEF Wired
<1>9. \A d \in Clients, t \in Sessions : group'[d] # 0 /\ group'[d] = table'[t] => home[d] = t
  BY <1>8 DEF Grouped
<1>10. ASSUME NEW t \in Sessions, table'[t] # 0 PROVE \E d \in Clients : group'[d] = table'[t]
  <2>1. table'[t] = table[t] BY <1>8, <1>10
  <2>2. PICK d \in Clients : group[d] = table[t] BY <1>10, <2>1 DEF Grouped
  <2>3. CASE d # c BY <1>8, <2>1, <2>2, <2>3
  <2>4. CASE d = c
    <3>1. home[c] = t BY <1>10, <2>1, <2>2, <2>4 DEF Grouped
    <3>2. Members(group[c]) # {c} BY <1>8, <1>10, <3>1
    <3>3. c \in Members(group[c]) BY <1>10, <2>1, <2>2, <2>4 DEF Members
    <3>4. PICK e \in Members(group[c]) : e # c BY <3>2, <3>3
    <3>5. e \in Clients \ {c} /\ group[e] = group[c] BY <3>4 DEF Members
    <3>6. group'[e] = table'[t] BY <1>8, <2>1, <2>2, <2>4, <3>5
    <3>7. QED BY <3>5, <3>6
  <2>5. QED BY <2>3, <2>4
<1>11. \A d \in Clients : conn'[d] \in {"off", "left"} => group'[d] = 0
  BY <1>3, <1>8 DEF Grouped
<1>12. ASSUME daemon = "up", NEW d \in Clients
       PROVE  /\ (group'[d] # 0) <=> (conn'[d] = "open")
              /\ group'[d] # 0 => group'[d] = table'[home[d]]
  <2>1. CASE d = c BY <1>3, <1>8, <2>1
  <2>2. CASE d # c
    <3>1. (group[d] # 0) <=> (conn[d] = "open") BY <1>12 DEF Grouped
    <3>2. ASSUME group[d] # 0 PROVE group[d] = table'[home[d]]
      <4>1. group[d] = table[home[d]] /\ home[d] \in Sessions
        BY <1>12, <3>2, ScenarioTyped DEF Grouped, Typed
      <4>2. ASSUME table'[home[d]] # table[home[d]] PROVE FALSE
        <5>1. home[d] = home[c] /\ Members(group[c]) = {c} BY <1>8, <4>1, <4>2
        <5>2. group[c] # 0 /\ group[c] = table[home[c]] BY <1>3, <1>12 DEF Grouped
        <5>3. d \in Members(group[c]) BY <4>1, <5>1, <5>2 DEF Members
        <5>4. QED BY <2>2, <5>1, <5>3
      <4>3. QED BY <4>1, <4>2
    <3>3. QED BY <1>3, <1>8, <2>2, <3>1, <3>2
  <2>3. QED BY <2>1, <2>2
<1>13. daemon' = daemon BY <1>1
<1>14. QED BY <1>2, <1>7, <1>9, <1>10, <1>11, <1>12, <1>13 DEF Grouped

-----------------------------------------------------------------------------
\* What terminals do.

LEMMA DisplayedRequest ==
  ASSUME NEW v \in Views, Displayed(v) # None PROVE Displayed(v) \in Requests
BY DEF Displayed, Views

LEMMA PostTyped ==
  ASSUME NEW kind \in {"message", "cancel", "permission", "decision", "clear"}, NEW c \in Clients,
         NEW of \in (Clients \X Nat) \cup Requests \cup {None}, NEW approved \in BOOLEAN
  PROVE  Post(kind, c, of, approved) \in Posts
BY DEF Post, Posts

\* The steps of the terminal of c; Continue is that of an answered POST of c.
Types(c) ==
  \/ Submit(c) \/ Escape(c) \/ Clear(c) \/ Receive(c) \/ StreamError(c)
  \/ \E approved \in BOOLEAN : AnswerPrompt(c, approved) \/ \E m \in Turns : Decide(c, m, approved)
  \/ \E p \in post : p.by = c /\ Continue(p)

LEMMA ClientKeeps ==
  ASSUME NEW c, Types(c)
  PROVE  /\ conn[c] # "left" /\ UNCHANGED <<scenario, daemon, turnVars, table, group>>
BY DEF Types, Submit, Escape, Clear, Receive, StreamError, AnswerPrompt, Decide, Continue, Client

LEMMA NextTurn ==
  ASSUME Typed, NEW c \in Clients, sent[c] < scenario.posts[c]
  PROVE  /\ sent[c] + 1 \in 1..MaxPosts
         /\ <<c, sent[c] + 1>> \in Turns /\ <<c, sent[c] + 1>> \in Clients \X Nat
BY ScenarioTyped, BoundsAssumption DEF Typed, Turns

LEMMA ClientTyped ==
  ASSUME Typed, Posted, NEW c \in Clients, Types(c) PROVE Typed'
<1>1. Turned' /\ Gated' /\ Alive'
  BY ClientKeeps, TypedParts DEF turnVars, Turned, Gated, Alive, Latest
<1>2. view[c] \in Views /\ sent[c] \in Nat BY BoundsAssumption DEF Typed
<1>3. table' = table /\ group' = group BY ClientKeeps
<1>4. SUFFICES Wired' /\ Seen' /\ Heard' BY <1>1, TypedNext
<1>5. CASE Submit(c)
  <2>1. /\ sent[c] + 1 \in 1..MaxPosts
        /\ <<c, sent[c] + 1>> \in Turns /\ <<c, sent[c] + 1>> \in Clients \X Nat
    BY <1>5, NextTurn DEF Submit
  <2>2. Post("message", c, <<c, sent[c] + 1>>, FALSE) \in Posts BY <2>1, PostTyped
  <2>3. view' \in [Clients -> Views] /\ resolvedRef' \subseteq Clients
    BY <1>2, <1>5, ClientViews, ShowTyped DEF Submit
  <2>4. Seen' BY <1>5, <2>1, <2>3, TypedParts DEF Seen, Submit
  <2>5. Heard' BY <1>5, <2>2, TypedParts DEF Heard, Submit
  <2>6. Wired' BY <1>3, <1>5, TypedParts DEF Wired, Submit
  <2>7. QED BY <2>4, <2>5, <2>6
<1>6. CASE Escape(c)
  <2>1. Post("cancel", c, <<c, sent[c]>>, FALSE) \in Posts BY <1>2, PostTyped
  <2>2. view' \in [Clients -> Views] /\ resolvedRef' \subseteq Clients
    BY <1>2, <1>6, ClientViews, ShowTyped DEF Escape
  <2>3. Seen' BY <1>6, <2>2, TypedParts DEF Seen, Escape
  <2>4. Heard' BY <1>6, <2>1, TypedParts DEF Heard, Escape
  <2>5. Wired' BY <1>3, <1>6, TypedParts DEF Wired, Escape
  <2>6. QED BY <2>3, <2>4, <2>5
<1>7. CASE Clear(c)
  <2>1. Post("clear", c, None, FALSE) \in Posts BY PostTyped
  <2>2. Seen' /\ Heard' /\ Wired'
    BY <1>3, <1>7, <2>1, TypedParts DEF Seen, Heard, Wired, Clear, clientVars
  <2>3. QED BY <2>2
<1>8. CASE Receive(c)
  <2>1. inbox[c] \in Seq(Frames) /\ inbox[c] # <<>> BY <1>8 DEF Typed, Receive
  <2>2. Head(inbox[c]) \in Frames /\ Tail(inbox[c]) \in Seq(Frames) BY <2>1
  <2>3. reduceFrame(view[c], Head(inbox[c])) \in Views BY <1>2, <2>2, ReducedViews
  <2>4. view' \in [Clients -> Views] /\ resolvedRef' \subseteq Clients
    BY <1>8, <2>3, ShowTyped DEF Receive
  <2>5. Seen' /\ Heard' BY <1>8, <2>4, TypedParts DEF Seen, Heard, Receive
  <2>6. Wired' BY <1>3, <1>8, <2>2, TypedParts DEF Wired, Receive
  <2>7. QED BY <2>5, <2>6
<1>9. CASE StreamError(c)
  <2>1. view' \in [Clients -> Views] /\ resolvedRef' \subseteq Clients
    BY <1>2, <1>9, ClientViews, ShowTyped DEF StreamError
  <2>2. Seen' /\ Heard' BY <1>9, <2>1, TypedParts DEF Seen, Heard, StreamError
  <2>3. Wired' BY <1>3, <1>9, TypedParts DEF Wired, StreamError
  <2>4. QED BY <2>2, <2>3
<1>10. ASSUME NEW approved \in BOOLEAN, AnswerPrompt(c, approved) PROVE Wired' /\ Seen' /\ Heard'
  <2>1. Displayed(view[c]) \in Requests BY <1>2, <1>10, DisplayedRequest DEF AnswerPrompt
  <2>2. Post("permission", c, Displayed(view[c]), approved) \in Posts BY <2>1, PostTyped
  <2>3. Seen' BY <1>10, TypedParts DEF Seen, AnswerPrompt
  <2>4. Heard' BY <1>10, <2>1, <2>2, TypedParts DEF Heard, AnswerPrompt
  <2>5. Wired' BY <1>3, <1>10, TypedParts DEF Wired, AnswerPrompt
  <2>6. QED BY <2>3, <2>4, <2>5
<1>11. ASSUME NEW approved \in BOOLEAN, NEW m \in Turns, Decide(c, m, approved)
       PROVE  Wired' /\ Seen' /\ Heard'
  <2>1. m \in Clients \X Nat BY DEF Turns
  <2>2. Post("decision", c, m, approved) \in Posts BY <2>1, PostTyped
  <2>3. Wired' /\ Seen' /\ Heard'
    BY <1>3, <1>11, <2>2, TypedParts DEF Wired, Seen, Heard, Decide, clientVars
  <2>4. QED BY <2>3
<1>12. ASSUME NEW p \in post, p.by = c, Continue(p) PROVE Wired' /\ Seen' /\ Heard'
  <2>1. view' \in [Clients -> Views] /\ resolvedRef' \subseteq Clients
    <3>1. CASE UNCHANGED <<view, resolvedRef>> BY <3>1, TypedParts DEF Seen
    <3>2. CASE \E v \in Views : Show(c, v) BY <3>2, ShowTyped
    <3>3. UNCHANGED <<view, resolvedRef>> \/ \E v \in Views : Show(c, v)
      BY <1>2, <1>12, ClientViews DEF Continue
    <3>4. QED BY <3>1, <3>2, <3>3
  <2>2. Wired' /\ Seen' /\ Heard'
    BY <1>3, <1>12, <2>1, TypedParts DEF Wired, Seen, Heard, Continue
  <2>3. QED BY <2>2
<1>13. QED BY <1>5, <1>6, <1>7, <1>8, <1>9, <1>10, <1>11, <1>12 DEF Types

-----------------------------------------------------------------------------
\* Every step.

\* The steps that neither move a turn nor come or go.
Ends == Shutdown \/ Exit

LEMMA StepKinds ==
  ASSUME Typed, Posted, Grouped, Next
  PROVE  \/ \E m \in Turns : Moves(m)
         \/ \E p \in post : p.kind # "decision" /\ Handle(p)
         \/ \E id \in Requests : Timeout(id)
         \/ \E c \in Clients : attach(c) \/ Leave(c) \/ ClosedSocket(c) \/ Types(c)
         \/ Ends
         \/ /\ UNCHANGED <<scenario, daemon, turnVars, streamVars, clientVars, yes>>
            /\ post' \subseteq post
<1>1. \A p \in post : p.by \in Clients BY TypedParts DEF Heard, Posts
<1>2. CASE \E m \in Turns : Turn(m) BY <1>2, TurnMoves
<1>3. CASE \E p \in post : Handle(p) BY <1>3, DecisionMoves
<1>4. CASE \E p \in post : Continue(p) BY <1>1, <1>4 DEF Types
<1>5. QED BY <1>2, <1>3, <1>4 DEF Next, Types, Ends

-----------------------------------------------------------------------------
\* POSTs on their way.

LEMMA OthersPosted ==
  ASSUME Posted, at' = at, sent' = sent, yes \subseteq yes', escaped \subseteq escaped',
         \A p \in post' \ post : Sound(p)'
  PROVE  Posted'
<1>1. ASSUME NEW p \in post' PROVE Sound(p)'
  <2>1. CASE p \in post
    <3>1. Sound(p) BY <2>1 DEF Posted
    <3>2. QED BY <3>1 DEF Sound
  <2>2. QED BY <1>1, <2>1
<1>2. \A m \in Turns : m[2] > sent'[m[1]] => at'[m] = "none" BY DEF Posted
<1>3. QED BY <1>1, <1>2 DEF Posted

LEMMA MovesPosted ==
  ASSUME Typed, Posted, NEW m \in Turns, Moves(m) PROVE Posted'
<1>1. /\ at[m] # "none" /\ \A n \in Turns \ {m} : at'[n] = at[n]
      /\ UNCHANGED <<sent, yes, escaped>> /\ post' \subseteq post
  BY TypedParts DEF Moves, Running, Labelled, clientVars, Turned
<1>2. ASSUME NEW p \in post' PROVE Sound(p)'
  <2>1. Sound(p) BY <1>1 DEF Posted
  <2>2. p.kind = "message" => at'[p.of] = "none" BY <1>1, <2>1 DEF Sound
  <2>3. QED BY <1>1, <2>1, <2>2 DEF Sound
<1>3. \A n \in Turns : n[2] > sent'[n[1]] => at'[n] = "none" BY <1>1 DEF Posted
<1>4. QED BY <1>2, <1>3 DEF Posted

LEMMA HandledPosted ==
  ASSUME Typed, Posted, NEW p \in post, p.kind # "decision", Handle(p) PROVE Posted'
<1>1. UNCHANGED <<sent, yes, escaped>> BY DEF Handle, clientVars
<1>2. p \in Posts /\ post \subseteq Posts /\ Sound(p) BY TypedParts DEF Heard, Posted
<1>3. CASE HandleMessage(p)
  <2>1. /\ p.kind = "message" /\ p.of \in Turns /\ post' = post \ {p}
        /\ at' = [at EXCEPT ![p.of] = "pre"]
    BY <1>2, <1>3 DEF HandleMessage, Goto, Forgotten, Sound
  <2>2. \A n \in Turns \ {p.of} : at'[n] = at[n] BY <2>1, TypedParts DEF Turned
  <2>3. ASSUME NEW q \in post' PROVE Sound(q)'
    <3>1. Sound(q) /\ q \in Posts /\ q # p BY <1>2, <2>1 DEF Posted
    <3>2. q.kind = "message" => q.of # p.of
      <4>1. ASSUME q.kind = "message", q.of = p.of PROVE q = p
        <5>1. q.by = p.by /\ q.approved = p.approved /\ q.state = p.state
          BY <1>2, <2>1, <3>1, <4>1 DEF Sound, Posts
        <5>2. QED BY <1>2, <2>1, <3>1, <4>1, <5>1 DEF Posts
      <4>2. QED BY <3>1, <4>1
    <3>3. q.kind = "message" => at'[q.of] = "none" BY <2>2, <3>1, <3>2 DEF Sound
    <3>4. QED BY <1>1, <3>1, <3>3 DEF Sound
  <2>4. \A n \in Turns : n[2] > sent[n[1]] => n # p.of
    <3>1. p.of[2] <= sent[p.of[1]] /\ p.of[2] \in Nat /\ sent[p.of[1]] \in Nat
      BY <1>2, <2>1, BoundsAssumption DEF Sound, Typed, Turns
    <3>2. QED BY <3>1
  <2>5. \A n \in Turns : n[2] > sent'[n[1]] => at'[n] = "none" BY <1>1, <2>2, <2>4 DEF Posted
  <2>6. QED BY <2>3, <2>5 DEF Posted
<1>4. CASE ~HandleMessage(p)
  <2>1. at' = at
    BY <1>4 DEF Handle, HandleCancel, HandlePermission, HandleDecision, HandleClear, turnVars
  <2>2. ASSUME NEW q \in post' \ post PROVE Sound(q)'
    <3>1. p.kind \in {"permission", "clear"} /\ \E state \in {"ok", "failed"} : q = [p EXCEPT !.state = state]
      BY <1>4, <2>2
      DEF Handle, HandleCancel, HandlePermission, HandleDecision, HandleClear, Forgotten, Answered
    <3>2. q.kind = p.kind /\ q.of = p.of /\ q.approved = p.approved /\ q.by = p.by
      BY <1>2, <3>1 DEF Posts
    <3>3. QED BY <1>1, <1>2, <3>1, <3>2 DEF Sound
  <2>3. QED BY <1>1, <2>1, <2>2, OthersPosted
<1>5. QED BY <1>3, <1>4

LEMMA SubmitPosted ==
  ASSUME Typed, Posted, NEW c \in Clients, Submit(c) PROVE Posted'
<1> DEFINE m == <<c, sent[c] + 1>>
           q == Post("message", c, m, FALSE)
<1>1. /\ sent[c] + 1 \in 1..MaxPosts /\ m \in Turns /\ m \in Clients \X Nat
  BY NextTurn DEF Submit
<1>2. /\ sent' = [sent EXCEPT ![c] = @ + 1] /\ post' = post \cup {q}
      /\ UNCHANGED <<at, yes, escaped>>
  BY ClientKeeps DEF Submit, Types, turnVars
<1>3. sent \in [Clients -> Nat] BY BoundsAssumption DEF Typed
<1>4. /\ sent'[c] = sent[c] + 1
      /\ \A d \in Clients : sent'[d] >= sent[d] /\ sent'[d] \in Nat /\ sent[d] \in Nat
  BY <1>2, <1>3
<1>5. at[m] = "none"
  <2>1. m[1] = c /\ m[2] = sent[c] + 1 OBVIOUS
  <2>2. m[2] > sent[m[1]] BY <1>3, <2>1
  <2>3. QED BY <1>1, <2>2 DEF Posted
<1>6. ASSUME NEW p \in post' PROVE Sound(p)'
  <2>1. CASE p = q
    <3>1. p.kind = "message" /\ p.by = c /\ p.of = m /\ ~p.approved /\ p.state = "sent"
      BY <2>1 DEF Post
    <3>2. p.of[1] = p.by /\ p.of[2] <= sent'[p.by] BY <1>3, <1>4, <3>1
    <3>3. QED BY <1>1, <1>2, <1>5, <3>1, <3>2 DEF Sound
  <2>2. CASE p \in post
    <3>1. Sound(p) /\ p.by \in Clients BY <2>2, TypedParts DEF Posted, Heard, Posts
    <3>2. p.kind = "message" => p.of[2] <= sent'[p.by]
      <4>1. p.kind = "message" => p.of[2] \in Nat /\ p.of[2] <= sent[p.by] BY <3>1 DEF Sound, Turns
      <4>2. QED BY <1>4, <3>1, <4>1
    <3>3. QED BY <1>2, <3>1, <3>2 DEF Sound
  <2>3. QED BY <1>2, <1>6, <2>1, <2>2
<1>7. ASSUME NEW n \in Turns, n[2] > sent'[n[1]] PROVE at'[n] = "none"
  <2>1. n[1] \in Clients /\ n[2] \in Nat BY DEF Turns
  <2>2. sent'[n[1]] \in Nat BY <1>2, <1>3, <2>1
  <2>3. n[2] > sent[n[1]] BY <1>3, <1>4, <1>7, <2>1, <2>2
  <2>4. QED BY <1>2, <2>3 DEF Posted
<1>8. QED BY <1>6, <1>7 DEF Posted

LEMMA ClientPosted ==
  ASSUME Typed, Posted, NEW c \in Clients, Types(c) PROVE Posted'
<1>1. at' = at BY ClientKeeps DEF turnVars
<1>2. CASE Submit(c) BY <1>2, SubmitPosted
<1>3. CASE Escape(c)
  <2>1. /\ post' = post \cup {Post("cancel", c, <<c, sent[c]>>, FALSE)}
        /\ escaped' = escaped \cup {c} /\ UNCHANGED <<sent, yes>>
    BY <1>3 DEF Escape
  <2>2. \A p \in post' \ post : p.kind = "cancel" /\ p.by = c BY <2>1 DEF Post
  <2>3. QED BY <1>1, <2>1, <2>2, OthersPosted DEF Sound
<1>4. CASE Clear(c)
  <2>1. post' = post \cup {Post("clear", c, None, FALSE)} /\ UNCHANGED <<sent, yes, escaped>>
    BY <1>4 DEF Clear, clientVars
  <2>2. \A p \in post' \ post : p.kind = "clear" BY <2>1 DEF Post
  <2>3. QED BY <1>1, <2>1, <2>2, OthersPosted DEF Sound
<1>5. CASE Receive(c) \/ StreamError(c) BY <1>1, <1>5, OthersPosted DEF Receive, StreamError
<1>6. ASSUME NEW approved \in BOOLEAN, AnswerPrompt(c, approved) PROVE Posted'
  <2> DEFINE r == Displayed(view[c])
  <2>1. r \in Requests BY <1>6, DisplayedRequest DEF AnswerPrompt, Typed
  <2> HIDE DEF r
  <2>2. /\ post' = post \cup {Post("permission", c, r, approved)}
        /\ yes' = IF approved THEN yes \cup {r} ELSE yes
        /\ UNCHANGED <<sent, escaped>>
    BY <1>6 DEF AnswerPrompt, r
  <2>3. \A p \in post' \ post : p.kind = "permission" /\ p.of = r /\ p.approved = approved
    BY <2>2 DEF Post
  <2>4. QED BY <1>1, <2>1, <2>2, <2>3, OthersPosted DEF Sound
<1>7. ASSUME NEW approved \in BOOLEAN, NEW m \in Turns, Decide(c, m, approved) PROVE Posted'
  <2>1. post' = post \cup {Post("decision", c, m, approved)} /\ UNCHANGED <<sent, yes, escaped>>
    BY <1>7 DEF Decide, clientVars
  <2>2. \A p \in post' \ post : p.kind = "decision" /\ p.of = m BY <2>1 DEF Post
  <2>3. QED BY <1>1, <2>1, <2>2, OthersPosted DEF Sound
<1>8. ASSUME NEW p \in post, Continue(p) PROVE Posted'
  BY <1>1, <1>8, OthersPosted DEF Continue
<1>9. QED BY <1>2, <1>3, <1>4, <1>5, <1>6, <1>7, <1>8 DEF Types

-----------------------------------------------------------------------------
\* The gate, and the retries.

LEMMA MovesGated ==
  ASSUME Typed, Waiting, Granted, Budgeted, NEW m \in Turns, Moves(m)
  PROVE  Waiting' /\ Granted' /\ Budgeted'
<1>1. /\ at[m] \notin {"none", "over", "lost"} /\ \A n \in Turns \ {m} : at'[n] = at[n]
      /\ yes' = yes
  BY TypedParts DEF Moves, Running, Labelled, Turned
<1>2. ASSUME Unasked(m) PROVE Waiting' /\ Granted'
  <2>1. \A n \in Turns : Latest(n)' = Latest(n) BY <1>2 DEF Unasked, Latest
  <2>2. Waiting' BY <1>1, <1>2, <2>1 DEF Waiting, Unasked
  <2>3. Granted' BY <1>1, <1>2, <2>1 DEF Granted, Unasked
  <2>4. QED BY <2>2, <2>3
<1>3. ASSUME Asks(m) PROVE Waiting' /\ Granted'
  <2>1. /\ Latest(m)' = <<m, asked[m] + 1>> /\ verdict'[m] = "open" /\ at'[m] = "gate"
        /\ \A n \in Turns \ {m} : Latest(n)' = Latest(n) /\ verdict'[n] = verdict[n]
        /\ pending' = pending \cup {<<m, asked[m] + 1>>}
    BY <1>3, TypedParts DEF Asks, Latest, Gated
  <2>2. \A n \in Turns \ {m} : Latest(n) # <<m, asked[m] + 1>> BY DEF Latest
  <2>3. Waiting' BY <1>1, <2>1, <2>2 DEF Waiting
  <2>4. Granted' BY <1>1, <2>1 DEF Granted
  <2>5. QED BY <2>3, <2>4
<1>4. Budgeted'
  <2>1. ASSUME NEW n \in Turns, at'[n] # "over" PROVE retries'[n] <= MaxRetries
    <3>1. retries \in [Turns -> Nat] BY BoundsAssumption, TypedParts DEF Turned
    <3>2. retries' = retries \/ retries' = [retries EXCEPT ![m] = @ + 1] BY DEF Moves, Spends
    <3>3. CASE n # m
      <4>1. at[n] # "over" /\ retries'[n] = retries[n] BY <1>1, <2>1, <3>1, <3>2, <3>3
      <4>2. QED BY <4>1 DEF Budgeted
    <3>4. CASE n = m
      <4>1. retries[m] <= MaxRetries BY <1>1 DEF Budgeted
      <4>2. QED BY <2>1, <3>1, <3>4, <4>1, BoundsAssumption DEF Moves, Spends
    <3>5. QED BY <3>3, <3>4
  <2>2. QED BY <2>1 DEF Budgeted
<1>5. QED BY <1>2, <1>3, <1>4 DEF Moves

\* A request is settled: it leaves with its verdict.
LEMMA RefuseGated ==
  ASSUME Typed, Waiting, Granted, NEW ids, Refuse(ids), UNCHANGED <<at, asked, yes>>
  PROVE  Waiting' /\ Granted'
<1>1. \A n \in Turns : Latest(n)' = Latest(n) BY DEF Latest
<1>2. /\ pending' = pending \ ids
      /\ \A n \in Turns : verdict'[n] = IF Latest(n) \in ids \cap pending THEN "refused" ELSE verdict[n]
  BY DEF Refuse
<1>3. QED BY <1>1, <1>2 DEF Waiting, Granted

LEMMA HandledGated ==
  ASSUME Typed, Posted, Waiting, Granted, Budgeted, NEW p \in post, p.kind # "decision", Handle(p)
  PROVE  Waiting' /\ Granted' /\ Budgeted'
<1>1. yes' = yes BY DEF Handle
<1>2. Sound(p) BY DEF Posted
<1>3. CASE HandleMessage(p)
  <2>1. /\ p.of \in Turns /\ at[p.of] = "none" /\ at' = [at EXCEPT ![p.of] = "pre"]
        /\ UNCHANGED <<asked, verdict, retries, pending>>
    BY <1>2, <1>3 DEF HandleMessage, Goto, Sound
  <2>2. \A n \in Turns : at'[n] = IF n = p.of THEN "pre" ELSE at[n] BY <2>1, TypedParts DEF Turned
  <2>3. \A n \in Turns : Latest(n)' = Latest(n) BY <2>1 DEF Latest
  <2>4. Waiting' BY <2>1, <2>2, <2>3 DEF Waiting
  <2>5. Granted' BY <1>1, <2>1, <2>3 DEF Granted
  <2>6. Budgeted' BY <2>1, <2>2 DEF Budgeted
  <2>7. QED BY <2>4, <2>5, <2>6
<1>4. CASE HandlePermission(p)
  <2>1. UNCHANGED <<at, asked, retries>> /\ p.kind = "permission" BY <1>4 DEF HandlePermission
  <2>2. \A n \in Turns : Latest(n)' = Latest(n) BY <2>1 DEF Latest
  <2>3. Budgeted' BY <2>1 DEF Budgeted
  <2>4. CASE p.of \in pending
    <3>1. PICK m \in Turns : p.of = Latest(m) BY <2>4, TypedParts DEF Gated
    <3>2. p.of[1] = m BY <3>1 DEF Latest
    <3>3. /\ pending' = pending \ {Latest(m)}
          /\ \A n \in Turns : verdict'[n] =
               IF n = m THEN (IF p.approved THEN "granted" ELSE "refused") ELSE verdict[n]
      BY <1>4, <2>4, <3>1, <3>2, TypedParts DEF HandlePermission, Gated
    <3>4. Waiting' BY <2>1, <2>2, <3>3 DEF Waiting
    <3>5. p.approved => Latest(m) \in yes BY <1>2, <2>1, <3>1 DEF Sound
    <3>6. Granted' BY <1>1, <2>2, <3>3, <3>5 DEF Granted
    <3>7. QED BY <2>3, <3>4, <3>6
  <2>5. CASE p.of \notin pending
    <3>1. UNCHANGED <<pending, verdict>> BY <1>4, <2>5 DEF HandlePermission
    <3>2. QED BY <1>1, <2>1, <2>2, <2>3, <3>1 DEF Waiting, Granted
  <2>6. QED BY <2>4, <2>5
<1>5. CASE HandleCancel(p) \/ HandleClear(p)
  <2>1. UNCHANGED <<at, asked, verdict, retries, pending>>
    BY <1>5 DEF HandleCancel, HandleClear, turnVars
  <2>2. \A n \in Turns : Latest(n)' = Latest(n) BY <2>1 DEF Latest
  <2>3. QED BY <1>1, <2>1, <2>2 DEF Waiting, Granted, Budgeted
<1>6. QED BY <1>3, <1>4, <1>5 DEF Handle, HandleDecision

\* A step that leaves the turns alone.
LEMMA OthersGated ==
  ASSUME Waiting, Granted, Budgeted, UNCHANGED turnVars, yes \subseteq yes'
  PROVE  Waiting' /\ Granted' /\ Budgeted'
<1>1. \A n \in Turns : Latest(n)' = Latest(n) BY DEF Latest, turnVars
<1>2. QED BY <1>1 DEF Waiting, Granted, Budgeted, turnVars

-----------------------------------------------------------------------------
\* The Sets of sockets, at the other steps.

LEMMA OthersGrouped ==
  ASSUME Typed, Grouped, UNCHANGED <<scenario, daemon, table, group>>,
         \A c \in Clients : conn'[c] = conn[c] \/ (daemon = "down" /\ conn'[c] = "broken")
  PROVE  Grouped'
<1>1. home' = home BY DEF home
<1>2. \A c \in Clients : conn'[c] \in {"off", "left"} => group'[c] = 0 BY DEF Grouped
<1>3. daemon' = "up" => \A c \in Clients : conn'[c] = conn[c] OBVIOUS
<1>4. QED BY <1>1, <1>2, <1>3 DEF Grouped

LEMMA ClientGrouped ==
  ASSUME Typed, Grouped, NEW c \in Clients, Types(c) PROVE Grouped'
<1>1. \A d \in Clients : conn'[d] = conn[d] \/ (daemon = "down" /\ conn'[d] = "broken")
  BY TypedParts
  DEF Types, Submit, Escape, Clear, Receive, StreamError, AnswerPrompt, Decide, Continue, Wired
<1>2. QED BY <1>1, ClientKeeps, OthersGrouped

LEMMA EndGrouped ==
  ASSUME Typed, Grouped, Ends PROVE Grouped'
<1>1. CASE Exit
  <2>1. UNCHANGED <<scenario, table, group, conn>> /\ daemon' = "down" BY <1>1 DEF Exit
  <2>2. QED BY <2>1 DEF Grouped, home
<1>2. CASE Shutdown
  <2>1. /\ UNCHANGED <<scenario, group>> /\ daemon' = "closing" /\ \A t \in Sessions : table'[t] = 0
        /\ \A c \in Clients : conn'[c] \in {"off", "left"} => conn'[c] = conn[c]
    BY <1>2 DEF Shutdown
  <2>2. QED BY <2>1 DEF Grouped, home
<1>3. QED BY <1>1, <1>2 DEF Ends

-----------------------------------------------------------------------------
\* The inductive invariant, but for the order of the frames.
Safe == Typed /\ Posted /\ Waiting /\ Granted /\ Budgeted /\ Grouped

LEMMA InitSafe == Init => Safe
<1> SUFFICES ASSUME Init PROVE Safe OBVIOUS
<1>1. scenario \in Scenarios BY DEF Init
<1>2. Turned /\ Gated BY <1>1, BoundsAssumption DEF Init, Turned, Gated, Labels
<1>3. Wired BY DEF Init, Wired
<1>4. Seen /\ Heard /\ Alive BY <1>1, BoundsAssumption, InitialView DEF Init, Seen, Heard, Alive
<1>5. Typed BY <1>2, <1>3, <1>4, TypedParts
<1>6. Posted /\ Waiting /\ Granted /\ Budgeted
  BY BoundsAssumption DEF Init, Posted, Waiting, Granted, Budgeted
<1>7. Grouped BY DEF Init, Grouped
<1>8. QED BY <1>5, <1>6, <1>7 DEF Safe

LEMMA NextSafe == Safe /\ [Next]_vars => Safe'
<1> SUFFICES ASSUME Typed, Posted, Waiting, Granted, Budgeted, Grouped, [Next]_vars PROVE Safe'
  BY DEF Safe
<1>1. ASSUME UNCHANGED <<scenario, daemon, turnVars, streamVars, clientVars, yes>>, post' \subseteq post
      PROVE  Safe'
  <2>1. Typed'
    BY <1>1, TypedParts, TypedNext
    DEF turnVars, streamVars, clientVars, Turned, Gated, Wired, Seen, Heard, Alive, Latest
  <2>2. Posted' BY <1>1, OthersPosted DEF turnVars, clientVars
  <2>3. Waiting' /\ Granted' /\ Budgeted' BY <1>1, OthersGated
  <2>4. Grouped' BY <1>1, OthersGrouped DEF streamVars
  <2>5. QED BY <2>1, <2>2, <2>3, <2>4 DEF Safe
<1>2. ASSUME NEW m \in Turns, Moves(m) PROVE Safe'
  <2>1. Grouped' BY <1>2, OthersGrouped DEF Moves
  <2>2. QED BY <1>2, <2>1, MovesTyped, MovesPosted, MovesGated DEF Safe
<1>3. ASSUME NEW p \in post, p.kind # "decision", Handle(p) PROVE Safe'
  <2>1. UNCHANGED <<scenario, daemon, conn, table, group>>
    BY <1>3
    DEF Handle, HandleMessage, HandleCancel, HandlePermission, HandleDecision, HandleClear, publish,
        streamVars
  <2>2. Grouped' BY <2>1, OthersGrouped
  <2>3. QED BY <1>3, <2>2, HandledTyped, HandledPosted, HandledGated DEF Safe
<1>4. ASSUME NEW id \in Requests, Timeout(id) PROVE Safe'
  <2>1. /\ UNCHANGED <<scenario, daemon, at, asked, retries, streamVars, clientVars, post, yes>>
        /\ Refuse({id})
    BY <1>4 DEF Timeout
  <2>2. Posted' BY <2>1, OthersPosted DEF clientVars
  <2>3. Waiting' /\ Granted' BY <2>1, RefuseGated
  <2>4. Budgeted' BY <2>1 DEF Budgeted
  <2>5. Grouped' BY <2>1, OthersGrouped DEF streamVars
  <2>6. QED BY <1>4, <2>2, <2>3, <2>4, <2>5, TimeoutTyped DEF Safe
<1>5. ASSUME NEW c \in Clients, attach(c) \/ Leave(c) \/ ClosedSocket(c) PROVE Safe'
  <2>1. UNCHANGED <<turnVars, clientVars, post, yes>> BY <1>5 DEF attach, Leave, ClosedSocket
  <2>2. Posted' BY <2>1, OthersPosted DEF clientVars, turnVars
  <2>3. Waiting' /\ Granted' /\ Budgeted' BY <2>1, OthersGated
  <2>4. QED BY <1>5, <2>2, <2>3, AttachTyped, DetachTyped DEF Safe
<1>6. ASSUME NEW c \in Clients, Types(c) PROVE Safe'
  <2>1. yes \subseteq yes'
    BY <1>6
    DEF Types, Submit, Escape, Clear, Receive, StreamError, AnswerPrompt, Decide, Continue
  <2>2. Waiting' /\ Granted' /\ Budgeted' BY <1>6, <2>1, ClientKeeps, OthersGated
  <2>3. QED BY <1>6, <2>2, ClientTyped, ClientPosted, ClientGrouped DEF Safe
<1>7. ASSUME Ends PROVE Safe'
  <2>1. UNCHANGED <<at, retries, asked, clientVars, post, yes>> BY <1>7 DEF Ends, Shutdown, Exit, turnVars
  <2>2. Posted' BY <2>1, OthersPosted DEF clientVars
  <2>3. Waiting' /\ Granted' /\ Budgeted'
    BY <1>7, <2>1, RefuseGated, OthersGated DEF Ends, Shutdown, Exit, Budgeted
  <2>4. QED BY <1>7, <2>2, <2>3, EndTyped, EndGrouped DEF Safe, Ends
<1>8. CASE UNCHANGED vars BY <1>1, <1>8 DEF vars
<1>9. QED BY <1>1, <1>2, <1>3, <1>4, <1>5, <1>6, <1>7, <1>8, StepKinds

\* Requests, verdicts, retries and streams agree with each other after every step
\* of a daemon, its turns and its terminals.
THEOREM Safely == Spec => []Safe
BY InitSafe, NextSafe, PTL DEF Spec

\* A tool that asks runs, or a diff is applied, only if a user said yes to that very
\* request while it was on display, whatever timers, other terminals and a
\* shutdown did at the same time.
THEOREM GrantedByAUserHolds == Spec => []GrantedByAUser
<1>1. Safe => GrantedByAUser BY DEF Safe, Typed, Granted, GrantedByAUser
<1>2. QED BY <1>1, Safely, PTL

\* While the daemon is up every open stream gets what is published for its
\* session, however others come and go.
THEOREM OpenIsReachedHolds == Spec => []OpenIsReached
<1>1. Safe => OpenIsReached BY DEF Safe, Grouped, OpenIsReached, Published, Members
<1>2. QED BY <1>1, Safely, PTL

-----------------------------------------------------------------------------
\* The order of the frames.

LEMMA LastTurn ==
  ASSUME Typed, NEW c \in Clients
  PROVE  /\ sent[c] \in Nat /\ inbox[c] \in Seq(Frames) /\ view[c] \in Views
         /\ \A k \in 1..sent[c] : <<c, k>> \in Turns
         /\ Last(c) \in Turns => sent[c] # 0
         /\ \A i \in 1..Len(inbox[c]) : inbox[c][i].type = "token" => inbox[c][i].of \in Turns
<1>1. sent[c] \in 0..MaxPosts /\ sent[c] \in Nat BY BoundsAssumption DEF Typed
<1>2. inbox[c] \in Seq(Frames) /\ view[c] \in Views BY DEF Typed
<1>3. \A k \in 1..sent[c] : <<c, k>> \in Turns BY <1>1, BoundsAssumption DEF Turns
<1>4. Last(c) \in Turns => sent[c] # 0 BY <1>1 DEF Last, Turns
<1>5. \A i \in 1..Len(inbox[c]) : inbox[c][i] \in Frames BY <1>2
<1>6. QED BY <1>1, <1>2, <1>3, <1>4, <1>5 DEF Frames

\* A step that sends c nothing and leaves its turns and its view alone.
LEMMA OrderKept ==
  ASSUME Typed, NEW c \in Clients, Ordered(c), inbox'[c] \in {inbox[c], <<>>},
         view'[c] = view[c], sent'[c] = sent[c], daemon = "down" => daemon' = "down",
         \A k \in 1..sent[c] : at'[<<c, k>>] = at[<<c, k>>]
  PROVE  Ordered(c)'
<1>1. Last(c)' = Last(c) BY DEF Last
<1>2. sent[c] # 0 => at'[Last(c)] = at[Last(c)] BY LastTurn DEF Last
<1>3. Over(c)' <=> Over(c) BY <1>1, <1>2 DEF Over
<1>4. CASE inbox'[c] = inbox[c]
  <2>1. \A i \in 1..Len(inbox[c]) :
          inbox[c][i].type = "token" => inbox[c][i].of = Last(c) /\ at'[Last(c)] # "none"
    BY <1>2, LastTurn DEF Ordered
  <2>2. \/ \A k \in 1..(sent[c] - 1) : at'[<<c, k>>] = "over"
        \/ daemon' = "down" /\ NoToken(inbox[c])
    BY LastTurn DEF Ordered
  <2>3. QED BY <1>1, <1>3, <1>4, <2>1, <2>2 DEF Ordered, NoToken, NoEnding
<1>5. CASE inbox'[c] = <<>>
  <2>1. NoToken(inbox'[c]) /\ NoEnding(inbox'[c]) /\ Len(inbox'[c]) = 0
    BY <1>5 DEF NoToken, NoEnding
  <2>2. \/ \A k \in 1..(sent[c] - 1) : at'[<<c, k>>] = "over"
        \/ daemon' = "down"
    BY LastTurn DEF Ordered
  <2> HIDE <1>5
  <2>3. QED BY <1>1, <1>3, <2>1, <2>2 DEF Ordered, NoToken, NoEnding
<1>6. QED BY <1>4, <1>5

\* While a turn runs that is not over, it is the last of its client, whose input
\* is not back and who has nothing that ends it.
LEMMA RunningIsLast ==
  ASSUME Typed, NEW c \in Clients, Ordered(c), daemon # "down",
         NEW m \in Turns, m[1] = c, m[2] <= sent[c], at[m] # "over"
  PROVE  /\ m = Last(c) /\ sent[c] # 0 /\ ~Over(c)
         /\ \A k \in 1..(sent[c] - 1) : at[<<c, k>>] = "over"
         /\ NoEnding(inbox[c]) /\ view[c].isSubmitting /\ ~view[c].error
<1>1. m = <<c, m[2]>> /\ m[2] \in Nat \ {0} BY DEF Turns
<1>2. \A k \in 1..(sent[c] - 1) : at[<<c, k>>] = "over" BY DEF Ordered
<1>3. m[2] = sent[c] BY <1>1, <1>2, LastTurn
<1>4. m = Last(c) /\ sent[c] # 0 BY <1>1, <1>3 DEF Last
<1>5. ~Over(c) BY <1>4 DEF Over
<1>6. NoEnding(inbox[c]) /\ view[c].isSubmitting BY <1>5 DEF Ordered
<1>7. ~view[c].error BY <1>6 DEF Ordered
<1>8. QED BY <1>2, <1>4, <1>5, <1>6, <1>7

\* What a turn sends comes after all there is.
LEMMA SentInOrder ==
  ASSUME Typed, NEW c \in Clients, Ordered(c), daemon # "down",
         NEW m \in Turns, m[1] = c, m[2] <= sent[c], at[m] # "over",
         at' = [at EXCEPT ![m] = at'[m]], at'[m] # "none",
         daemon' = daemon, view'[c] = view[c], sent'[c] = sent[c],
         NEW fs, Script(m, fs), inbox'[c] \in {inbox[c], inbox[c] \o fs}
  PROVE  Ordered(c)'
<1> DEFINE box == inbox'[c]
           n == Len(inbox[c])
<1>1. /\ m = Last(c) /\ sent[c] # 0
      /\ \A k \in 1..(sent[c] - 1) : at[<<c, k>>] = "over"
      /\ NoEnding(inbox[c]) /\ view[c].isSubmitting /\ ~view[c].error
  BY RunningIsLast
<1>2. Last(c)' = m /\ (at'[m] = "over" => Over(c)') BY <1>1 DEF Last, Over
<1>3. /\ inbox[c] \in Seq(Frames) /\ fs \in Seq(Frames) /\ n \in Nat /\ Len(fs) \in Nat
      /\ sent[c] \in Nat
  BY LastTurn DEF Script
<1>4. \A i \in 1..Len(box) :
        \/ i \in 1..n /\ box[i] = inbox[c][i]
        \/ i - n \in 1..Len(fs) /\ box[i] = fs[i - n] /\ Len(box) = n + Len(fs)
  <2>1. CASE box = inbox[c] BY <2>1
  <2>2. CASE box = inbox[c] \o fs BY <1>3, <2>2
  <2>3. QED BY <2>1, <2>2
<1>5. Len(box) \in Nat BY <1>3
<1> HIDE DEF box, n
<1>6. \A i \in 1..Len(box) : box[i].type = "token" => box[i].of = m
  <2>1. \A i \in 1..n : inbox[c][i].type = "token" => inbox[c][i].of = m
    BY <1>1 DEF Ordered, n
  <2>2. \A i \in 1..Len(fs) : fs[i].type = "token" => fs[i].of = m BY DEF Script
  <2>3. ASSUME NEW i \in 1..Len(box), box[i].type = "token" PROVE box[i].of = m
    <3>1. CASE i \in 1..n /\ box[i] = inbox[c][i] BY <2>1, <2>3, <3>1
    <3>2. CASE i - n \in 1..Len(fs) /\ box[i] = fs[i - n] BY <2>2, <2>3, <3>2
    <3>3. QED BY <1>4, <3>1, <3>2
  <2>4. QED BY <2>3
<1>7. \A i \in 1..Len(box) : Ending(box[i]) => i = Len(box) /\ at'[m] = "over"
  <2>1. ASSUME NEW i \in 1..Len(box), Ending(box[i]) PROVE i = Len(box) /\ at'[m] = "over"
    <3>1. ~(i \in 1..n /\ box[i] = inbox[c][i]) BY <1>1, <2>1 DEF NoEnding, n
    <3>2. i - n \in 1..Len(fs) /\ box[i] = fs[i - n] /\ Len(box) = n + Len(fs) BY <1>4, <3>1
    <3>3. i - n = Len(fs) /\ at'[m] = "over" BY <2>1, <3>2 DEF Script
    <3>4. QED BY <1>3, <3>2, <3>3 DEF n
  <2>2. QED BY <2>1
<1>8. \A i, j \in 1..Len(box) : i < j => ~Ending(box[i])
  <2>1. ASSUME NEW i \in 1..Len(box), NEW j \in 1..Len(box), i < j, Ending(box[i]) PROVE FALSE
    <3>1. i = Len(box) BY <1>7, <2>1
    <3>2. QED BY <1>5, <2>1, <3>1
  <2>2. QED BY <2>1
<1>9. NoEnding(box) \/ Over(c)' BY <1>2, <1>7 DEF NoEnding
<1>10. \A k \in 1..(sent[c] - 1) : at'[<<c, k>>] = "over"
  <2>1. ASSUME NEW k \in 1..(sent[c] - 1) PROVE at'[<<c, k>>] = "over"
    <3>1. <<c, k>> # m BY <1>1, <1>3 DEF Last
    <3>2. <<c, k>> \in Turns BY <1>3, LastTurn
    <3>3. QED BY <1>1, <3>1, <3>2, TypedParts DEF Turned
  <2>2. QED BY <2>1
<1>11. QED
  BY <1>1, <1>2, <1>6, <1>8, <1>9, <1>10 DEF Ordered, box

\* A client whose text is in question.
Watched(c) == c \in Clients /\ Alone(c) /\ c \notin escaped

LEMMA MovesOrdered ==
  ASSUME Safe, NEW c, Watched(c), Ordered(c), NEW m \in Turns, Moves(m)
  PROVE  Ordered(c)'
<1> USE DEF Safe
<1>1. /\ daemon # "down" /\ daemon' = daemon /\ at[m] \notin {"none", "over", "lost"}
      /\ view' = view /\ sent' = sent /\ c \in Clients /\ m[1] \in Clients
  BY DEF Moves, Running, clientVars, Watched, Turns
<1>2. PICK fs, R : /\ Deliver(R, fs) /\ Script(m, fs)
                   /\ \A d \in R : d \in Clients /\ conn[d] = "open" /\ home[d] = SessionOf(m)
  BY DEF Moves, Sends
<1>3. inbox'[c] = IF c \in R THEN inbox[c] \o fs ELSE inbox[c] BY <1>1, <1>2 DEF Deliver
<1>4. PICK l \in Labels : at' = [at EXCEPT ![m] = l] /\ l # "none" BY DEF Moves, Labelled
<1>5. at'[m] = l /\ \A n \in Turns \ {m} : at'[n] = at[n] BY <1>4, TypedParts DEF Turned
<1>6. CASE m[1] # c
  <2>1. c \notin R BY <1>1, <1>2, <1>6 DEF Watched, Alone, SessionOf
  <2>2. inbox'[c] = inbox[c] BY <1>3, <2>1
  <2>3. \A k \in 1..sent[c] : <<c, k>> \in Turns /\ <<c, k>> # m BY <1>1, <1>6, LastTurn
  <2>4. QED BY <1>1, <1>5, <2>2, <2>3, OrderKept
<1>7. CASE m[1] = c
  <2>1. m[2] <= sent[c]
    <3>1. ~(m[2] > sent[c]) BY <1>1, <1>7 DEF Posted
    <3>2. m[2] \in Nat /\ sent[c] \in Nat BY <1>1, LastTurn DEF Turns
    <3>3. QED BY <3>1, <3>2
  <2>2. inbox'[c] \in {inbox[c], inbox[c] \o fs} BY <1>3
  <2>3. at' = [at EXCEPT ![m] = at'[m]] /\ at'[m] # "none" BY <1>4, <1>5
  <2>4. QED BY <1>1, <1>2, <1>7, <2>1, <2>2, <2>3, SentInOrder
<1>8. QED BY <1>6, <1>7

LEMMA HandledOrdered ==
  ASSUME Safe, NEW c, Watched(c), Ordered(c),
         NEW p \in post, p.kind # "decision", Handle(p)
  PROVE  Ordered(c)'
<1> USE DEF Safe
<1>1. /\ daemon # "down" /\ daemon' = daemon /\ view' = view /\ sent' = sent /\ c \in Clients
  BY DEF Handle, clientVars, Watched
<1>2. p \in Posts /\ Sound(p) BY TypedParts DEF Heard, Posted
<1>3. CASE HandleMessage(p)
  <2> DEFINE m == p.of
  <2>1. /\ m \in Turns /\ m[2] <= sent[m[1]] /\ at[m] = "none" /\ at' = [at EXCEPT ![m] = "pre"]
        /\ inbox' = inbox
    BY <1>2, <1>3 DEF HandleMessage, Goto, Sound, streamVars
  <2>2. at'[m] = "pre" /\ \A n \in Turns \ {m} : at'[n] = at[n] BY <2>1, TypedParts DEF Turned
  <2>3. CASE m[1] # c
    <3>1. \A k \in 1..sent[c] : <<c, k>> \in Turns /\ <<c, k>> # m BY <1>1, <2>3, LastTurn
    <3>2. QED BY <1>1, <2>1, <2>2, <3>1, OrderKept
  <2>4. CASE m[1] = c
    <3>1. Script(m, <<>>) BY DEF Script
    <3>2. QED BY <1>1, <2>1, <2>2, <2>4, <3>1, SentInOrder
  <2>5. QED BY <2>3, <2>4
<1>4. CASE HandleCancel(p)
  <2>1. p.by \in escaped /\ p.by \in Clients BY <1>2, <1>4 DEF HandleCancel, Sound, Posts
  <2>2. home[c] # home[p.by] BY <2>1 DEF Watched, Alone
  <2>3. home[p.by] \in Sessions BY <2>1, ScenarioTyped DEF Typed
  <2>4. c \notin Published(home[p.by]) BY <1>1, <2>2, <2>3 DEF Published, Members, Grouped
  <2>5. inbox'[c] = inbox[c] /\ at' = at
    BY <1>1, <1>4, <2>4 DEF HandleCancel, publish, Deliver
  <2>6. QED BY <1>1, <2>5, OrderKept
<1>5. CASE HandlePermission(p) \/ HandleClear(p)
  <2>1. inbox' = inbox /\ at' = at BY <1>5 DEF HandlePermission, HandleClear, turnVars, streamVars
  <2>2. QED BY <1>1, <2>1, OrderKept
<1>6. QED BY <1>3, <1>4, <1>5 DEF Handle, HandleDecision

\* The steps of everybody else.
LEMMA OthersOrdered ==
  ASSUME Safe, NEW c, Watched(c), Ordered(c),
         \/ \E id \in Requests : Timeout(id)
         \/ \E d \in Clients : attach(d) \/ Leave(d) \/ ClosedSocket(d)
         \/ \E d \in Clients \ {c} : Types(d)
         \/ Ends
  PROVE  Ordered(c)'
<1> USE DEF Safe
<1>1. c \in Clients BY DEF Watched
<1>2. SUFFICES /\ inbox'[c] \in {inbox[c], <<>>} /\ view'[c] = view[c] /\ sent'[c] = sent[c]
               /\ at' = at /\ (daemon = "down" => daemon' = "down")
  BY <1>1, OrderKept
<1>3. CASE \E id \in Requests : Timeout(id)
  BY <1>3 DEF Timeout, streamVars, clientVars
<1>4. ASSUME NEW d \in Clients, attach(d) \/ Leave(d) \/ ClosedSocket(d)
      PROVE  /\ inbox'[c] \in {inbox[c], <<>>} /\ view'[c] = view[c] /\ sent'[c] = sent[c]
             /\ at' = at /\ (daemon = "down" => daemon' = "down")
  BY <1>1, <1>4, TypedParts DEF attach, Leave, ClosedSocket, turnVars, clientVars, Wired
<1>5. CASE Ends
  BY <1>1, <1>5 DEF Ends, Shutdown, Exit, turnVars, clientVars
<1>6. ASSUME NEW d \in Clients \ {c}, Types(d)
      PROVE  /\ inbox'[c] \in {inbox[c], <<>>} /\ view'[c] = view[c] /\ sent'[c] = sent[c]
             /\ at' = at /\ (daemon = "down" => daemon' = "down")
  <2>1. at' = at /\ daemon' = daemon BY <1>6, ClientKeeps DEF turnVars
  <2>2. inbox \in [Clients -> Seq(Frames)] /\ view \in [Clients -> Views] /\ sent \in [Clients -> Nat]
    BY BoundsAssumption DEF Typed
  <2>3. \A v : Show(d, v) => view'[c] = view[c] BY <1>1, <1>6, <2>2 DEF Show
  <2>4. inbox'[c] = inbox[c] /\ view'[c] = view[c] /\ sent'[c] = sent[c]
    BY <1>1, <1>6, <2>2, <2>3
    DEF Types, Submit, Escape, Clear, Receive, StreamError, AnswerPrompt, Decide, Continue, clientVars
  <2>5. QED BY <2>1, <2>4
<1>7. QED BY <1>3, <1>4, <1>5, <1>6

LEMMA SubmitOrdered ==
  ASSUME Safe, NEW c, Watched(c), Ordered(c), Submit(c) PROVE Ordered(c)'
<1> USE DEF Safe
<1>1. c \in Clients /\ sent[c] \in Nat /\ view[c] \in Views BY LastTurn DEF Watched
<1>2. /\ ~view[c].isSubmitting /\ sent'[c] = sent[c] + 1 /\ view'[c] = submitted(view[c])
      /\ inbox' = inbox /\ at' = at /\ daemon' = daemon
  BY <1>1, ClientKeeps DEF Submit, Show, Typed, turnVars, Types
<1>3. /\ view'[c].isSubmitting /\ ~view'[c].error /\ view'[c].text = {}
      /\ view'[c].answers = view[c].answers
  BY <1>1, <1>2 DEF submitted, Views
<1>4. NoToken(inbox[c]) /\ (daemon = "down" \/ (Over(c) /\ NoEnding(inbox[c])))
  BY <1>2 DEF Ordered
<1>5. daemon = "down" \/ \A k \in 1..(sent'[c] - 1) : at[<<c, k>>] = "over"
  <2>1. ASSUME daemon # "down", NEW k \in 1..sent[c] PROVE at[<<c, k>>] = "over"
    <3>1. \A i \in 1..(sent[c] - 1) : at[<<c, i>>] = "over" BY <2>1 DEF Ordered
    <3>2. CASE k = sent[c] BY <1>1, <1>4, <2>1, <3>2 DEF Over, Last
    <3>3. CASE k # sent[c] BY <1>1, <2>1, <3>1, <3>3
    <3>4. QED BY <3>2, <3>3
  <2>2. sent'[c] - 1 = sent[c] BY <1>1, <1>2
  <2>3. QED BY <2>1, <2>2
<1>6. \A i \in 1..Len(inbox[c]) : inbox[c][i].type # "token" BY <1>4 DEF NoToken
<1>7. \A i, j \in 1..Len(inbox[c]) :
        i < j /\ Ending(inbox[c][i]) => inbox[c][j].type # "token" /\ ~Ending(inbox[c][j])
  BY DEF Ordered
<1>8. NoEnding(inbox[c]) \/ daemon = "down" BY <1>4
<1>9. \A t \in view[c].answers : \E m \in Turns : t \subseteq {m} BY DEF Ordered
<1>10. QED BY <1>2, <1>3, <1>4, <1>5, <1>6, <1>7, <1>8, <1>9 DEF Ordered

\* What a frame does to the parts of a view that are in question.
LEMMA ReducedParts ==
  ASSUME NEW v \in Views, NEW f \in Frames, NEW w, w = reduceFrame(v, f),
         v.error => ~v.isSubmitting
  PROVE  /\ w.error => ~w.isSubmitting
         /\ ~w.isSubmitting => ~v.isSubmitting \/ Ending(f)
         /\ w.text \subseteq v.text \/ (f.type = "token" /\ w.text = v.text \cup {f.of})
         /\ w.answers = v.answers \/ (v.text # {} /\ w.answers = v.answers \cup {v.text})
<1>1. CASE f.type = "phase_change"
  <2>1. w = [v EXCEPT !.phase = f.of,
                      !.completed = withCompletedPreviousPhase(@, v.phase, f.of)]
    BY <1>1 DEF reduceFrame, Cards
  <2>2. w.error = v.error /\ w.isSubmitting = v.isSubmitting /\ w.text = v.text /\ w.answers = v.answers
    BY <2>1 DEF Views
  <2>3. QED BY <2>2
<1>2. CASE f.type = "token"
  <2>1. w = v \/ w = [v EXCEPT !.text = @ \cup {f.of}] BY <1>2 DEF reduceFrame, Cards
  <2>2. QED BY <1>2, <2>1 DEF Views
<1>3. CASE f.type = "done"
  <2>1. CASE v.error BY <1>3, <2>1 DEF reduceFrame, Cards
  <2>2. CASE ~v.error
    <3>1. w = finalizeAssistantTurn(v) BY <1>3, <2>2 DEF reduceFrame, Cards
    <3>2. /\ w.error = v.error /\ ~w.isSubmitting /\ w.text = {}
          /\ w.answers = IF v.text = {} THEN v.answers ELSE v.answers \cup {v.text}
      BY <3>1 DEF finalizeAssistantTurn, Views
    <3>3. QED BY <1>3, <2>2, <3>2 DEF Ending
  <2>3. QED BY <2>1, <2>2
<1>4. CASE f.type = "error"
  <2>1. w = Failed(v) BY <1>4 DEF reduceFrame, Cards
  <2>2. ~w.isSubmitting /\ w.text = {} /\ w.answers = v.answers BY <2>1 DEF Failed, Views
  <2>3. QED BY <1>4, <2>2 DEF Ending
<1>5. CASE f.type = "permission_request"
  <2>1. w = Prompted(v, f.of) BY <1>5 DEF reduceFrame, Cards
  <2>2. QED BY <2>1 DEF Prompted, Views
<1>6. CASE f.type \in {"plan_ready", "validate_result", "checkpoint"}
  <2>1. w = Reported(v, f) BY <1>6 DEF reduceFrame, Cards
  <2>2. QED BY <2>1 DEF Reported, Views
<1>7. QED BY <1>1, <1>2, <1>3, <1>4, <1>5, <1>6 DEF Frames, FrameTypes

LEMMA ReceiveOrdered ==
  ASSUME Safe, NEW c, Watched(c), Ordered(c), Receive(c) PROVE Ordered(c)'
<1> USE DEF Safe
<1> DEFINE box == inbox[c]
           rest == inbox'[c]
           f == Head(inbox[c])
<1>1. c \in Clients /\ sent[c] \in Nat /\ view[c] \in Views /\ box \in Seq(Frames) /\ box # <<>>
  BY LastTurn DEF Watched, Receive
<1>2. /\ rest = Tail(box) /\ view'[c] = reduceFrame(view[c], f)
      /\ sent' = sent /\ at' = at /\ daemon' = daemon
  BY <1>1, ClientKeeps DEF Receive, Show, Typed, turnVars, Types
<1>3. /\ Len(box) \in Nat \ {0} /\ Len(rest) = Len(box) - 1 /\ f = box[1] /\ f \in Frames
      /\ \A i \in 1..Len(rest) : rest[i] = box[i + 1] /\ i + 1 \in 1..Len(box)
  BY <1>1, <1>2
<1>4. /\ view'[c].error => ~view'[c].isSubmitting
      /\ ~view'[c].isSubmitting => ~view[c].isSubmitting \/ Ending(f)
      /\ \/ view'[c].text \subseteq view[c].text
         \/ f.type = "token" /\ view'[c].text = view[c].text \cup {f.of}
      /\ \/ view'[c].answers = view[c].answers
         \/ view[c].text # {} /\ view'[c].answers = view[c].answers \cup {view[c].text}
  <2>1. view[c].error => ~view[c].isSubmitting BY DEF Ordered
  <2>2. f \in Frames /\ view[c] \in Views /\ view'[c] = reduceFrame(view[c], f) BY <1>1, <1>2, <1>3
  <2> HIDE DEF f
  <2>3. QED BY <2>1, <2>2, ReducedParts
<1>5. Last(c)' = Last(c) /\ (Over(c)' <=> Over(c)) BY <1>2 DEF Last, Over
<1>6. /\ NoToken(box) => NoToken(rest)
      /\ NoEnding(box) => NoEnding(rest)
  BY <1>3 DEF NoToken, NoEnding
<1>7. /\ \A i \in 1..Len(box) : box[i].type = "token" => box[i].of = Last(c) /\ at[Last(c)] # "none"
      /\ \A i, j \in 1..Len(box) :
           i < j /\ Ending(box[i]) => box[j].type # "token" /\ ~Ending(box[j])
      /\ NoEnding(box) \/ daemon = "down" \/ Over(c)
  BY DEF Ordered
<1> HIDE DEF box, rest, f
<1>8. /\ \A i \in 1..Len(rest) : rest[i].type = "token" => rest[i].of = Last(c) /\ at[Last(c)] # "none"
      /\ \A i, j \in 1..Len(rest) :
           i < j /\ Ending(rest[i]) => rest[j].type # "token" /\ ~Ending(rest[j])
      /\ NoEnding(rest) \/ daemon = "down" \/ Over(c)
  <2>1. \A i \in 1..Len(rest) : rest[i].type = "token" => rest[i].of = Last(c) /\ at[Last(c)] # "none"
    BY <1>3, <1>7
  <2>2. \A i, j \in 1..Len(rest) :
          i < j /\ Ending(rest[i]) => rest[j].type # "token" /\ ~Ending(rest[j])
    <3>1. ASSUME NEW i \in 1..Len(rest), NEW j \in 1..Len(rest), i < j, Ending(rest[i])
          PROVE  rest[j].type # "token" /\ ~Ending(rest[j])
      <4>1. i + 1 \in 1..Len(box) /\ j + 1 \in 1..Len(box) /\ i + 1 < j + 1 BY <1>3, <3>1
      <4>2. rest[i] = box[i + 1] /\ rest[j] = box[j + 1] BY <1>3
      <4>3. QED BY <1>7, <3>1, <4>1, <4>2
    <3>2. QED BY <3>1
  <2>3. QED BY <1>6, <1>7, <2>1, <2>2
<1>9. ~view'[c].isSubmitting => NoToken(rest) /\ (daemon = "down" \/ (Over(c) /\ NoEnding(rest)))
  <2>1. CASE ~view[c].isSubmitting
    <3>1. NoToken(box) /\ (daemon = "down" \/ (Over(c) /\ NoEnding(box)))
      BY <2>1 DEF Ordered, box
    <3>2. QED BY <1>6, <3>1
  <2>2. CASE Ending(f)
    <3>1. 1 \in 1..Len(box) /\ \A i \in 1..Len(rest) : 1 < i + 1 BY <1>3
    <3>2. \A i \in 1..Len(rest) : rest[i].type # "token" /\ ~Ending(rest[i])
      BY <1>3, <1>7, <2>2, <3>1
    <3>3. NoToken(rest) /\ NoEnding(rest) BY <3>2 DEF NoToken, NoEnding
    <3>4. ~NoEnding(box) BY <1>3, <2>2, <3>1 DEF NoEnding
    <3>5. QED BY <1>7, <3>3, <3>4
  <2>3. QED BY <1>4, <2>1, <2>2
<1>10. view'[c].text \subseteq {Last(c)}
  <2>1. view[c].text \subseteq {Last(c)} BY DEF Ordered
  <2>2. f.type = "token" => f.of = Last(c) BY <1>3, <1>7
  <2>3. QED BY <1>4, <2>1, <2>2
<1>11. \A t \in view'[c].answers : \E m \in Turns : t \subseteq {m}
  <2>1. \A t \in view[c].answers : \E m \in Turns : t \subseteq {m} BY DEF Ordered
  <2>2. view[c].text # {} => \E m \in Turns : view[c].text \subseteq {m}
    <3>1. view[c].text \subseteq Turns /\ view[c].text \subseteq {Last(c)} BY <1>1 DEF Ordered, Views
    <3>2. view[c].text # {} => Last(c) \in Turns BY <3>1
    <3>3. QED BY <3>1, <3>2
  <2>3. QED BY <1>4, <2>1, <2>2
<1>12. \/ \A k \in 1..(sent[c] - 1) : at[<<c, k>>] = "over"
       \/ daemon = "down" /\ NoToken(rest)
  BY <1>6 DEF Ordered, box
<1>13. QED BY <1>2, <1>4, <1>5, <1>8, <1>9, <1>10, <1>11, <1>12 DEF Ordered, rest

\* The stream breaks off or a message fails, and the daemon is down: what might
\* still be read has no text.
LEMMA BrokenOrdered ==
  ASSUME Safe, NEW c, Watched(c), Ordered(c), daemon = "down", NoToken(inbox[c]),
         view'[c] = submit_error(view[c]), inbox'[c] = inbox[c],
         sent' = sent, at' = at, daemon' = daemon
  PROVE  Ordered(c)'
<1> USE DEF Safe
<1>1. c \in Clients /\ view[c] \in Views BY LastTurn DEF Watched
<1>2. /\ ~view'[c].isSubmitting /\ view'[c].text = view[c].text
      /\ view'[c].answers = view[c].answers
  BY <1>1 DEF submit_error, Views
<1>3. Last(c)' = Last(c) BY DEF Last
<1>4. QED BY <1>2, <1>3 DEF Ordered, NoToken

LEMMA ContinueOrdered ==
  ASSUME Safe, NEW c, Watched(c), Ordered(c), NEW p \in post, p.by = c, Continue(p)
  PROVE  Ordered(c)'
<1> USE DEF Safe
<1>1. c \in Clients /\ sent[c] \in Nat /\ view[c] \in Views BY LastTurn DEF Watched
<1>2. /\ inbox' = inbox /\ sent' = sent /\ at' = at /\ daemon' = daemon
      /\ p.state # "sent" \/ daemon = "down"
  BY ClientKeeps DEF Continue, turnVars, Types
<1>3. Last(c)' = Last(c) /\ (Over(c)' <=> Over(c)) BY <1>2 DEF Last, Over
<1>4. CASE view'[c] = submit_error(view[c]) /\ p.kind = "message"
  <2>1. /\ p.of \in Turns /\ p.of[1] = c /\ p.of[2] <= sent[c] /\ at[p.of] = "none"
        /\ daemon = "down"
    BY <1>2, <1>4 DEF Posted, Sound
  <2>2. p.of = <<c, p.of[2]>> /\ p.of[2] \in Nat \ {0} BY <2>1 DEF Turns
  <2>3. NoToken(inbox[c])
    <3>1. CASE p.of[2] = sent[c]
      <4>1. p.of = Last(c) BY <2>2, <3>1 DEF Last
      <4>2. QED BY <2>1, <4>1 DEF Ordered, NoToken
    <3>2. CASE p.of[2] # sent[c]
      <4>1. p.of[2] \in 1..(sent[c] - 1) BY <1>1, <2>1, <2>2, <3>2
      <4>2. ~(\A k \in 1..(sent[c] - 1) : at[<<c, k>>] = "over") BY <2>1, <2>2, <4>1
      <4>3. QED BY <4>2 DEF Ordered
    <3>3. QED BY <3>1, <3>2
  <2>4. QED BY <1>2, <1>4, <2>1, <2>3, BrokenOrdered
<1>5. CASE view'[c] = clear_transcript(view[c])
  <2>1. /\ view'[c].isSubmitting = view[c].isSubmitting /\ view'[c].text = {}
        /\ view'[c].answers = {} /\ ~view'[c].error
    BY <1>1, <1>5 DEF clear_transcript, Views
  <2>2. QED BY <1>2, <1>3, <2>1 DEF Ordered
<1>6. CASE \/ view'[c] = permission_resolved(view[c], p.of)
           \/ view'[c] = view[c]
  <2>1. /\ view'[c].isSubmitting = view[c].isSubmitting /\ view'[c].text = view[c].text
        /\ view'[c].answers = view[c].answers /\ view'[c].error = view[c].error
    BY <1>1, <1>6 DEF permission_resolved, Views
  <2>2. QED BY <1>2, <1>3, <2>1 DEF Ordered
<1>7. QED
  <2>1. \A v : Show(c, v) => view'[c] = v BY <1>1 DEF Show, Typed
  <2>2. QED BY <1>4, <1>5, <1>6, <2>1 DEF Continue

LEMMA OwnOrdered ==
  ASSUME Safe, Emptied, NEW c, Watched(c), Watched(c)', Ordered(c), Types(c) PROVE Ordered(c)'
<1> USE DEF Safe
<1>1. c \in Clients /\ at' = at /\ daemon' = daemon /\ view \in [Clients -> Views]
  BY ClientKeeps DEF Watched, turnVars, Typed
<1>2. CASE Escape(c)
  <2>1. c \in escaped' BY <1>2 DEF Escape
  <2>2. QED BY <2>1 DEF Watched
<1>3. CASE \/ Clear(c)
           \/ \E approved \in BOOLEAN :
                AnswerPrompt(c, approved) \/ \E m \in Turns : Decide(c, m, approved)
  <2>1. UNCHANGED <<inbox, view, sent>> BY <1>3 DEF Clear, AnswerPrompt, Decide, clientVars
  <2>2. QED BY <1>1, <2>1, OrderKept
<1>4. CASE StreamError(c)
  <2>1. /\ daemon = "down" /\ conn[c] \in {"off", "open"} /\ inbox' = inbox /\ sent' = sent
        /\ view'[c] = submit_error(view[c])
    BY <1>1, <1>4 DEF StreamError, Show
  <2>2. NoToken(inbox[c]) BY <1>1, <2>1 DEF Emptied, NoToken
  <2>3. QED BY <1>1, <2>1, <2>2, BrokenOrdered
<1>5. QED
  BY <1>2, <1>3, <1>4, SubmitOrdered, ReceiveOrdered, ContinueOrdered DEF Types

\* Frames go to open streams only.
LEMMA StepEmptied ==
  ASSUME Safe, Emptied, [Next]_vars PROVE Emptied'
<1> USE DEF Safe
<1>1. ASSUME daemon' = daemon, conn' = conn,
             \A c \in Clients : inbox'[c] = inbox[c] \/ (daemon # "down" /\ conn[c] = "open")
      PROVE  Emptied'
  BY <1>1 DEF Emptied
<1>2. ASSUME UNCHANGED <<daemon, conn, inbox>> PROVE Emptied'
  BY <1>2 DEF Emptied
<1>3. ASSUME NEW m \in Turns, Moves(m) PROVE Emptied'
  <2>1. PICK fs, R : Deliver(R, fs) /\ \A c \in R : conn[c] = "open" BY <1>3 DEF Moves, Sends
  <2>2. \A c \in Clients : inbox'[c] = inbox[c] \/ conn[c] = "open" BY <2>1 DEF Deliver
  <2>3. QED BY <1>1, <1>3, <2>2 DEF Moves, Running
<1>4. ASSUME NEW p \in post, p.kind # "decision", Handle(p) PROVE Emptied'
  <2>1. CASE HandleCancel(p)
    <3>1. \A c \in Clients : inbox'[c] = inbox[c] \/ conn[c] = "open"
      BY <2>1 DEF HandleCancel, publish, Deliver, Published
    <3>2. conn' = conn /\ daemon' = daemon /\ daemon # "down"
      BY <1>4, <2>1 DEF Handle, HandleCancel, publish
    <3>3. QED BY <1>1, <3>1, <3>2
  <2>2. CASE ~HandleCancel(p)
    <3>1. UNCHANGED <<daemon, conn, inbox>>
      BY <1>4, <2>2
      DEF Handle, HandleMessage, HandlePermission, HandleDecision, HandleClear, streamVars
    <3>2. QED BY <1>2, <3>1
  <2>3. QED BY <2>1, <2>2
<1>5. ASSUME NEW id \in Requests, Timeout(id) PROVE Emptied'
  BY <1>2, <1>5 DEF Timeout, streamVars
<1>6. ASSUME NEW c \in Clients, attach(c) \/ Leave(c) \/ ClosedSocket(c) PROVE Emptied'
  BY <1>6, TypedParts DEF attach, Leave, ClosedSocket, Emptied, Wired
<1>7. ASSUME NEW c \in Clients, Types(c) PROVE Emptied'
  <2>1. daemon' = daemon BY <1>7, ClientKeeps
  <2>2. CASE Receive(c)
    <3>1. conn' = conn /\ inbox' = [inbox EXCEPT ![c] = Tail(@)] /\ inbox[c] # <<>>
      BY <2>2 DEF Receive
    <3>2. \A d \in Clients \ {c} : inbox'[d] = inbox[d] BY <3>1, TypedParts DEF Wired
    <3>3. QED BY <2>1, <3>1, <3>2 DEF Emptied
  <2>3. CASE StreamError(c)
    <3>1. conn' = [conn EXCEPT ![c] = "broken"] /\ inbox' = inbox BY <2>3 DEF StreamError
    <3>2. conn'[c] = "broken" /\ \A d \in Clients \ {c} : conn'[d] = conn[d]
      BY <3>1, TypedParts DEF Wired
    <3>3. QED BY <2>1, <3>1, <3>2 DEF Emptied
  <2>4. CASE ~Receive(c) /\ ~StreamError(c)
    <3>1. conn' = conn /\ inbox' = inbox
      BY <1>7, <2>4 DEF Types, Submit, Escape, Clear, AnswerPrompt, Decide, Continue
    <3>2. QED BY <1>2, <2>1, <3>1
  <2>5. QED BY <2>2, <2>3, <2>4
<1>8. ASSUME Ends PROVE Emptied'
  BY <1>8, TypedParts DEF Ends, Shutdown, Exit, Emptied, Wired
<1>9. CASE UNCHANGED vars BY <1>2, <1>9 DEF vars, streamVars
<1>10. ASSUME UNCHANGED <<scenario, daemon, turnVars, streamVars, clientVars, yes>> PROVE Emptied'
  BY <1>2, <1>10 DEF streamVars
<1>11. QED BY <1>3, <1>4, <1>5, <1>6, <1>7, <1>8, <1>9, <1>10, StepKinds

LEMMA StepOrdered ==
  ASSUME Safe, Emptied, InOrder, [Next]_vars PROVE InOrder'
<1> USE DEF Safe
<1>1. SUFFICES ASSUME NEW c, Watched(c)' PROVE Ordered(c)' BY DEF InOrder, Watched
<1>2. scenario' = scenario /\ escaped \subseteq escaped'
  <2>1. ASSUME NEW d, Types(d) PROVE scenario' = scenario /\ escaped \subseteq escaped'
    BY <2>1, ClientKeeps
    DEF Types, Submit, Escape, Clear, Receive, StreamError, AnswerPrompt, Decide, Continue, clientVars
  <2>2. CASE UNCHANGED vars BY <2>2 DEF vars, clientVars
  <2>3. QED
    BY <2>1, <2>2, StepKinds
    DEF Moves, Handle, Timeout, attach, Leave, ClosedSocket, Ends, Shutdown, Exit, clientVars
<1>3. Watched(c) BY <1>1, <1>2 DEF Watched, Alone, home
<1>4. c \in Clients /\ Ordered(c) BY <1>3 DEF InOrder, Watched
<1>5. ASSUME UNCHANGED <<scenario, daemon, turnVars, streamVars, clientVars, yes>> PROVE Ordered(c)'
  <2>1. UNCHANGED <<inbox, view, sent, at, daemon>> BY <1>5 DEF turnVars, streamVars, clientVars
  <2>2. QED BY <1>4, <2>1, OrderKept
<1>6. CASE UNCHANGED vars BY <1>5, <1>6 DEF vars
<1>7. QED
  BY <1>1, <1>3, <1>4, <1>5, <1>6, StepKinds, MovesOrdered, HandledOrdered, OthersOrdered, OwnOrdered

LEMMA InitOrdered == Init => Emptied /\ InOrder
<1> SUFFICES ASSUME Init PROVE Emptied /\ InOrder OBVIOUS
<1>1. Emptied BY DEF Init, Emptied
<1>2. ASSUME NEW c \in Clients PROVE Ordered(c)
  <2>1. inbox[c] = <<>> /\ Len(inbox[c]) = 0 /\ sent[c] = 0 /\ view[c] = initialREPLViewState BY DEF Init
  <2>2. /\ ~view[c].isSubmitting /\ ~view[c].error /\ view[c].text = {} /\ view[c].answers = {}
    BY <2>1 DEF initialREPLViewState
  <2>3. NoToken(inbox[c]) /\ NoEnding(inbox[c]) /\ Over(c) BY <2>1 DEF NoToken, NoEnding, Over
  <2>4. \A k \in 1..(sent[c] - 1) : at[<<c, k>>] = "over" BY <2>1
  <2>5. QED BY <2>1, <2>2, <2>3, <2>4 DEF Ordered
<1>3. QED BY <1>1, <1>2 DEF InOrder

\* A terminal nobody interferes with has at most the frames of its last turn
\* before it, and gets its input back with the last of them.
THEOREM Orderly == Spec => []InOrder
<1>1. Safe /\ Emptied /\ InOrder /\ [Next]_vars => (Emptied /\ InOrder)'
  BY StepEmptied, StepOrdered
<1>2. QED BY <1>1, InitOrdered, Safely, PTL DEF Spec

\* The text a terminal shows, or keeps as an answer, comes from one turn, when
\* no other terminal posts to the session and Escape was not pressed.
THEOREM OneTurnPerAnswerHolds == Spec => []OneTurnPerAnswer
<1>1. ASSUME NEW t, NEW m, t \subseteq {m} PROVE Cardinality(t) <= 1
  <2>1. IsFiniteSet({m}) /\ Cardinality({m}) = 1 BY FS_Singleton
  <2>2. QED BY <1>1, <2>1, FS_Subset
<1>2. InOrder => OneTurnPerAnswer
  BY <1>1 DEF InOrder, Ordered, OneTurnPerAnswer
<1>3. QED BY <1>2, Orderly, PTL
=============================================================================
