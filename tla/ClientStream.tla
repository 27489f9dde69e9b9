---------------------------- MODULE ClientStream ----------------------------
(***************************************************************************)
(* What passes between a daemon and the terminals of its sessions: posted    *)
(* messages, cancels, decisions and permission answers one way, the frames   *)
(* of the stream the other.  It composes stream-controller.ts,               *)
(* permission-gate.ts and the shutdown of index.ts with the client's side,   *)
(* client.ts, REPL.tsx, PermissionRequest.tsx, use-daemon-stream.ts and the  *)
(* reducer (ReplState).                                                      *)
(*                                                                         *)
(* The turns are those of Conversation (chat) and PIVEngine (piv) with only  *)
(* what a client can tell: which frames, in which order, and the gate.  A    *)
(* turn is <<client, k>>, the k-th message of a client; a permission request *)
(* is <<turn, k>>.  POSTs travel on connections of their own and may pass    *)
(* each other; the frames of one stream keep their order.                    *)
(***************************************************************************)
EXTENDS ReplState, FiniteSetsExt

CONSTANTS
  Clients,
  Sessions,
  MaxPosts,   \* bound: messages of a client
  MaxAsks,    \* bound: permission requests of a turn
  MaxRetries, \* the engine's retry budget
  Scenarios   \* bound: what the behaviours start from; a scenario has the mode of
              \* each session (spent: piv, and its task done), the clients there
              \* are, the home and the messages of each, the requests of a turn,
              \* and which disturbances happen

Turns    == Clients \X (1..MaxPosts)
Requests == Turns \X (1..MaxAsks)
Disturbances == {"escape", "clear", "leave", "stop"}

ASSUME ClientsAssumption == IsFiniteSet(Clients)
ASSUME BoundsAssumption  == MaxPosts \in Nat /\ MaxAsks \in Nat /\ MaxRetries \in Nat
ASSUME ScenariosAssumption ==
  Scenarios \subseteq [mode : [Sessions -> {"chat", "piv", "spent"}], who : SUBSET Clients, home : [Clients -> Sessions],
                       posts : [Clients -> 0..MaxPosts], asks : 0..MaxAsks,
                       may : SUBSET Disturbances]

VARIABLES
  scenario,
  daemon,            \* "up", "closing" after closeAll, "down"
  at,                \* per turn: where it is suspended
  current, aborted,  \* #abortController: the turn it would abort; the aborted turns
  asked, verdict,    \* per turn: requests made; what its latest resolved to
  retries,           \* per turn: #retryCount
  engine,            \* per session: its piv engine has left idle
  pending,           \* #pending of the gate
  conn,              \* per client: its stream
  table, group,      \* #socketsBySession: the number of a session's Set; the Set a socket joined
  inbox,             \* per client: frames on their way
  view, sent,        \* per client: ReplState's view, messages submitted
  resolvedRef,       \* clients whose mounted prompt has been answered
  post,              \* POSTs sent and not answered, and answers not seen
  yes, escaped,      \* history: requests some client said y to; clients that pressed Escape
  early              \* history: turns submitted before the stream was open

turnVars   == <<at, current, aborted, asked, verdict, retries, engine, pending>>
streamVars == <<conn, table, group, inbox>>
clientVars == <<view, sent, resolvedRef, escaped, early>>
vars == <<scenario, daemon, turnVars, streamVars, clientVars, post, yes>>

ChatLabels == {"pre", "work", "spoken", "closing"}
PIVLabels  == {"started", "planning", "awaiting", "implementing", "applying", "validating"}
Ended      == {"over", "lost"}
Labels     == {"none", "gate"} \cup ChatLabels \cup PIVLabels \cup Ended

Init ==
  /\ scenario \in Scenarios
  /\ daemon = "up"
  /\ at = [m \in Turns |-> "none"]
  /\ current = None /\ aborted = {}
  /\ asked = [m \in Turns |-> 0] /\ verdict = [m \in Turns |-> "open"]
  /\ retries = [m \in Turns |-> 0]
  /\ engine = [s \in Sessions |-> scenario.mode[s] = "spent"]
  /\ pending = {}
  /\ conn = [c \in Clients |-> IF c \in scenario.who THEN "off" ELSE "left"]
  /\ table = [s \in Sessions |-> 0] /\ group = [c \in Clients |-> 0]
  /\ inbox = [c \in Clients |-> <<>>]
  /\ view = [c \in Clients |-> initialREPLViewState]
  /\ sent = [c \in Clients |-> 0]
  /\ resolvedRef = {}
  /\ post = {}
  /\ yes = {} /\ escaped = {} /\ early = {}

mode == scenario.mode
home == scenario.home

SessionOf(m) == home[m[1]]
Latest(m) == <<m, asked[m]>>

-----------------------------------------------------------------------------
(* StreamController *)

\* The sockets of a Set.
Members(g) == {c \in Clients : g # 0 /\ group[c] = g}

\* publish reaches the Set in the table, an engine's event every subscriber;
\* what is sent to a closed socket is lost.
Published(s) == {c \in Members(table[s]) : conn[c] = "open"}
Subscribed(s) == {c \in Clients : home[c] = s /\ group[c] # 0 /\ conn[c] = "open"}

Deliver(clients, frames) ==
  inbox' = [c \in Clients |-> IF c \in clients THEN inbox[c] \o frames ELSE inbox[c]]

Frame(type, of) == [type |-> type, of |-> of]
Done  == Frame("done", None)
Error == Frame("error", None)
Phase(p) == Frame("phase_change", p)

publish(s, frames) == Deliver(Published(s), frames) /\ UNCHANGED <<conn, table, group>>
emit(s, frames)    == Deliver(Subscribed(s), frames) /\ UNCHANGED <<conn, table, group>>

\* A stream or socket opens; the engine must be live, which every home is here.
attach(c) ==
  /\ daemon # "down"
  /\ conn[c] = "off"
  /\ conn' = [conn EXCEPT ![c] = "open"]
  /\ LET s == home[c]
         g == IF table[s] # 0 THEN table[s] ELSE 1 + Max({group[d] : d \in Clients} \cup {table[t] : t \in Sessions})
     IN table' = [table EXCEPT ![s] = g] /\ group' = [group EXCEPT ![c] = g]
  /\ UNCHANGED <<scenario, daemon, turnVars, inbox, clientVars, post, yes>>

\* Mutant: the session's entry goes with any of its sockets.
DetachAll(c) ==
  /\ group' = [group EXCEPT ![c] = 0]
  /\ table' = [table EXCEPT ![home[c]] = 0]

\* The function attach returned: it knows the Set of its attach, and clears the
\* entry of the session if that Set is empty, whichever Set the entry holds.
detach(c) ==
  /\ group' = [group EXCEPT ![c] = 0]
  /\ table' = IF Members(group[c]) = {c} THEN [table EXCEPT ![home[c]] = 0] ELSE table

\* The terminal is closed; its stream's cancel, or its websocket's close, runs.
Leave(c) ==
  /\ "leave" \in scenario.may
  /\ conn[c] = "open" /\ daemon # "down"
  /\ conn' = [conn EXCEPT ![c] = "left"]
  /\ inbox' = [inbox EXCEPT ![c] = <<>>]
  /\ detach(c)
  /\ UNCHANGED <<scenario, daemon, turnVars, clientVars, post, yes>>

\* A websocket closed by closeAll reports its close; a stream does not.
ClosedSocket(c) ==
  /\ conn[c] = "shut" /\ daemon # "down" /\ group[c] # 0
  /\ detach(c)
  /\ UNCHANGED <<scenario, daemon, turnVars, conn, inbox, clientVars, post, yes>>

-----------------------------------------------------------------------------
(* PermissionGate *)

\* Mutant: whoever is still waiting at the end is let through.
SettleAll(ids) ==
  /\ pending' = pending \ ids
  /\ verdict' = [m \in Turns |-> IF Latest(m) \in ids \cap pending THEN "granted" ELSE verdict[m]]

\* The promises of some pending requests resolve to FALSE.
Refuse(ids) ==
  /\ pending' = pending \ ids
  /\ verdict' = [m \in Turns |-> IF Latest(m) \in ids \cap pending THEN "refused" ELSE verdict[m]]

\* requestPermission: pending, then published.
requestPermission(m) ==
  /\ asked[m] < scenario.asks
  /\ asked' = [asked EXCEPT ![m] = @ + 1]
  /\ verdict' = [verdict EXCEPT ![m] = "open"]
  /\ pending' = pending \cup {<<m, asked[m] + 1>>}
  /\ publish(SessionOf(m), <<Frame("permission_request", <<m, asked[m] + 1>>)>>)

\* Mutant: the request is forgotten with its promise.
TimeoutForgets(id) ==
  /\ daemon # "down"
  /\ id \in pending
  /\ pending' = pending \ {id}
  /\ UNCHANGED <<scenario, daemon, at, current, aborted, asked, verdict, retries, engine,
                 streamVars, clientVars, post, yes>>

\* The timer of a request fires.
Timeout(id) ==
  /\ daemon # "down"
  /\ id \in pending
  /\ Refuse({id})
  /\ UNCHANGED <<scenario, daemon, at, current, aborted, asked, retries, engine,
                 streamVars, clientVars, post, yes>>

-----------------------------------------------------------------------------
(* Turns: what addMessage and startTask do after the message arrived.        *)

Goto(m, label) == at' = [at EXCEPT ![m] = label]

\* A step of turn m that leaves everything but its label and the stream alone.
Step(m, from, to) ==
  /\ daemon # "down"
  /\ at[m] = from
  /\ Goto(m, to)
  /\ UNCHANGED <<scenario, daemon, current, aborted, clientVars, post, yes>>

Quiet == UNCHANGED <<asked, verdict, retries, engine, pending>>

IsChat(m) == mode[SessionOf(m)] = "chat"

\* The user message is stored, or something before the loop throws, which only
\* the log hears of.
Stored(m) ==
  /\ IsChat(m)
  /\ Quiet
  /\ \/ /\ Step(m, "pre", "work")
        /\ publish(SessionOf(m), <<Phase("requesting"), Phase("thinking")>>)
     \/ Step(m, "pre", "lost") /\ UNCHANGED streamVars

\* The model streams its text.
Answer(m) ==
  /\ m \notin aborted
  /\ Quiet
  /\ Step(m, "work", "spoken")
  /\ publish(SessionOf(m), <<Frame("token", m)>>)

\* It asks for an MCP tool, with text or without; calls without a prompt are
\* not represented.
UseTool(m) ==
  /\ m \notin aborted
  /\ IsChat(m)
  /\ \E from \in {"work", "spoken"} : Step(m, from, "gate")
  /\ requestPermission(m)
  /\ UNCHANGED <<retries, engine>>

\* The gate has answered: the tool runs if it was granted.
PassGate(m) ==
  /\ IsChat(m)
  /\ verdict[m] # "open"
  /\ Quiet
  /\ Step(m, "gate", "work")
  /\ UNCHANGED streamVars

\* The answer is to be stored and followed up; nobody looks at the signal again.
Close(m) ==
  /\ m \notin aborted
  /\ Quiet
  /\ \E from \in {"work", "spoken"} : Step(m, from, "closing")
  /\ UNCHANGED streamVars

\* Mutant: the rest of the text is flushed after done.
FinishThenFlush(m) ==
  /\ Quiet
  /\ \/ Step(m, "closing", "over")
     \/ m \notin aborted /\ IsChat(m) /\ Step(m, "work", "over")
  /\ publish(SessionOf(m), <<Done, Frame("token", m)>>)

\* done after the answer, or after the last turn of a loop not aborted.
Finish(m) ==
  /\ Quiet
  /\ \/ Step(m, "closing", "over")
     \/ m \notin aborted /\ IsChat(m) /\ Step(m, "work", "over")
  /\ publish(SessionOf(m), <<Done>>)

\* The loop finds itself aborted, or anything it awaits throws.
Quit(m) ==
  /\ IsChat(m)
  /\ Quiet
  /\ \/ /\ m \in aborted
        /\ \E from \in {"work", "spoken", "closing"} : Step(m, from, "over")
        /\ UNCHANGED streamVars
     \/ /\ m \notin aborted
        /\ \E from \in {"work", "spoken", "closing"} : Step(m, from, "over")
        /\ publish(SessionOf(m), <<Error>>)

-----------------------------------------------------------------------------
(* The PIV engine, of one task in its life.                                 *)

\* The task begins, or the session has had one.
BeginTask(m) ==
  /\ ~IsChat(m)
  /\ UNCHANGED <<asked, verdict, retries, pending>>
  /\ IF engine[SessionOf(m)]
       THEN Step(m, "pre", "lost") /\ UNCHANGED <<engine, streamVars>>
       ELSE /\ Step(m, "pre", "planning")
            /\ engine' = [engine EXCEPT ![SessionOf(m)] = TRUE]
            /\ emit(SessionOf(m), <<Phase("planning")>>)

\* The plan is streamed and waits for a decision.
OfferPlan(m) ==
  /\ Quiet
  /\ Step(m, "planning", "awaiting")
  /\ emit(SessionOf(m), <<Frame("token", m), Frame("plan_ready", m)>>)

\* #consumeRetry: another round of the phase, or the end of the task.
Again(m, from, phase, before) ==
  /\ retries' = [retries EXCEPT ![m] = @ + 1]
  /\ IF retries[m] + 1 > MaxRetries
       THEN Step(m, from, "over") /\ emit(SessionOf(m), before \o <<Error>>)
       ELSE Step(m, from, phase)  /\ emit(SessionOf(m), before \o <<Phase(phase)>>)

\* A diff asks for approval; without one the turn goes on to apply.
Propose(m) ==
  /\ UNCHANGED <<retries, engine>>
  /\ \/ /\ Step(m, "implementing", "gate")
        /\ requestPermission(m)
     \/ /\ Step(m, "implementing", "applying")
        /\ UNCHANGED <<asked, verdict, pending, streamVars>>

DiffDecided(m) ==
  /\ ~IsChat(m)
  /\ UNCHANGED <<asked, verdict, engine, pending>>
  /\ \/ /\ verdict[m] = "granted"
        /\ Step(m, "gate", "applying") /\ UNCHANGED <<retries, streamVars>>
     \/ verdict[m] = "refused" /\ Again(m, "gate", "implementing", <<>>)

\* The diff applies or is refused.
Apply(m) ==
  /\ UNCHANGED <<asked, verdict, engine, pending>>
  /\ \/ /\ Step(m, "applying", "validating")
        /\ UNCHANGED retries /\ emit(SessionOf(m), <<Phase("validating")>>)
     \/ Again(m, "applying", "implementing", <<>>)

Validate(m) ==
  /\ UNCHANGED <<asked, verdict, engine, pending>>
  /\ \/ /\ Step(m, "validating", "over")
        /\ UNCHANGED retries
        /\ emit(SessionOf(m), <<Frame("validate_result", "passed"), Frame("checkpoint", m), Done>>)
     \/ Again(m, "validating", "implementing", <<Frame("validate_result", "failed")>>)

\* Anything awaited rejects.
FailTask(m) ==
  /\ Quiet
  /\ \E from \in {"planning", "implementing", "applying", "validating"} : Step(m, from, "over")
  /\ emit(SessionOf(m), <<Error>>)

Turn(m) ==
  \/ Stored(m) \/ Answer(m) \/ UseTool(m) \/ PassGate(m) \/ Close(m) \/ Finish(m) \/ Quit(m)
  \/ BeginTask(m) \/ OfferPlan(m) \/ Propose(m) \/ DiffDecided(m) \/ Apply(m) \/ Validate(m)
  \/ FailTask(m)

-----------------------------------------------------------------------------
(* POSTs at the daemon. *)

Post(kind, c, of, approved) ==
  [kind |-> kind, by |-> c, of |-> of, approved |-> approved, state |-> "sent"]

\* The request is answered; the client's promise resolves or rejects.
Answered(p, state) == post' = (post \ {p}) \cup {[p EXCEPT !.state = state]}

\* To the answer of any other POST the client does nothing.
Forgotten(p) == post' = post \ {p}

AtWork == {m \in Turns : at[m] \in {"work", "spoken", "closing"} \/ at[m] = "pre" \/ (at[m] = "gate" /\ IsChat(m))}
Abort  == aborted' = aborted \cup ({current} \cap AtWork)

\* POST messages: addMessage aborts whatever turn is at work and becomes the one
\* to abort; a piv session is asked to start a task.
HandleMessage(p) ==
  /\ p.kind = "message"
  /\ Goto(p.of, "pre")
  /\ IF IsChat(p.of) THEN Abort /\ current' = p.of ELSE UNCHANGED <<aborted, current>>
  /\ Forgotten(p)
  /\ UNCHANGED <<asked, verdict, retries, engine, pending, streamVars>>

\* POST cancel: aborts the one turn that can be, and tells this session.
HandleCancel(p) ==
  /\ p.kind = "cancel"
  /\ Abort /\ current' = None
  /\ publish(home[p.by], <<Done>>)
  /\ Forgotten(p)
  /\ UNCHANGED <<at, asked, verdict, retries, engine, pending>>

\* POST permission: resolvePermission, or 404 for a request that is no more.
HandlePermission(p) ==
  /\ p.kind = "permission"
  /\ IF p.of \in pending
       THEN /\ pending' = pending \ {p.of}
            /\ verdict' = [verdict EXCEPT ![p.of[1]] = IF p.approved THEN "granted" ELSE "refused"]
            /\ Answered(p, "ok")
       ELSE Answered(p, "failed") /\ UNCHANGED <<pending, verdict>>
  /\ UNCHANGED <<at, current, aborted, asked, retries, engine, streamVars>>

\* POST approve or reject of the plan the session waits with, if it still does.
HandleDecision(p) ==
  /\ p.kind = "decision"
  /\ Forgotten(p)
  /\ IF at[p.of] # "awaiting"
       THEN UNCHANGED <<at, retries, streamVars>>
       ELSE IF p.approved
       THEN /\ Goto(p.of, "implementing")
            /\ emit(SessionOf(p.of), <<Phase("implementing")>>)
            /\ UNCHANGED retries
       ELSE /\ retries' = [retries EXCEPT ![p.of] = @ + 1]
            /\ Goto(p.of, IF retries[p.of] + 1 > MaxRetries THEN "over" ELSE "planning")
            /\ emit(SessionOf(p.of),
                    <<IF retries[p.of] + 1 > MaxRetries THEN Error ELSE Phase("planning")>>)
  /\ UNCHANGED <<current, aborted, asked, verdict, engine, pending>>

\* DELETE messages: the stored conversation goes; a turn at work is left alone.
HandleClear(p) ==
  /\ p.kind = "clear"
  /\ Answered(p, "ok")
  /\ UNCHANGED <<turnVars, streamVars>>

Handle(p) ==
  /\ daemon # "down"
  /\ p.state = "sent"
  /\ \/ HandleMessage(p) \/ HandleCancel(p) \/ HandlePermission(p) \/ HandleDecision(p)
     \/ HandleClear(p)
  /\ UNCHANGED <<scenario, daemon, clientVars, yes>>

-----------------------------------------------------------------------------
(* The terminal. *)

\* A new view; the prompt's component is unmounted when none is on display.
Show(c, v) ==
  /\ view' = [view EXCEPT ![c] = v]
  /\ resolvedRef' = IF Displayed(v) = None THEN resolvedRef \ {c} ELSE resolvedRef

Client(c) ==
  /\ conn[c] # "left"
  /\ UNCHANGED <<scenario, daemon, turnVars, table, group>>

\* Return in the prompt, which takes input while nothing is submitted.
Submit(c) ==
  /\ Client(c)
  /\ ~view[c].isSubmitting
  /\ sent[c] < scenario.posts[c]
  /\ sent' = [sent EXCEPT ![c] = @ + 1]
  /\ post' = post \cup {Post("message", c, <<c, sent[c] + 1>>, FALSE)}
  /\ Show(c, submitted(view[c]))
  /\ early' = IF conn[c] = "off" THEN early \cup {<<c, sent[c] + 1>>} ELSE early
  /\ UNCHANGED <<conn, inbox, yes, escaped>>

\* Escape while submitting: the input is back at once, the cancel on its way.
Escape(c) ==
  /\ Client(c)
  /\ "escape" \in scenario.may /\ c \notin escaped
  /\ view[c].isSubmitting
  /\ Show(c, submit_error(view[c]))
  /\ post' = post \cup {Post("cancel", c, <<c, sent[c]>>, FALSE)}
  /\ escaped' = escaped \cup {c}
  /\ UNCHANGED <<conn, inbox, sent, yes, early>>

\* y or n, once for the mounted prompt.
AnswerPrompt(c, approved) ==
  /\ Client(c)
  /\ c \notin resolvedRef
  /\ Displayed(view[c]) # None
  /\ resolvedRef' = resolvedRef \cup {c}
  /\ post' = post \cup {Post("permission", c, Displayed(view[c]), approved)}
  /\ yes' = IF approved THEN yes \cup {Displayed(view[c])} ELSE yes
  /\ UNCHANGED <<conn, inbox, view, sent, escaped, early>>

\* /approve or /reject, a command and so only while nothing is submitted.
Decide(c, m, approved) ==
  /\ Client(c)
  /\ ~view[c].isSubmitting
  /\ SessionOf(m) = home[c] /\ at[m] = "awaiting"
  /\ post' = post \cup {Post("decision", c, m, approved)}
  /\ UNCHANGED <<conn, inbox, clientVars, yes>>

\* /clear, from the prompt or bound to a key; the transcript goes when it is answered.
Clear(c) ==
  /\ Client(c)
  /\ "clear" \in scenario.may
  /\ post' = post \cup {Post("clear", c, None, FALSE)}
  /\ UNCHANGED <<conn, inbox, clientVars, yes>>

\* The next frame; what a closed stream still holds is read.
Receive(c) ==
  /\ Client(c)
  /\ inbox[c] # <<>>
  /\ inbox' = [inbox EXCEPT ![c] = Tail(@)]
  /\ Show(c, reduceFrame(view[c], Head(inbox[c])))
  /\ UNCHANGED <<conn, sent, post, yes, escaped, early>>

\* The stream breaks off: its error is shown, and it is not opened again.  One
\* the daemon closed in order just ends.
StreamError(c) ==
  /\ Client(c)
  /\ daemon = "down" /\ conn[c] \in {"off", "open"}
  /\ conn' = [conn EXCEPT ![c] = "broken"]
  /\ Show(c, submit_error(view[c]))
  /\ UNCHANGED <<inbox, sent, post, yes, escaped, early>>

\* What follows an awaited POST: the error of a message, and the end of a prompt
\* whatever became of its answer.
Continue(p) ==
  /\ Client(p.by)
  /\ p.state # "sent" \/ daemon = "down"
  /\ post' = post \ {p}
  /\ CASE p.state = "ok" /\ p.kind = "clear" -> Show(p.by, clear_transcript(view[p.by]))
       [] p.kind = "permission" -> Show(p.by, permission_resolved(view[p.by], p.of))
       [] p.kind = "message" -> Show(p.by, submit_error(view[p.by]))
       [] OTHER -> UNCHANGED <<view, resolvedRef>>
  /\ UNCHANGED <<conn, inbox, sent, yes, escaped, early>>

-----------------------------------------------------------------------------
(* The end of the daemon. *)

\* shutdown: drainAll, then closeAll; then it awaits, with turns and requests
\* still at work, until the servers stop.
Shutdown ==
  /\ "stop" \in scenario.may
  /\ daemon = "up"
  /\ daemon' = "closing"
  /\ Refuse(pending)
  /\ conn' = [c \in Clients |-> IF conn[c] = "open" THEN "shut" ELSE conn[c]]
  /\ table' = [s \in Sessions |-> 0]
  /\ UNCHANGED <<scenario, at, current, aborted, asked, retries, engine, group, inbox,
                 clientVars, post, yes>>

\* The process exits, in order or not; every connection breaks, and
\* what was on its way is lost.
Exit ==
  /\ "stop" \in scenario.may
  /\ daemon # "down"
  /\ daemon' = "down"
  /\ inbox' = [c \in Clients |-> IF conn[c] = "open" THEN <<>> ELSE inbox[c]]
  /\ UNCHANGED <<scenario, turnVars, conn, table, group, clientVars, post, yes>>

-----------------------------------------------------------------------------
Next ==
  \/ \E m \in Turns : Turn(m)
  \/ \E id \in Requests : Timeout(id)
  \/ \E p \in post : Handle(p) \/ Continue(p)
  \/ \E c \in Clients :
       \/ attach(c) \/ Leave(c) \/ ClosedSocket(c)
       \/ Submit(c) \/ Escape(c) \/ Clear(c) \/ Receive(c) \/ StreamError(c)
       \/ \E approved \in BOOLEAN :
            AnswerPrompt(c, approved) \/ \E m \in Turns : Decide(c, m, approved)
  \/ Shutdown \/ Exit

Spec == Init /\ [][Next]_vars

\* The event loops run what is ready, timers fire, connections deliver; what
\* users do, and whether the daemon ends, is not relied on.
Fairness ==
  /\ \A m \in Turns : WF_vars(Turn(m))
  /\ \A id \in Requests : WF_vars(Timeout(id))
  /\ \A c \in Clients :
       /\ WF_vars(attach(c)) /\ WF_vars(Receive(c)) /\ WF_vars(StreamError(c))
       /\ \A kind \in {"message", "cancel", "permission", "decision", "clear"} :
            /\ WF_vars(\E p \in post : p.by = c /\ p.kind = kind /\ Handle(p))
            /\ WF_vars(\E p \in post : p.by = c /\ p.kind = kind /\ Continue(p))

FairSpec == Spec /\ Fairness

-----------------------------------------------------------------------------
(* Properties. *)

ViewOK(v) ==
  /\ {v.isSubmitting, v.error} \subseteq BOOLEAN
  /\ v.text \subseteq Turns /\ v.answers \subseteq SUBSET Turns
  /\ v.phase \in {None, "requesting", "thinking"} \cup PIVPhases
  /\ v.completed \subseteq PIVPhases /\ v.retryCount \in Nat
  /\ v.prompt \in Requests \cup {None} /\ v.prompts \subseteq Requests

TypeOK ==
  /\ scenario \in Scenarios
  /\ daemon \in {"up", "closing", "down"}
  /\ at \in [Turns -> Labels]
  /\ current \in Turns \cup {None} /\ aborted \subseteq Turns
  /\ asked \in [Turns -> 0..MaxAsks]
  /\ verdict \in [Turns -> {"open", "granted", "refused"}]
  /\ retries \in [Turns -> 0..(MaxRetries + 1)]
  /\ engine \in [Sessions -> BOOLEAN]
  /\ pending \subseteq {Latest(m) : m \in Turns}
  /\ conn \in [Clients -> {"off", "open", "shut", "left", "broken"}]
  /\ table \in [Sessions -> Nat] /\ group \in [Clients -> Nat]
  /\ \A c \in Clients : ViewOK(view[c]) /\ sent[c] \in 0..MaxPosts
  /\ resolvedRef \subseteq Clients /\ escaped \subseteq Clients
  /\ yes \subseteq Requests /\ early \subseteq Turns

\* A tool that asks runs, or a diff is applied, only if a user said yes to that very
\* request while it was on display, whatever timers, other terminals and a
\* shutdown did at the same time.
GrantedByAUser ==
  /\ TypeOK
  /\ \A m \in Turns : verdict[m] = "granted" => Latest(m) \in yes

\* While the daemon is up every open stream gets what is published for its
\* session, however others come and go.
OpenIsReached == \A c \in Clients :
  conn[c] = "open" /\ daemon = "up" => c \in Published(home[c])

Alone(c) == \A d \in Clients \ {c} : home[d] # home[c]

\* The text a terminal shows, or keeps as an answer, comes from one turn, when
\* no other terminal posts to the session and Escape was not pressed.
OneTurnPerAnswer == \A c \in Clients :
  Alone(c) /\ c \notin escaped =>
    \A t \in view[c].answers \cup {view[c].text} : Cardinality(t) <= 1

\* What keeps the input of a terminal from coming back: its message failed
\* before the loop or met a session past its one task; its turn was aborted for
\* another message, or waits for a decision; the stream was opened only after
\* the message was sent, or closed in order.
Stuck(c) ==
  \/ at[<<c, sent[c]>>] \in {"lost", "awaiting"}
  \/ <<c, sent[c]>> \in aborted \cup early
  \/ conn[c] \in {"off", "shut", "left"}

\* Whatever is submitted, the input comes back, except in those cases.
InputReturns == \A c \in Clients :
  view[c].isSubmitting ~> (~view[c].isSubmitting \/ Stuck(c))
=============================================================================
