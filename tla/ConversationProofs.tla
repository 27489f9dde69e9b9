------------------------- MODULE ConversationProofs -------------------------
(***************************************************************************)
(* Theorems about Conversation, for any messages, sessions, forced          *)
(* compactions and limits.                                                  *)
(***************************************************************************)
EXTENDS Conversation, TLAPS

\* A call among its tools has one left to answer, and one at work is in a turn it
\* may take.
UsesLeft ==
  \A c \in Calls :
    /\ at[c] \in AtTools => todo[c] >= 1
    /\ at[c] # "end" => turn[c] < MaxTurns

\* The one call at work that nobody aborted is the one the controller holds.
OneWorks == \A c \in AtWork : c \in aborted \/ current = {c}

\* Once an aborted call has added its message it is where nothing more is added.
NoneAfterOne ==
  \A c \in Calls :
    /\ c \notin aborted => late[c] = 0
    /\ late[c] \in 0..1
    /\ late[c] = 1 =>
         at[c] \in {"listTools", "load", "stream", "post", "postSummary", "end"}

TypeInv == TypeOK /\ UsesLeft

\* A call before the row of its message, or that failed there, has none in the log.
NoRow(c)  == \A i \in DOMAIN log[home[c]] :
  ~(log[home[c]][i].kind = "user" /\ log[home[c]][i].by = c)
Early(c)  == at[c] \in Unstored \cup {"idle"} \/ told[c] = "lost"
Unsaid    == \A c \in Calls : Early(c) => NoRow(c)

\* Nothing is stamped in the future, and what a call has in the log is no later than
\* the row it is about to insert.
Clocked ==
  /\ \A r \in Requests : since[r] <= now
  /\ \A s \in Sessions : \A i \in DOMAIN log[s] : log[s][i].ms <= now
Older(c) == \A i \in DOMAIN log[home[c]] :
  log[home[c]][i].by = c => log[home[c]][i].ms <= since[c]
InOrder  == Clocked /\ \A c \in Calls : at[c] \in Pending => Older(c)

\* The message of a call is in the log, no earlier than any summary the call wrote.
Hearing == AtModel \cup AtTools
Heard(c) == \E i \in DOMAIN log[home[c]] :
  /\ log[home[c]][i].kind = "user" /\ log[home[c]][i].by = c
  /\ \A j \in DOMAIN log[home[c]] :
       log[home[c]][j].kind = "summary" /\ log[home[c]][j].by = c =>
         log[home[c]][j].ms <= log[home[c]][i].ms
Hears == \A c \in Calls : at[c] \in Hearing /\ c \notin wiped => Heard(c)

\* No call nobody aborted returns silently.
Ended == \A c \in Calls : at[c] = "end" /\ c \notin aborted => told[c] # "nothing"

\* What the steps are made of.
USE DEF At, Goto, Return, Requests

-----------------------------------------------------------------------------
(* The log. *)

LEMMA AppendTyped ==
  ASSUME log \in [Sessions -> Seq(Messages)], NEW s \in Sessions, NEW m \in Messages,
         log' = [log EXCEPT ![s] = Append(@, m)]
  PROVE  log' \in [Sessions -> Seq(Messages)]
<1>1. Append(log[s], m) \in Seq(Messages)
  OBVIOUS
<1> QED
  BY <1>1

LEMMA StoreTyped ==
  ASSUME TypeOK, NEW c \in Calls, NEW kind \in Kinds, NEW n \in Nat, Store(c, kind, n)
  PROVE  /\ log' \in [Sessions -> Seq(Messages)]
         /\ late' \in [Calls -> Nat]
<1>1. home[c] \in Sessions /\ turn[c] \in Nat /\ since[c] \in Nat
  BY DEF TypeOK
<1>2. [kind |-> kind, by |-> c, turn |-> turn[c], n |-> n, ms |-> since[c]] \in Messages
  BY <1>1 DEF Messages
<1>3. log' \in [Sessions -> Seq(Messages)]
  BY <1>1, <1>2, AppendTyped DEF TypeOK, Store
<1> QED
  BY <1>3 DEF TypeOK, Store

LEMMA PersistTyped ==
  ASSUME TypeOK, NEW r \in Requests, Persist(r)
  PROVE  log' \in [Sessions -> Seq(Messages)]
<1>1. home[r] \in Sessions
  BY DEF TypeOK
<1>2. PICK ms \in since[r]..now : log' = [log EXCEPT ![home[r]] = Append(@,
        [kind |-> "summary", by |-> r, turn |-> 0, n |-> 0, ms |-> ms])]
  BY DEF Persist
<1>3. [kind |-> "summary", by |-> r, turn |-> 0, n |-> 0, ms |-> ms] \in Messages
  BY DEF Messages, Kinds, TypeOK
<1> QED
  BY <1>1, <1>2, <1>3, AppendTyped DEF TypeOK

LEMMA RowsKept ==
  ASSUME TypeOK, NEW s \in Sessions, NEW m \in Messages, home' = home,
         log' = [log EXCEPT ![s] = Append(@, m)],
         NEW c \in Calls, NoRow(c), m.kind # "user" \/ m.by # c
  PROVE  NoRow(c)'
<1>1. home[c] \in Sessions /\ log[home[c]] \in Seq(Messages) /\ log[s] \in Seq(Messages)
  BY DEF TypeOK
<1>2. CASE home[c] # s
  BY <1>1, <1>2 DEF NoRow, TypeOK
<1>3. CASE home[c] = s
  <2>1. log'[home'[c]] = Append(log[s], m)
    BY <1>1, <1>3 DEF TypeOK
  <2>2. ASSUME NEW i \in DOMAIN Append(log[s], m)
        PROVE  ~(Append(log[s], m)[i].kind = "user" /\ Append(log[s], m)[i].by = c)
    <3>1. CASE i \in DOMAIN log[s]
      BY <1>1, <1>3, <3>1 DEF NoRow
    <3>2. CASE i = Len(log[s]) + 1
      BY <1>1, <3>2
    <3> QED
      BY <1>1, <2>2, <3>1, <3>2
  <2> QED
    BY <2>1, <2>2 DEF NoRow
<1> QED
  BY <1>2, <1>3

\* A row that is not the message of a call leaves what NoRow says of it.
LEMMA StoreKeeps ==
  ASSUME TypeOK, NEW d \in Calls, NEW kind \in Kinds, NEW n \in Nat, Store(d, kind, n),
         home' = home, NEW c \in Calls, NoRow(c), kind # "user" \/ c # d
  PROVE  NoRow(c)'
<1> DEFINE m == [kind |-> kind, by |-> d, turn |-> turn[d], n |-> n, ms |-> since[d]]
<1>1. home[d] \in Sessions /\ m \in Messages
  BY DEF TypeOK, Messages
<1>2. m.kind = kind /\ m.by = d
  OBVIOUS
<1>3. log' = [log EXCEPT ![home[d]] = Append(@, m)]
  BY DEF Store
<1> QED
  BY <1>1, <1>2, <1>3, RowsKept

LEMMA PersistKeeps ==
  ASSUME TypeOK, NEW r \in Requests, Persist(r), home' = home, NEW c \in Calls, NoRow(c)
  PROVE  NoRow(c)'
<1>0. PICK ms \in since[r]..now : log' = [log EXCEPT ![home[r]] = Append(@,
        [kind |-> "summary", by |-> r, turn |-> 0, n |-> 0, ms |-> ms])]
  BY DEF Persist
<1> DEFINE m == [kind |-> "summary", by |-> r, turn |-> 0, n |-> 0, ms |-> ms]
<1>1. home[r] \in Sessions /\ m \in Messages
  BY DEF TypeOK, Messages, Kinds
<1>2. log' = [log EXCEPT ![home[r]] = Append(@, m)] /\ m.kind = "summary"
  BY <1>0
<1> QED
  BY <1>1, <1>2, RowsKept

\* Nor does any row but the call's own summary hide a message.
LEMMA HeardKept ==
  ASSUME TypeOK, NEW s \in Sessions, NEW m \in Messages, home' = home,
         log' = [log EXCEPT ![s] = Append(@, m)],
         NEW c \in Calls, Heard(c), m.kind # "summary" \/ m.by # c
  PROVE  Heard(c)'
<1>1. home[c] \in Sessions /\ log[home[c]] \in Seq(Messages)
  BY DEF TypeOK
<1>2. CASE home[c] # s
  BY <1>1, <1>2 DEF Heard, TypeOK
<1>3. CASE home[c] = s
  <2> DEFINE l == log[s]
             k == Append(log[s], m)
  <2>1. log'[home'[c]] = k
    BY <1>1, <1>3 DEF TypeOK
  <2>2. PICK i \in DOMAIN l : /\ l[i].kind = "user" /\ l[i].by = c
                             /\ \A j \in DOMAIN l : l[j].kind = "summary" /\ l[j].by = c =>
                                  l[j].ms <= l[i].ms
    BY <1>3 DEF Heard
  <2>3. DOMAIN k = DOMAIN l \cup {Len(l) + 1} /\ k[Len(l) + 1] = m
        /\ \A j \in DOMAIN l : k[j] = l[j]
    BY <1>1, <1>3
  <2>4. i \in DOMAIN k /\ k[i].kind = "user" /\ k[i].by = c /\ k[i] = l[i]
    BY <2>2, <2>3
  <2>5. \A j \in DOMAIN k : k[j].kind = "summary" /\ k[j].by = c => k[j].ms <= k[i].ms
    BY <2>2, <2>3, <2>4
  <2> QED
    BY <2>1, <2>4, <2>5 DEF Heard
<1> QED
  BY <1>2, <1>3

LEMMA HeardStart ==
  ASSUME TypeOK, NEW c \in Calls, Store(c, "user", 0), home' = home, Older(c)
  PROVE  Heard(c)'
<1> DEFINE m == [kind |-> "user", by |-> c, turn |-> turn[c], n |-> 0, ms |-> since[c]]
           l == log[home[c]]
           k == Append(l, m)
<1>1. home[c] \in Sessions /\ l \in Seq(Messages)
  BY DEF TypeOK
<1>2. log'[home'[c]] = k
  BY <1>1 DEF Store, TypeOK
<1>3. DOMAIN k = DOMAIN l \cup {Len(l) + 1} /\ k[Len(l) + 1] = m
      /\ \A j \in DOMAIN l : k[j] = l[j]
  BY <1>1
<1>4. k[Len(l) + 1].kind = "user" /\ k[Len(l) + 1].by = c /\ k[Len(l) + 1].ms = since[c]
  BY <1>3
<1>5. \A j \in DOMAIN k : k[j].kind = "summary" /\ k[j].by = c => k[j].ms <= k[Len(l) + 1].ms
  BY <1>3, <1>4 DEF Older
<1> QED
  BY <1>2, <1>3, <1>4, <1>5 DEF Heard

LEMMA StoreHeard ==
  ASSUME TypeOK, NEW d \in Calls, NEW kind \in Kinds, NEW n \in Nat, Store(d, kind, n),
         home' = home, NEW c \in Calls, Heard(c), kind # "summary"
  PROVE  Heard(c)'
<1> DEFINE m == [kind |-> kind, by |-> d, turn |-> turn[d], n |-> n, ms |-> since[d]]
<1>1. home[d] \in Sessions /\ m \in Messages
  BY DEF TypeOK, Messages
<1>2. m.kind = kind
  OBVIOUS
<1>3. log' = [log EXCEPT ![home[d]] = Append(@, m)]
  BY DEF Store
<1> QED
  BY <1>1, <1>2, <1>3, HeardKept

LEMMA PersistHeard ==
  ASSUME TypeOK, NEW r \in Requests, Persist(r), home' = home,
         NEW c \in Calls, c # r, Heard(c)
  PROVE  Heard(c)'
<1>0. PICK ms \in since[r]..now : log' = [log EXCEPT ![home[r]] = Append(@,
        [kind |-> "summary", by |-> r, turn |-> 0, n |-> 0, ms |-> ms])]
  BY DEF Persist
<1> DEFINE m == [kind |-> "summary", by |-> r, turn |-> 0, n |-> 0, ms |-> ms]
<1>1. home[r] \in Sessions /\ m \in Messages
  BY DEF TypeOK, Messages, Kinds
<1>2. log' = [log EXCEPT ![home[r]] = Append(@, m)] /\ m.by = r
  BY <1>0
<1> QED
  BY <1>1, <1>2, HeardKept

-----------------------------------------------------------------------------
(* Where a step leaves a call. *)

SkipMoved(c) ==
  \/ /\ at[c] \in {"pre", "preSummary"}
     /\ at' = [at EXCEPT ![c] = "insert"]
     /\ told' = told
  \/ /\ at[c] \in {"post", "postSummary"}
     /\ at' = [at EXCEPT ![c] = "end"]
     /\ told' = [told EXCEPT ![c] = "done"]

LEMMA SkipMoves == ASSUME NEW c \in Calls, AfterCompaction(c) PROVE SkipMoved(c)
BY DEF AfterCompaction, SkipMoved

ResultMoved(c) ==
  \/ /\ c \in aborted
     /\ at' = [at EXCEPT ![c] = "end"]
     /\ told' = told /\ turn' = turn
  \/ /\ c \notin aborted /\ todo[c] > 1
     /\ at' = [at EXCEPT ![c] = "gate"]
     /\ told' = told /\ turn' = turn
  \/ /\ c \notin aborted /\ turn[c] + 1 < MaxTurns
     /\ at' = [at EXCEPT ![c] = "load"]
     /\ told' = told /\ turn' = [turn EXCEPT ![c] = @ + 1]
  \/ /\ c \notin aborted
     /\ at' = [at EXCEPT ![c] = "end"]
     /\ told' = [told EXCEPT ![c] = "done"]
     /\ turn' = [turn EXCEPT ![c] = @ + 1]

LEMMA ResultMoves ==
  ASSUME TypeInv, NEW c \in Calls, AfterResult(c) PROVE ResultMoved(c)
<1> USE DEF ResultMoved
<1>1. CASE c \in aborted /\ Stop(c)
  <2>1. told' = [told EXCEPT ![c] = @] /\ told \in [Calls -> {"nothing", "done", "error", "lost"}]
    BY <1>1 DEF Stop, TypeInv, TypeOK
  <2>2. told' = told
    BY <2>1
  <2> QED
    BY <1>1, <2>2 DEF Stop
<1>2. CASE c \notin aborted /\ todo[c] > 1 /\ NextTool(c)
  BY <1>2 DEF NextTool
<1>3. CASE c \notin aborted /\ EndTurn(c)
  BY <1>3 DEF EndTurn
<1> QED
  BY <1>1, <1>2, <1>3 DEF AfterResult

LEMMA MovedTyped ==
  ASSUME TypeOK, NEW c \in Calls, NEW label \in Labels, at' = [at EXCEPT ![c] = label],
         told' = told \/ (label = "end" /\ told' = [told EXCEPT ![c] = "done"]),
         at[c] # "end"
  PROVE  /\ at' \in [Requests -> Labels]
         /\ told' \in [Calls -> {"nothing", "done", "error", "lost"}]
         /\ \A d \in Calls : told'[d] # "nothing" => at'[d] = "end"
<1>1. at' \in [Requests -> Labels]
  BY DEF TypeOK
<1>2. CASE told' = told
  BY <1>1, <1>2 DEF TypeOK
<1>3. CASE label = "end" /\ told' = [told EXCEPT ![c] = "done"]
  BY <1>1, <1>3 DEF TypeOK
<1> QED
  BY <1>2, <1>3

-----------------------------------------------------------------------------
(* The clock. *)

ClockType == now \in Nat /\ since \in [Requests -> Nat]

\* A forced compaction ends at once or awaits its summary.
BegunTo(q) == at[q] = "idle" /\ \E label \in {"end", "forceSummary"} :
  at' = [at EXCEPT ![q] = label]

LEMMA Begins == ASSUME NEW q \in Squeezes, BeginForced(q) PROVE BegunTo(q)
BY DEF BeginForced, BegunTo

\* A row that awaits its INSERT was stamped when its process came there.
ClockFrame ==
  /\ ClockType' /\ now <= now'
  /\ \A r \in Requests : since'[r] \in {0, now, since[r]}
  /\ \A c \in Calls : at'[c] \in Pending =>
       since'[c] = now \/ (at'[c] = at[c] /\ since'[c] = since[c])

LEMMA GotoClock ==
  ASSUME TypeOK, now' = now, NEW r \in Requests, NEW label, Goto(r, label)
  PROVE  ClockFrame
BY DEF TypeOK, ClockFrame, ClockType, Pending, Stamped

LEMMA ClockStep == TypeInv /\ [Next]_vars => ClockFrame
<1> USE RequestsAssumption DEF TypeOK, TypeInv, Labels, Suspended, Unstored, AtModel, AtTools, AtAnswer, callVars, ClockFrame, ClockType, Pending, Stamped
<1>1. ASSUME TypeInv, now' = now, NEW c \in Calls, Post(c) PROVE ClockFrame
  BY <1>1 DEF Post, Abort, AtWork
<1>2. ASSUME TypeInv, now' = now, NEW c \in Calls, Summarise(c) PROVE ClockFrame
  BY <1>2 DEF Summarise
<1>3. ASSUME TypeInv, now' = now, NEW c \in Calls, Skip(c) PROVE ClockFrame
  <2> HIDE DEF Goto
  <2>1. Goto(c, "insert") \/ Goto(c, "end")
    BY <1>3 DEF Skip, AfterCompaction
  <2> QED
    BY <1>3, <2>1, GotoClock
<1>4. ASSUME TypeInv, now' = now, NEW c \in Calls, PersistSummary(c) PROVE ClockFrame
  <2> HIDE DEF Goto
  <2>1. Goto(c, "insert") \/ Goto(c, "end")
    BY <1>4 DEF PersistSummary, AfterCompaction
  <2> QED
    BY <1>4, <2>1, GotoClock
<1>5. ASSUME TypeInv, now' = now, NEW c \in Calls, ListTools(c) PROVE ClockFrame
  <2> HIDE DEF Goto
  <2>1. Goto(c, "load") \/ Goto(c, "end")
    BY <1>5 DEF ListTools
  <2> QED
    BY <1>5, <2>1, GotoClock
<1>6. ASSUME TypeInv, now' = now, NEW c \in Calls, Load(c) PROVE ClockFrame
  BY <1>6 DEF Load
<1>7. ASSUME TypeInv, now' = now, NEW c \in Calls, StopStream(c) PROVE ClockFrame
  BY <1>7 DEF StopStream
<1>8. ASSUME TypeInv, now' = now, NEW c \in Calls, EndStream(c) PROVE ClockFrame
  BY <1>8 DEF EndStream
<1>9. ASSUME TypeInv, now' = now, NEW c \in Calls, AskForTools(c) PROVE ClockFrame
  BY <1>9 DEF AskForTools
<1>10. ASSUME TypeInv, now' = now, NEW c \in Calls, InsertUser(c) PROVE ClockFrame
  BY <1>10 DEF InsertUser
<1>11. ASSUME TypeInv, now' = now, NEW c \in Calls, InsertAnswer(c) PROVE ClockFrame
  BY <1>11 DEF InsertAnswer
<1>12. ASSUME TypeInv, now' = now, NEW c \in Calls, InsertUses(c) PROVE ClockFrame
  <2> HIDE DEF Goto
  <2>1. Goto(c, "gate") \/ Goto(c, "end")
    BY <1>12 DEF InsertUses
  <2> QED
    BY <1>12, <2>1, GotoClock
<1>13. ASSUME TypeInv, now' = now, NEW c \in Calls, InsertResult(c) PROVE ClockFrame
  <2> HIDE DEF Goto
  <2>1. Goto(c, "gate") \/ Goto(c, "load") \/ Goto(c, "end")
    BY <1>13 DEF InsertResult, AfterResult, Stop, NextTool, EndTurn
  <2> QED
    BY <1>13, <2>1, GotoClock
<1>14. ASSUME TypeInv, now' = now, NEW c \in Calls, Approve(c) PROVE ClockFrame
  BY <1>14 DEF Approve
<1>15. ASSUME TypeInv, now' = now, NEW c \in Calls, Refuse(c) PROVE ClockFrame
  BY <1>15 DEF Refuse
<1>16. ASSUME TypeInv, now' = now, NEW c \in Calls, EndTool(c) PROVE ClockFrame
  BY <1>16 DEF EndTool
<1>17. ASSUME TypeInv, now' = now, NEW c \in Calls, Lose(c) PROVE ClockFrame
  BY <1>17 DEF Lose
<1>18. ASSUME TypeInv, now' = now, NEW c \in Calls, Throw(c) PROVE ClockFrame
  BY <1>18 DEF Throw
<1>19. ASSUME TypeInv, now' = now, NEW q \in Squeezes, BeginForced(q) PROVE ClockFrame
  <2> HIDE DEF Goto
  <2>1. Goto(q, "end") \/ Goto(q, "forceSummary")
    BY <1>19 DEF BeginForced
  <2> QED
    BY <1>19, <2>1, GotoClock
<1>20. ASSUME TypeInv, now' = now, NEW q \in Squeezes, PersistForced(q) PROVE ClockFrame
  BY <1>20 DEF PersistForced
<1>21. ASSUME TypeInv, now' = now, NEW q \in Squeezes, ForceFails(q) PROVE ClockFrame
  BY <1>21 DEF ForceFails
<1>22. ASSUME TypeInv, now' = now, Cancel PROVE ClockFrame
  BY <1>22 DEF Cancel
<1>23. ASSUME TypeInv, now' = now, NEW s \in Sessions, Clear(s) PROVE ClockFrame
  BY <1>23 DEF Clear
<1>24. ASSUME TypeInv, UNCHANGED vars PROVE ClockFrame
  BY <1>24 DEF vars
<1>25. ASSUME TypeInv, Tick PROVE ClockFrame
  BY <1>25 DEF Tick
<1> QED
  BY <1>1, <1>2, <1>3, <1>4, <1>5, <1>6, <1>7, <1>8, <1>9, <1>10, <1>11, <1>12, <1>13, <1>14, <1>15, <1>16, <1>17, <1>18, <1>19, <1>20, <1>21, <1>22, <1>23, <1>24, <1>25 DEF Next, Timed, Compaction, Model, Rows, ToolUse, Failure, Forcing

-----------------------------------------------------------------------------
(* Types. *)

LEMMA TypeStep == TypeInv /\ [Next]_vars => TypeInv'
<1>26. TypeInv /\ [Next]_vars => ClockType'
  BY ClockStep DEF ClockFrame
<1> USE RequestsAssumption, LimitsAssumption DEF TypeInv, TypeOK, UsesLeft, Labels, Suspended, Unstored, AtModel, AtTools, AtAnswer, callVars, ClockType
<1>1. ASSUME TypeInv, ClockType', NEW c \in Calls, Post(c) PROVE TypeInv'
  BY <1>1 DEF Post, Abort, AtWork
<1>2. ASSUME TypeInv, ClockType', NEW c \in Calls, Summarise(c) PROVE TypeInv'
  BY <1>2 DEF Summarise
<1>3. ASSUME TypeInv, ClockType', NEW c \in Calls, Skip(c) PROVE TypeInv'
  <2>1. \E label \in {"insert", "end"} :
          /\ at' = [at EXCEPT ![c] = label]
          /\ told' = told \/ (label = "end" /\ told' = [told EXCEPT ![c] = "done"])
    BY <1>3, SkipMoves DEF Skip, SkipMoved
  <2>2. /\ at' \in [Requests -> Labels]
        /\ told' \in [Calls -> {"nothing", "done", "error", "lost"}]
        /\ \A d \in Calls : told'[d] # "nothing" => at'[d] = "end"
    <3>1. at[c] # "end" /\ {"insert", "end"} \subseteq Labels
      BY <1>3 DEF Skip
    <3> HIDE DEF TypeOK, Labels
    <3>2. TypeOK
      BY <1>3
    <3> QED
      BY <2>1, <3>1, <3>2, MovedTyped
  <2> QED
    BY <1>3, <2>1, <2>2 DEF Skip
<1>4. ASSUME TypeInv, ClockType', NEW c \in Calls, PersistSummary(c) PROVE TypeInv'
  <2>1. \E label \in {"insert", "end"} :
          /\ at' = [at EXCEPT ![c] = label]
          /\ told' = told \/ (label = "end" /\ told' = [told EXCEPT ![c] = "done"])
    BY <1>4, SkipMoves DEF PersistSummary, SkipMoved
  <2>2. /\ at' \in [Requests -> Labels]
        /\ told' \in [Calls -> {"nothing", "done", "error", "lost"}]
        /\ \A d \in Calls : told'[d] # "nothing" => at'[d] = "end"
    <3>1. at[c] # "end" /\ {"insert", "end"} \subseteq Labels
      BY <1>4 DEF PersistSummary
    <3> HIDE DEF TypeOK, Labels
    <3>2. TypeOK
      BY <1>4
    <3> QED
      BY <2>1, <3>1, <3>2, MovedTyped
  <2>3. log' \in [Sessions -> Seq(Messages)]
    BY <1>4, PersistTyped DEF PersistSummary
  <2> QED
    BY <1>4, <2>1, <2>2, <2>3 DEF PersistSummary
<1>5. ASSUME TypeInv, ClockType', NEW c \in Calls, ListTools(c) PROVE TypeInv'
  <2>1. /\ at[c] = "listTools"
        /\ \/ Goto(c, "load") /\ UNCHANGED told
           \/ Return(c, "silent")
    BY <1>5 DEF ListTools
  <2>2. loop' \in [Calls -> {"text", "tools"}]
    BY <1>5 DEF ListTools
  <2>3. at' \in [Requests -> Labels] /\ told' \in [Calls -> {"nothing", "done", "error", "lost"}]
    BY <1>5, <2>1
  <2>4. /\ \A d \in Calls : told'[d] # "nothing" => at'[d] = "end"
        /\ \A d \in Calls : at'[d] \in AtTools \/ at'[d] # "end" => at[d] = at'[d] \/ d = c
    BY <1>5, <2>1
  <2>5. TypeOK'
    BY <1>5, <2>2, <2>3, <2>4 DEF ListTools
  <2>6. UsesLeft'
    BY <1>5, <2>1, <2>4 DEF ListTools
  <2> QED
    BY <2>5, <2>6
<1>6. ASSUME TypeInv, ClockType', NEW c \in Calls, Load(c) PROVE TypeInv'
  BY <1>6 DEF Load
<1>7. ASSUME TypeInv, ClockType', NEW c \in Calls, StopStream(c) PROVE TypeInv'
  BY <1>7 DEF StopStream
<1>8. ASSUME TypeInv, ClockType', NEW c \in Calls, EndStream(c) PROVE TypeInv'
  BY <1>8 DEF EndStream
<1>9. ASSUME TypeInv, ClockType', NEW c \in Calls, AskForTools(c) PROVE TypeInv'
  BY <1>9 DEF AskForTools
<1>10. ASSUME TypeInv, ClockType', NEW c \in Calls, InsertUser(c) PROVE TypeInv'
  BY <1>10, StoreTyped DEF InsertUser, Kinds
<1>11. ASSUME TypeInv, ClockType', NEW c \in Calls, InsertAnswer(c) PROVE TypeInv'
  BY <1>11, StoreTyped DEF InsertAnswer, Kinds
<1>12. ASSUME TypeInv, ClockType', NEW c \in Calls, InsertUses(c) PROVE TypeInv'
  <2>1. todo[c] \in Nat /\ Store(c, "uses", todo[c])
    BY <1>12 DEF InsertUses
  <2>2. log' \in [Sessions -> Seq(Messages)] /\ late' \in [Calls -> Nat]
    BY <1>12, <2>1, StoreTyped DEF Kinds
  <2>3. at' \in [Requests -> Labels] /\ told' \in [Calls -> {"nothing", "done", "error", "lost"}]
    <3>1. /\ \E label \in {"gate", "end"} : at' = [at EXCEPT ![c] = label]
          /\ told' = told \/ told' = [told EXCEPT ![c] = @]
      BY <1>12 DEF InsertUses
    <3> QED
      BY <1>12, <3>1
  <2>4. \A d \in Calls : told'[d] # "nothing" => at'[d] = "end"
    BY <1>12 DEF InsertUses
  <2>5. UsesLeft'
    BY <1>12 DEF InsertUses
  <2>6. TypeOK'
    BY <1>12, <2>2, <2>3, <2>4 DEF InsertUses
  <2> QED
    BY <2>5, <2>6
<1>13. ASSUME TypeInv, ClockType', NEW c \in Calls, InsertResult(c) PROVE TypeInv'
  <2>1. todo[c] \in Nat /\ todo[c] >= 1 /\ Store(c, "result", todo[c])
    BY <1>13 DEF InsertResult
  <2>2. log' \in [Sessions -> Seq(Messages)] /\ late' \in [Calls -> Nat]
    BY <1>13, <2>1, StoreTyped DEF Kinds
  <2>3. todo' = [todo EXCEPT ![c] = @ - 1] /\ todo' \in [Calls -> 0..MaxUses]
    BY <1>13, <2>1 DEF InsertResult
  <2>4. ResultMoved(c)
    BY <1>13, ResultMoves DEF InsertResult
  <2>5. turn' \in [Calls -> 0..MaxTurns]
    <3>1. turn[c] \in 0..MaxTurns /\ turn[c] < MaxTurns /\ turn[c] + 1 \in 0..MaxTurns
      BY <1>13 DEF InsertResult
    <3>2. turn' = turn \/ turn' = [turn EXCEPT ![c] = @ + 1] BY <2>4 DEF ResultMoved
    <3>3. turn \in [Calls -> 0..MaxTurns] BY <1>13
    <3>4. QED BY <3>1, <3>2, <3>3
  <2>6. \E label \in Labels :
          /\ at' = [at EXCEPT ![c] = label]
          /\ told' = told \/ (label = "end" /\ told' = [told EXCEPT ![c] = "done"])
    BY <2>4 DEF ResultMoved
  <2>7. /\ at' \in [Requests -> Labels]
        /\ told' \in [Calls -> {"nothing", "done", "error", "lost"}]
        /\ \A d \in Calls : told'[d] # "nothing" => at'[d] = "end"
    <3>1. at[c] # "end"
      BY <1>13 DEF InsertResult
    <3> HIDE DEF TypeOK, Labels
    <3>2. TypeOK
      BY <1>13
    <3> QED
      BY <2>6, <3>1, <3>2, MovedTyped
  <2>8. TypeOK'
    BY <1>13, <2>2, <2>3, <2>5, <2>7 DEF InsertResult
  <2>9. UsesLeft'
    BY <1>13, <2>1, <2>3, <2>4 DEF InsertResult, ResultMoved
  <2> QED
    BY <2>8, <2>9
<1>14. ASSUME TypeInv, ClockType', NEW c \in Calls, Approve(c) PROVE TypeInv'
  BY <1>14 DEF Approve
<1>15. ASSUME TypeInv, ClockType', NEW c \in Calls, Refuse(c) PROVE TypeInv'
  BY <1>15 DEF Refuse
<1>16. ASSUME TypeInv, ClockType', NEW c \in Calls, EndTool(c) PROVE TypeInv'
  BY <1>16 DEF EndTool
<1>17. ASSUME TypeInv, ClockType', NEW c \in Calls, Lose(c) PROVE TypeInv'
  BY <1>17 DEF Lose
<1>18. ASSUME TypeInv, ClockType', NEW c \in Calls, Throw(c) PROVE TypeInv'
  BY <1>18 DEF Throw
<1>19. ASSUME TypeInv, ClockType', NEW q \in Squeezes, BeginForced(q) PROVE TypeInv'
  <2>1. BegunTo(q)
    BY <1>19, Begins
  <2> QED
    BY <1>19, <2>1 DEF BeginForced, BegunTo
<1>20. ASSUME TypeInv, ClockType', NEW q \in Squeezes, PersistForced(q) PROVE TypeInv'
  BY <1>20, PersistTyped DEF PersistForced
<1>21. ASSUME TypeInv, ClockType', NEW q \in Squeezes, ForceFails(q) PROVE TypeInv'
  BY <1>21 DEF ForceFails
<1>22. ASSUME TypeInv, ClockType', Cancel PROVE TypeInv'
  BY <1>22 DEF Cancel, Abort, AtWork
<1>23. ASSUME TypeInv, ClockType', NEW s \in Sessions, Clear(s) PROVE TypeInv'
  BY <1>23 DEF Clear, AtWork
<1>24. ASSUME TypeInv, ClockType', UNCHANGED vars PROVE TypeInv'
  BY <1>24 DEF vars
<1>25. ASSUME TypeInv, ClockType', Tick PROVE TypeInv'
  BY <1>25 DEF Tick
<1> QED
  BY <1>1, <1>2, <1>3, <1>4, <1>5, <1>6, <1>7, <1>8, <1>9, <1>10, <1>11, <1>12, <1>13, <1>14, <1>15, <1>16, <1>17, <1>18, <1>19, <1>20, <1>21, <1>22, <1>23, <1>24, <1>25, <1>26 DEF Next, Timed, Compaction, Model, Rows, ToolUse, Failure, Forcing

LEMMA TypeInit == Init => TypeInv
BY RequestsAssumption, LimitsAssumption
   DEF Init, TypeInv, TypeOK, UsesLeft, Labels, Suspended, AtTools

LEMMA TypesAlways == Spec => []TypeInv
BY TypeInit, TypeStep, PTL DEF Spec

\* TypeOK is an invariant of every instance.
THEOREM TypesHold == Spec => []TypeOK
<1>1. TypeInv => TypeOK
  BY DEF TypeInv
<1> QED
  BY <1>1, TypesAlways, PTL

-----------------------------------------------------------------------------
(* One call at work. *)

LEMMA OneWorksStep == TypeInv /\ OneWorks /\ [Next]_vars => OneWorks'
<1> USE RequestsAssumption DEF TypeOK, TypeInv, Labels, Suspended, Unstored, AtModel, AtTools, AtAnswer, callVars, OneWorks, AtWork
<1>1. ASSUME TypeInv, OneWorks, NEW c \in Calls, Post(c) PROVE OneWorks'
  BY <1>1 DEF Post, Abort
<1>2. ASSUME TypeInv, OneWorks, NEW c \in Calls, Summarise(c) PROVE OneWorks'
  BY <1>2 DEF Summarise
<1>3. ASSUME TypeInv, OneWorks, NEW c \in Calls, Skip(c) PROVE OneWorks'
  <2>1. SkipMoved(c)
    BY <1>3, SkipMoves DEF Skip
  <2> QED
    BY <1>3, <2>1 DEF Skip, SkipMoved
<1>4. ASSUME TypeInv, OneWorks, NEW c \in Calls, PersistSummary(c) PROVE OneWorks'
  <2>1. SkipMoved(c)
    BY <1>4, SkipMoves DEF PersistSummary
  <2> QED
    BY <1>4, <2>1 DEF PersistSummary, SkipMoved
<1>5. ASSUME TypeInv, OneWorks, NEW c \in Calls, ListTools(c) PROVE OneWorks'
  <2>1. at[c] = "listTools" /\ \A d \in Calls : d # c => at'[d] = at[d]
    BY <1>5 DEF ListTools
  <2> QED
    BY <1>5, <2>1 DEF ListTools
<1>6. ASSUME TypeInv, OneWorks, NEW c \in Calls, Load(c) PROVE OneWorks'
  BY <1>6 DEF Load
<1>7. ASSUME TypeInv, OneWorks, NEW c \in Calls, StopStream(c) PROVE OneWorks'
  BY <1>7 DEF StopStream
<1>8. ASSUME TypeInv, OneWorks, NEW c \in Calls, EndStream(c) PROVE OneWorks'
  BY <1>8 DEF EndStream
<1>9. ASSUME TypeInv, OneWorks, NEW c \in Calls, AskForTools(c) PROVE OneWorks'
  BY <1>9 DEF AskForTools
<1>10. ASSUME TypeInv, OneWorks, NEW c \in Calls, InsertUser(c) PROVE OneWorks'
  BY <1>10 DEF InsertUser
<1>11. ASSUME TypeInv, OneWorks, NEW c \in Calls, InsertAnswer(c) PROVE OneWorks'
  BY <1>11 DEF InsertAnswer
<1>12. ASSUME TypeInv, OneWorks, NEW c \in Calls, InsertUses(c) PROVE OneWorks'
  <2>1. at[c] = "insertUses" /\ \A d \in Calls : d # c => at'[d] = at[d]
    BY <1>12 DEF InsertUses
  <2> QED
    BY <1>12, <2>1 DEF InsertUses
<1>13. ASSUME TypeInv, OneWorks, NEW c \in Calls, InsertResult(c) PROVE OneWorks'
  <2>1. ResultMoved(c)
    BY <1>13, ResultMoves DEF InsertResult
  <2> QED
    BY <1>13, <2>1 DEF InsertResult, ResultMoved
<1>14. ASSUME TypeInv, OneWorks, NEW c \in Calls, Approve(c) PROVE OneWorks'
  BY <1>14 DEF Approve
<1>15. ASSUME TypeInv, OneWorks, NEW c \in Calls, Refuse(c) PROVE OneWorks'
  BY <1>15 DEF Refuse
<1>16. ASSUME TypeInv, OneWorks, NEW c \in Calls, EndTool(c) PROVE OneWorks'
  BY <1>16 DEF EndTool
<1>17. ASSUME TypeInv, OneWorks, NEW c \in Calls, Lose(c) PROVE OneWorks'
  BY <1>17 DEF Lose
<1>18. ASSUME TypeInv, OneWorks, NEW c \in Calls, Throw(c) PROVE OneWorks'
  BY <1>18 DEF Throw
<1>19. ASSUME TypeInv, OneWorks, NEW q \in Squeezes, BeginForced(q) PROVE OneWorks'
  <2>1. BegunTo(q)
    BY <1>19, Begins
  <2> QED
    BY <1>19, <2>1 DEF BeginForced, BegunTo
<1>20. ASSUME TypeInv, OneWorks, NEW q \in Squeezes, PersistForced(q) PROVE OneWorks'
  BY <1>20 DEF PersistForced
<1>21. ASSUME TypeInv, OneWorks, NEW q \in Squeezes, ForceFails(q) PROVE OneWorks'
  BY <1>21 DEF ForceFails
<1>22. ASSUME TypeInv, OneWorks, Cancel PROVE OneWorks'
  BY <1>22 DEF Cancel, Abort
<1>23. ASSUME TypeInv, OneWorks, NEW s \in Sessions, Clear(s) PROVE OneWorks'
  BY <1>23 DEF Clear
<1>24. ASSUME TypeInv, OneWorks, UNCHANGED vars PROVE OneWorks'
  BY <1>24 DEF vars
<1>25. ASSUME TypeInv, OneWorks, Tick PROVE OneWorks'
  BY <1>25 DEF Tick
<1> QED
  BY <1>1, <1>2, <1>3, <1>4, <1>5, <1>6, <1>7, <1>8, <1>9, <1>10, <1>11, <1>12, <1>13, <1>14, <1>15, <1>16, <1>17, <1>18, <1>19, <1>20, <1>21, <1>22, <1>23, <1>24, <1>25 DEF Next, Timed, Compaction, Model, Rows, ToolUse, Failure, Forcing

LEMMA OneWorksAlways == Spec => []OneWorks
<1>1. Init => OneWorks
  BY DEF Init, OneWorks, AtWork, Suspended, Unstored, AtModel, AtTools, AtAnswer
<1> QED
  BY <1>1, OneWorksStep, TypesAlways, PTL DEF Spec

\* Only Approve starts a tool, and it looks at the signal.
StartsUnaborted ==
  \A c \in Calls : at[c] = "gate" /\ at'[c] = "execute" => c \notin aborted

LEMMA GateStep == TypeInv /\ [Next]_vars => StartsUnaborted
<1> USE RequestsAssumption DEF TypeOK, TypeInv, Labels, Suspended, Unstored, AtModel, AtTools, AtAnswer, callVars, StartsUnaborted
<1>1. ASSUME TypeInv, NEW c \in Calls, Post(c) PROVE StartsUnaborted
  BY <1>1 DEF Post, Abort, AtWork
<1>2. ASSUME TypeInv, NEW c \in Calls, Summarise(c) PROVE StartsUnaborted
  BY <1>2 DEF Summarise
<1>3. ASSUME TypeInv, NEW c \in Calls, Skip(c) PROVE StartsUnaborted
  <2>1. SkipMoved(c)
    BY <1>3, SkipMoves DEF Skip
  <2> QED
    BY <1>3, <2>1 DEF Skip, SkipMoved
<1>4. ASSUME TypeInv, NEW c \in Calls, PersistSummary(c) PROVE StartsUnaborted
  <2>1. SkipMoved(c)
    BY <1>4, SkipMoves DEF PersistSummary
  <2> QED
    BY <1>4, <2>1 DEF PersistSummary, SkipMoved
<1>5. ASSUME TypeInv, NEW c \in Calls, ListTools(c) PROVE StartsUnaborted
  <2>1. at[c] = "listTools" /\ \A d \in Calls : d # c => at'[d] = at[d]
    BY <1>5 DEF ListTools
  <2> QED
    BY <1>5, <2>1
<1>6. ASSUME TypeInv, NEW c \in Calls, Load(c) PROVE StartsUnaborted
  BY <1>6 DEF Load
<1>7. ASSUME TypeInv, NEW c \in Calls, StopStream(c) PROVE StartsUnaborted
  BY <1>7 DEF StopStream
<1>8. ASSUME TypeInv, NEW c \in Calls, EndStream(c) PROVE StartsUnaborted
  BY <1>8 DEF EndStream
<1>9. ASSUME TypeInv, NEW c \in Calls, AskForTools(c) PROVE StartsUnaborted
  BY <1>9 DEF AskForTools
<1>10. ASSUME TypeInv, NEW c \in Calls, InsertUser(c) PROVE StartsUnaborted
  BY <1>10 DEF InsertUser
<1>11. ASSUME TypeInv, NEW c \in Calls, InsertAnswer(c) PROVE StartsUnaborted
  BY <1>11 DEF InsertAnswer
<1>12. ASSUME TypeInv, NEW c \in Calls, InsertUses(c) PROVE StartsUnaborted
  BY <1>12 DEF InsertUses
<1>13. ASSUME TypeInv, NEW c \in Calls, InsertResult(c) PROVE StartsUnaborted
  <2>1. ResultMoved(c)
    BY <1>13, ResultMoves DEF InsertResult
  <2> QED
    BY <1>13, <2>1 DEF InsertResult, ResultMoved
<1>14. ASSUME TypeInv, NEW c \in Calls, Approve(c) PROVE StartsUnaborted
  BY <1>14 DEF Approve
<1>15. ASSUME TypeInv, NEW c \in Calls, Refuse(c) PROVE StartsUnaborted
  BY <1>15 DEF Refuse
<1>16. ASSUME TypeInv, NEW c \in Calls, EndTool(c) PROVE StartsUnaborted
  BY <1>16 DEF EndTool
<1>17. ASSUME TypeInv, NEW c \in Calls, Lose(c) PROVE StartsUnaborted
  BY <1>17 DEF Lose
<1>18. ASSUME TypeInv, NEW c \in Calls, Throw(c) PROVE StartsUnaborted
  BY <1>18 DEF Throw
<1>19. ASSUME TypeInv, NEW q \in Squeezes, BeginForced(q) PROVE StartsUnaborted
  BY <1>19 DEF BeginForced
<1>20. ASSUME TypeInv, NEW q \in Squeezes, PersistForced(q) PROVE StartsUnaborted
  BY <1>20 DEF PersistForced
<1>21. ASSUME TypeInv, NEW q \in Squeezes, ForceFails(q) PROVE StartsUnaborted
  BY <1>21 DEF ForceFails
<1>22. ASSUME TypeInv, Cancel PROVE StartsUnaborted
  BY <1>22 DEF Cancel, Abort, AtWork
<1>23. ASSUME TypeInv, NEW s \in Sessions, Clear(s) PROVE StartsUnaborted
  BY <1>23 DEF Clear, AtWork
<1>24. ASSUME TypeInv, UNCHANGED vars PROVE StartsUnaborted
  BY <1>24 DEF vars
<1>25. ASSUME TypeInv, Tick PROVE StartsUnaborted
  BY <1>25 DEF Tick
<1> QED
  BY <1>1, <1>2, <1>3, <1>4, <1>5, <1>6, <1>7, <1>8, <1>9, <1>10, <1>11, <1>12, <1>13, <1>14, <1>15, <1>16, <1>17, <1>18, <1>19, <1>20, <1>21, <1>22, <1>23, <1>24, <1>25 DEF Next, Timed, Compaction, Model, Rows, ToolUse, Failure, Forcing

\* A tool is started only for the call nobody superseded or cancelled: Approve
\* looks at the signal, and OneWorks says whose signal it is.
THEOREM ToolsForCurrentHolds == Spec => ToolsForCurrent
<1> DEFINE Started == \A c \in Calls : at[c] = "gate" /\ at'[c] = "execute" =>
             current = {c} /\ c \notin aborted
<1>1. TypeInv /\ OneWorks /\ [Next]_vars => Started
  BY GateStep DEF StartsUnaborted, OneWorks, AtWork, Suspended, AtTools
<1>2. Started => [Started]_vars
  OBVIOUS
<1> QED
  BY <1>1, OneWorksAlways, TypesAlways, PTL DEF Spec, ToolsForCurrent

-----------------------------------------------------------------------------
(* What an aborted call still writes. *)

LEMMA NoneAfterOneStep == TypeInv /\ NoneAfterOne /\ [Next]_vars => NoneAfterOne'
<1> USE RequestsAssumption DEF TypeOK, TypeInv, Labels, Suspended, Unstored, AtModel, AtTools, AtAnswer, callVars, NoneAfterOne
<1>1. ASSUME TypeInv, NoneAfterOne, NEW c \in Calls, Post(c) PROVE NoneAfterOne'
  BY <1>1 DEF Post, Abort, AtWork
<1>2. ASSUME TypeInv, NoneAfterOne, NEW c \in Calls, Summarise(c) PROVE NoneAfterOne'
  BY <1>2 DEF Summarise
<1>3. ASSUME TypeInv, NoneAfterOne, NEW c \in Calls, Skip(c) PROVE NoneAfterOne'
  <2>1. SkipMoved(c)
    BY <1>3, SkipMoves DEF Skip
  <2>2. /\ \/ at[c] \in {"pre", "preSummary"} /\ at'[c] = "insert"
           \/ at[c] \in {"post", "postSummary"} /\ at'[c] = "end"
        /\ \A d \in Calls : d # c => at'[d] = at[d]
    BY <1>3, <2>1 DEF SkipMoved
  <2> QED
    BY <1>3, <2>2 DEF Skip
<1>4. ASSUME TypeInv, NoneAfterOne, NEW c \in Calls, PersistSummary(c) PROVE NoneAfterOne'
  <2>1. SkipMoved(c)
    BY <1>4, SkipMoves DEF PersistSummary
  <2>2. /\ \/ at[c] \in {"pre", "preSummary"} /\ at'[c] = "insert"
           \/ at[c] \in {"post", "postSummary"} /\ at'[c] = "end"
        /\ \A d \in Calls : d # c => at'[d] = at[d]
    BY <1>4, <2>1 DEF SkipMoved
  <2> QED
    BY <1>4, <2>2 DEF PersistSummary
<1>5. ASSUME TypeInv, NoneAfterOne, NEW c \in Calls, ListTools(c) PROVE NoneAfterOne'
  <2>1. /\ at[c] = "listTools" /\ at'[c] \in {"load", "end"}
        /\ \A d \in Calls : d # c => at'[d] = at[d]
    BY <1>5 DEF ListTools
  <2> QED
    BY <1>5, <2>1 DEF ListTools
<1>6. ASSUME TypeInv, NoneAfterOne, NEW c \in Calls, Load(c) PROVE NoneAfterOne'
  BY <1>6 DEF Load
<1>7. ASSUME TypeInv, NoneAfterOne, NEW c \in Calls, StopStream(c) PROVE NoneAfterOne'
  BY <1>7 DEF StopStream
<1>8. ASSUME TypeInv, NoneAfterOne, NEW c \in Calls, EndStream(c) PROVE NoneAfterOne'
  BY <1>8 DEF EndStream
<1>9. ASSUME TypeInv, NoneAfterOne, NEW c \in Calls, AskForTools(c) PROVE NoneAfterOne'
  BY <1>9 DEF AskForTools
<1>10. ASSUME TypeInv, NoneAfterOne, NEW c \in Calls, InsertUser(c) PROVE NoneAfterOne'
  BY <1>10 DEF InsertUser, Store
<1>11. ASSUME TypeInv, NoneAfterOne, NEW c \in Calls, InsertAnswer(c) PROVE NoneAfterOne'
  BY <1>11 DEF InsertAnswer, Store
<1>12. ASSUME TypeInv, NoneAfterOne, NEW c \in Calls, InsertUses(c) PROVE NoneAfterOne'
  BY <1>12 DEF InsertUses, Store
<1>13. ASSUME TypeInv, NoneAfterOne, NEW c \in Calls, InsertResult(c) PROVE NoneAfterOne'
  <2>1. ResultMoved(c)
    BY <1>13, ResultMoves DEF InsertResult
  <2>2. /\ at[c] = "insertResult"
        /\ at'[c] \in {"gate", "load", "end"}
        /\ c \in aborted => at'[c] = "end"
        /\ \A d \in Calls : d # c => at'[d] = at[d]
    BY <1>13, <2>1 DEF InsertResult, ResultMoved
  <2>3. aborted' = aborted /\ late' = [late EXCEPT ![c] = IF c \in aborted THEN @ + 1 ELSE @]
    BY <1>13 DEF InsertResult, Store
  <2> QED
    BY <1>13, <2>2, <2>3
<1>14. ASSUME TypeInv, NoneAfterOne, NEW c \in Calls, Approve(c) PROVE NoneAfterOne'
  BY <1>14 DEF Approve
<1>15. ASSUME TypeInv, NoneAfterOne, NEW c \in Calls, Refuse(c) PROVE NoneAfterOne'
  BY <1>15 DEF Refuse
<1>16. ASSUME TypeInv, NoneAfterOne, NEW c \in Calls, EndTool(c) PROVE NoneAfterOne'
  BY <1>16 DEF EndTool
<1>17. ASSUME TypeInv, NoneAfterOne, NEW c \in Calls, Lose(c) PROVE NoneAfterOne'
  BY <1>17 DEF Lose
<1>18. ASSUME TypeInv, NoneAfterOne, NEW c \in Calls, Throw(c) PROVE NoneAfterOne'
  BY <1>18 DEF Throw
<1>19. ASSUME TypeInv, NoneAfterOne, NEW q \in Squeezes, BeginForced(q) PROVE NoneAfterOne'
  BY <1>19 DEF BeginForced
<1>20. ASSUME TypeInv, NoneAfterOne, NEW q \in Squeezes, PersistForced(q) PROVE NoneAfterOne'
  BY <1>20 DEF PersistForced
<1>21. ASSUME TypeInv, NoneAfterOne, NEW q \in Squeezes, ForceFails(q) PROVE NoneAfterOne'
  BY <1>21 DEF ForceFails
<1>22. ASSUME TypeInv, NoneAfterOne, Cancel PROVE NoneAfterOne'
  BY <1>22 DEF Cancel, Abort, AtWork
<1>23. ASSUME TypeInv, NoneAfterOne, NEW s \in Sessions, Clear(s) PROVE NoneAfterOne'
  BY <1>23 DEF Clear, AtWork
<1>24. ASSUME TypeInv, NoneAfterOne, UNCHANGED vars PROVE NoneAfterOne'
  BY <1>24 DEF vars
<1>25. ASSUME TypeInv, NoneAfterOne, Tick PROVE NoneAfterOne'
  BY <1>25 DEF Tick
<1> QED
  BY <1>1, <1>2, <1>3, <1>4, <1>5, <1>6, <1>7, <1>8, <1>9, <1>10, <1>11, <1>12, <1>13, <1>14, <1>15, <1>16, <1>17, <1>18, <1>19, <1>20, <1>21, <1>22, <1>23, <1>24, <1>25 DEF Next, Timed, Compaction, Model, Rows, ToolUse, Failure, Forcing

\* At most one message of a call lands once it is aborted: each insertion leads an
\* aborted call to a place where nothing more is inserted.
THEOREM AbortedAddsOneHolds == Spec => []AbortedAddsOne
<1>1. Init => NoneAfterOne
  BY DEF Init, NoneAfterOne
<1>2. TypeInv /\ NoneAfterOne => AbortedAddsOne
  BY DEF NoneAfterOne, AbortedAddsOne
<1> QED
  BY <1>1, <1>2, NoneAfterOneStep, TypesAlways, PTL DEF Spec

-----------------------------------------------------------------------------
(* How a call ends. *)

LEMMA EndedStep == TypeInv /\ Ended /\ [Next]_vars => Ended'
<1> USE RequestsAssumption DEF TypeOK, TypeInv, Labels, Suspended, Unstored, AtModel, AtTools, AtAnswer, callVars, Ended, AtWork
<1>1. ASSUME TypeInv, Ended, NEW c \in Calls, Post(c) PROVE Ended'
  BY <1>1 DEF Post, Abort
<1>2. ASSUME TypeInv, Ended, NEW c \in Calls, Summarise(c) PROVE Ended'
  BY <1>2 DEF Summarise
<1>3. ASSUME TypeInv, Ended, NEW c \in Calls, Skip(c) PROVE Ended'
  <2>1. SkipMoved(c)
    BY <1>3, SkipMoves DEF Skip
  <2> QED
    BY <1>3, <2>1 DEF Skip, SkipMoved
<1>4. ASSUME TypeInv, Ended, NEW c \in Calls, PersistSummary(c) PROVE Ended'
  <2>1. SkipMoved(c)
    BY <1>4, SkipMoves DEF PersistSummary
  <2> QED
    BY <1>4, <2>1 DEF PersistSummary, SkipMoved
<1>5. ASSUME TypeInv, Ended, NEW c \in Calls, ListTools(c) PROVE Ended'
  BY <1>5 DEF ListTools
<1>6. ASSUME TypeInv, Ended, NEW c \in Calls, Load(c) PROVE Ended'
  BY <1>6 DEF Load
<1>7. ASSUME TypeInv, Ended, NEW c \in Calls, StopStream(c) PROVE Ended'
  BY <1>7 DEF StopStream
<1>8. ASSUME TypeInv, Ended, NEW c \in Calls, EndStream(c) PROVE Ended'
  BY <1>8 DEF EndStream
<1>9. ASSUME TypeInv, Ended, NEW c \in Calls, AskForTools(c) PROVE Ended'
  BY <1>9 DEF AskForTools
<1>10. ASSUME TypeInv, Ended, NEW c \in Calls, InsertUser(c) PROVE Ended'
  BY <1>10 DEF InsertUser
<1>11. ASSUME TypeInv, Ended, NEW c \in Calls, InsertAnswer(c) PROVE Ended'
  BY <1>11 DEF InsertAnswer
<1>12. ASSUME TypeInv, Ended, NEW c \in Calls, InsertUses(c) PROVE Ended'
  BY <1>12 DEF InsertUses
<1>13. ASSUME TypeInv, Ended, NEW c \in Calls, InsertResult(c) PROVE Ended'
  <2>1. ResultMoved(c)
    BY <1>13, ResultMoves DEF InsertResult
  <2> QED
    BY <1>13, <2>1 DEF InsertResult, ResultMoved
<1>14. ASSUME TypeInv, Ended, NEW c \in Calls, Approve(c) PROVE Ended'
  BY <1>14 DEF Approve
<1>15. ASSUME TypeInv, Ended, NEW c \in Calls, Refuse(c) PROVE Ended'
  BY <1>15 DEF Refuse
<1>16. ASSUME TypeInv, Ended, NEW c \in Calls, EndTool(c) PROVE Ended'
  BY <1>16 DEF EndTool
<1>17. ASSUME TypeInv, Ended, NEW c \in Calls, Lose(c) PROVE Ended'
  BY <1>17 DEF Lose
<1>18. ASSUME TypeInv, Ended, NEW c \in Calls, Throw(c) PROVE Ended'
  BY <1>18 DEF Throw
<1>19. ASSUME TypeInv, Ended, NEW q \in Squeezes, BeginForced(q) PROVE Ended'
  BY <1>19 DEF BeginForced
<1>20. ASSUME TypeInv, Ended, NEW q \in Squeezes, PersistForced(q) PROVE Ended'
  BY <1>20 DEF PersistForced
<1>21. ASSUME TypeInv, Ended, NEW q \in Squeezes, ForceFails(q) PROVE Ended'
  BY <1>21 DEF ForceFails
<1>22. ASSUME TypeInv, Ended, Cancel PROVE Ended'
  BY <1>22 DEF Cancel, Abort
<1>23. ASSUME TypeInv, Ended, NEW s \in Sessions, Clear(s) PROVE Ended'
  BY <1>23 DEF Clear
<1>24. ASSUME TypeInv, Ended, UNCHANGED vars PROVE Ended'
  BY <1>24 DEF vars
<1>25. ASSUME TypeInv, Ended, Tick PROVE Ended'
  BY <1>25 DEF Tick
<1> QED
  BY <1>1, <1>2, <1>3, <1>4, <1>5, <1>6, <1>7, <1>8, <1>9, <1>10, <1>11, <1>12, <1>13, <1>14, <1>15, <1>16, <1>17, <1>18, <1>19, <1>20, <1>21, <1>22, <1>23, <1>24, <1>25 DEF Next, Timed, Compaction, Model, Rows, ToolUse, Failure, Forcing

\* A call does not become one before its row again.
EarlyBefore == \A c \in Calls : Early(c)' => Early(c)

LEMMA EarlyStep == TypeInv /\ [Next]_vars => EarlyBefore
<1> USE RequestsAssumption DEF TypeOK, TypeInv, Labels, Suspended, Unstored, AtModel, AtTools, AtAnswer, callVars, EarlyBefore, Early
<1>1. ASSUME TypeInv, NEW c \in Calls, Post(c) PROVE EarlyBefore
  BY <1>1 DEF Post, Abort, AtWork
<1>2. ASSUME TypeInv, NEW c \in Calls, Summarise(c) PROVE EarlyBefore
  BY <1>2 DEF Summarise
<1>3. ASSUME TypeInv, NEW c \in Calls, Skip(c) PROVE EarlyBefore
  <2>1. SkipMoved(c)
    BY <1>3, SkipMoves DEF Skip
  <2> QED
    BY <1>3, <2>1 DEF Skip, SkipMoved
<1>4. ASSUME TypeInv, NEW c \in Calls, PersistSummary(c) PROVE EarlyBefore
  <2>1. SkipMoved(c)
    BY <1>4, SkipMoves DEF PersistSummary
  <2> QED
    BY <1>4, <2>1 DEF PersistSummary, SkipMoved
<1>5. ASSUME TypeInv, NEW c \in Calls, ListTools(c) PROVE EarlyBefore
  BY <1>5 DEF ListTools
<1>6. ASSUME TypeInv, NEW c \in Calls, Load(c) PROVE EarlyBefore
  BY <1>6 DEF Load
<1>7. ASSUME TypeInv, NEW c \in Calls, StopStream(c) PROVE EarlyBefore
  BY <1>7 DEF StopStream
<1>8. ASSUME TypeInv, NEW c \in Calls, EndStream(c) PROVE EarlyBefore
  BY <1>8 DEF EndStream
<1>9. ASSUME TypeInv, NEW c \in Calls, AskForTools(c) PROVE EarlyBefore
  BY <1>9 DEF AskForTools
<1>10. ASSUME TypeInv, NEW c \in Calls, InsertUser(c) PROVE EarlyBefore
  BY <1>10 DEF InsertUser
<1>11. ASSUME TypeInv, NEW c \in Calls, InsertAnswer(c) PROVE EarlyBefore
  BY <1>11 DEF InsertAnswer
<1>12. ASSUME TypeInv, NEW c \in Calls, InsertUses(c) PROVE EarlyBefore
  BY <1>12 DEF InsertUses
<1>13. ASSUME TypeInv, NEW c \in Calls, InsertResult(c) PROVE EarlyBefore
  <2>1. ResultMoved(c)
    BY <1>13, ResultMoves DEF InsertResult
  <2> QED
    BY <1>13, <2>1 DEF InsertResult, ResultMoved
<1>14. ASSUME TypeInv, NEW c \in Calls, Approve(c) PROVE EarlyBefore
  BY <1>14 DEF Approve
<1>15. ASSUME TypeInv, NEW c \in Calls, Refuse(c) PROVE EarlyBefore
  BY <1>15 DEF Refuse
<1>16. ASSUME TypeInv, NEW c \in Calls, EndTool(c) PROVE EarlyBefore
  BY <1>16 DEF EndTool
<1>17. ASSUME TypeInv, NEW c \in Calls, Lose(c) PROVE EarlyBefore
  BY <1>17 DEF Lose
<1>18. ASSUME TypeInv, NEW c \in Calls, Throw(c) PROVE EarlyBefore
  BY <1>18 DEF Throw
<1>19. ASSUME TypeInv, NEW q \in Squeezes, BeginForced(q) PROVE EarlyBefore
  BY <1>19 DEF BeginForced
<1>20. ASSUME TypeInv, NEW q \in Squeezes, PersistForced(q) PROVE EarlyBefore
  BY <1>20 DEF PersistForced
<1>21. ASSUME TypeInv, NEW q \in Squeezes, ForceFails(q) PROVE EarlyBefore
  BY <1>21 DEF ForceFails
<1>22. ASSUME TypeInv, Cancel PROVE EarlyBefore
  BY <1>22 DEF Cancel, Abort, AtWork
<1>23. ASSUME TypeInv, NEW s \in Sessions, Clear(s) PROVE EarlyBefore
  BY <1>23 DEF Clear, AtWork
<1>24. ASSUME TypeInv, UNCHANGED vars PROVE EarlyBefore
  BY <1>24 DEF vars
<1>25. ASSUME TypeInv, Tick PROVE EarlyBefore
  BY <1>25 DEF Tick
<1> QED
  BY <1>1, <1>2, <1>3, <1>4, <1>5, <1>6, <1>7, <1>8, <1>9, <1>10, <1>11, <1>12, <1>13, <1>14, <1>15, <1>16, <1>17, <1>18, <1>19, <1>20, <1>21, <1>22, <1>23, <1>24, <1>25 DEF Next, Timed, Compaction, Model, Rows, ToolUse, Failure, Forcing

\* What a step may do to the log.
LogFrame ==
  /\ home' = home
  /\ \/ log' = log
     \/ \E c \in Calls, kind \in Kinds \ {"summary"}, n \in Nat :
          /\ Store(c, kind, n) /\ at[c] \in Pending /\ at'[c] \notin Pending
          /\ kind = "user" => at'[c] = "listTools"
          /\ kind = "uses" => at[c] = "insertUses" /\ n = todo[c] /\ at'[c] \in {"gate", "end"}
          /\ kind = "result" => at[c] = "insertResult" /\ n = todo[c]
     \/ \E r \in Requests :
          Persist(r) /\ at[r] \notin Pending /\ at'[r] \in {"insert", "end"}
     \/ \E s \in Sessions : /\ log' = [log EXCEPT ![s] = <<>>]
                            /\ {c \in AtWork : home[c] = s} \subseteq wiped'

LEMMA LogStep == TypeInv /\ [Next]_vars => LogFrame
<1> USE RequestsAssumption DEF TypeOK, TypeInv, Labels, Suspended, Unstored, AtModel, AtTools, AtAnswer, callVars, LogFrame, Pending
<1>1. ASSUME TypeInv, NEW c \in Calls, Post(c) PROVE LogFrame
  BY <1>1 DEF Post, Abort, AtWork
<1>2. ASSUME TypeInv, NEW c \in Calls, Summarise(c) PROVE LogFrame
  BY <1>2 DEF Summarise
<1>3. ASSUME TypeInv, NEW c \in Calls, Skip(c) PROVE LogFrame
  BY <1>3 DEF Skip
<1>4. ASSUME TypeInv, NEW c \in Calls, PersistSummary(c) PROVE LogFrame
  <2>1. SkipMoved(c)
    BY <1>4, SkipMoves DEF PersistSummary
  <2>2. at'[c] \in {"insert", "end"} /\ at[c] \notin Pending
    BY <1>4, <2>1 DEF SkipMoved, PersistSummary
  <2> QED
    BY <1>4, <2>2 DEF PersistSummary
<1>5. ASSUME TypeInv, NEW c \in Calls, ListTools(c) PROVE LogFrame
  BY <1>5 DEF ListTools
<1>6. ASSUME TypeInv, NEW c \in Calls, Load(c) PROVE LogFrame
  BY <1>6 DEF Load
<1>7. ASSUME TypeInv, NEW c \in Calls, StopStream(c) PROVE LogFrame
  BY <1>7 DEF StopStream
<1>8. ASSUME TypeInv, NEW c \in Calls, EndStream(c) PROVE LogFrame
  BY <1>8 DEF EndStream
<1>9. ASSUME TypeInv, NEW c \in Calls, AskForTools(c) PROVE LogFrame
  BY <1>9 DEF AskForTools
<1>10. ASSUME TypeInv, NEW c \in Calls, InsertUser(c) PROVE LogFrame
  <2>1. Store(c, "user", 0) /\ home' = home /\ at[c] = "insert" /\ at'[c] = "listTools"
    BY <1>10 DEF InsertUser
  <2>2. "user" \in Kinds \ {"summary"} /\ 0 \in Nat
    BY <1>10 DEF Kinds
  <2> QED
    BY <2>1, <2>2
<1>11. ASSUME TypeInv, NEW c \in Calls, InsertAnswer(c) PROVE LogFrame
  <2>1. Store(c, "answer", 0) /\ home' = home /\ at[c] = "answer" /\ at'[c] = "post"
    BY <1>11 DEF InsertAnswer
  <2>2. "answer" \in Kinds \ {"summary"} /\ 0 \in Nat
    BY <1>11 DEF Kinds
  <2> QED
    BY <2>1, <2>2
<1>12. ASSUME TypeInv, NEW c \in Calls, InsertUses(c) PROVE LogFrame
  <2>1. Store(c, "uses", todo[c]) /\ home' = home
        /\ at[c] = "insertUses" /\ at'[c] \in {"gate", "end"}
    BY <1>12 DEF InsertUses
  <2>2. "uses" \in Kinds \ {"summary"} /\ todo[c] \in Nat
    BY <1>12 DEF Kinds
  <2> QED
    BY <2>1, <2>2
<1>13. ASSUME TypeInv, NEW c \in Calls, InsertResult(c) PROVE LogFrame
  <2>0. ResultMoved(c)
    BY <1>13, ResultMoves DEF InsertResult
  <2>1. /\ Store(c, "result", todo[c]) /\ home' = home /\ at[c] = "insertResult"
        /\ at'[c] \in {"gate", "load", "end"}
    BY <1>13, <2>0 DEF InsertResult, ResultMoved
  <2>2. "result" \in Kinds \ {"summary"} /\ todo[c] \in Nat
    BY <1>13 DEF Kinds
  <2> QED
    BY <2>1, <2>2
<1>14. ASSUME TypeInv, NEW c \in Calls, Approve(c) PROVE LogFrame
  BY <1>14 DEF Approve
<1>15. ASSUME TypeInv, NEW c \in Calls, Refuse(c) PROVE LogFrame
  BY <1>15 DEF Refuse
<1>16. ASSUME TypeInv, NEW c \in Calls, EndTool(c) PROVE LogFrame
  BY <1>16 DEF EndTool
<1>17. ASSUME TypeInv, NEW c \in Calls, Lose(c) PROVE LogFrame
  BY <1>17 DEF Lose
<1>18. ASSUME TypeInv, NEW c \in Calls, Throw(c) PROVE LogFrame
  BY <1>18 DEF Throw
<1>19. ASSUME TypeInv, NEW q \in Squeezes, BeginForced(q) PROVE LogFrame
  BY <1>19 DEF BeginForced
<1>20. ASSUME TypeInv, NEW q \in Squeezes, PersistForced(q) PROVE LogFrame
  <2>1. Persist(q) /\ home' = home /\ at[q] \notin Pending /\ at'[q] = "end"
    BY <1>20 DEF PersistForced
  <2> QED
    BY <2>1
<1>21. ASSUME TypeInv, NEW q \in Squeezes, ForceFails(q) PROVE LogFrame
  BY <1>21 DEF ForceFails
<1>22. ASSUME TypeInv, Cancel PROVE LogFrame
  BY <1>22 DEF Cancel, Abort, AtWork
<1>23. ASSUME TypeInv, NEW s \in Sessions, Clear(s) PROVE LogFrame
  BY <1>23 DEF Clear, AtWork
<1>24. ASSUME TypeInv, UNCHANGED vars PROVE LogFrame
  BY <1>24 DEF vars
<1>25. ASSUME TypeInv, Tick PROVE LogFrame
  BY <1>25 DEF Tick
<1> QED
  BY <1>1, <1>2, <1>3, <1>4, <1>5, <1>6, <1>7, <1>8, <1>9, <1>10, <1>11, <1>12, <1>13, <1>14, <1>15, <1>16, <1>17, <1>18, <1>19, <1>20, <1>21, <1>22, <1>23, <1>24, <1>25 DEF Next, Timed, Compaction, Model, Rows, ToolUse, Failure, Forcing

LEMMA UnsaidStep == TypeInv /\ Unsaid /\ [Next]_vars => Unsaid'
<1> SUFFICES ASSUME TypeInv, Unsaid, [Next]_vars, NEW c \in Calls, Early(c)'
             PROVE  NoRow(c)'
  BY DEF Unsaid
<1>1. NoRow(c)
  BY EarlyStep DEF Unsaid, EarlyBefore
<1>2. at'[c] # "listTools"
  BY TypeStep DEF TypeInv, TypeOK, Early, Unstored
<1>3. home' = home /\ TypeOK /\ LogFrame
  BY LogStep DEF LogFrame, TypeInv
<1>4. CASE log' = log
  BY <1>1, <1>3, <1>4 DEF NoRow
<1>5. ASSUME NEW d \in Calls, NEW kind \in Kinds \ {"summary"}, NEW n \in Nat,
             Store(d, kind, n), kind = "user" => at'[d] = "listTools"
      PROVE  NoRow(c)'
  BY <1>1, <1>2, <1>3, <1>5, StoreKeeps
<1>6. ASSUME NEW r \in Requests, Persist(r) PROVE NoRow(c)'
  BY <1>1, <1>3, <1>6, PersistKeeps
<1>7. ASSUME NEW s \in Sessions, log' = [log EXCEPT ![s] = <<>>] PROVE NoRow(c)'
  <2>1. log'[home'[c]] = <<>> \/ log'[home'[c]] = log[home[c]]
    BY <1>3, <1>7 DEF TypeOK
  <2> QED
    BY <1>1, <1>3, <2>1 DEF NoRow
<1> QED
  BY <1>3, <1>4, <1>5, <1>6, <1>7 DEF LogFrame

\* Every call that nobody aborted tells its client how it ended, and one whose
\* failure is only logged has stored nothing: failures before the row are outside
\* the try, and Unsaid says that there is no row then.
THEOREM EndAnnouncedHolds == Spec => []EndAnnounced
<1>1. Init => Ended /\ Unsaid
  BY RequestsAssumption DEF Init, Ended, Unsaid, NoRow, Early
<1>2. TypeInv /\ Ended /\ Unsaid => EndAnnounced
  BY DEF Ended, Unsaid, NoRow, Early, EndAnnounced, Said
<1> QED
  BY <1>1, <1>2, EndedStep, UnsaidStep, TypesAlways, PTL DEF Spec

-----------------------------------------------------------------------------
(* The stamps. *)

\* Whatever lands is stamped by now.
LEMMA RowsStamped ==
  ASSUME TypeInv, Clocked, [Next]_vars, NEW s \in Sessions, NEW i \in DOMAIN log'[s]
  PROVE  log'[s][i].ms <= now
<1>1. LogFrame /\ TypeOK /\ log[s] \in Seq(Messages)
  BY LogStep DEF TypeInv, TypeOK
<1>2. ASSUME NEW m \in Messages, m.ms <= now, NEW t \in Sessions,
             log' = [log EXCEPT ![t] = Append(@, m)]
      PROVE  log'[s][i].ms <= now
  <2>1. log'[s] = log[s] \/ log'[s] = Append(log[s], m)
    BY <1>1, <1>2 DEF TypeOK
  <2>2. CASE log'[s] = log[s]
    BY <2>2 DEF Clocked
  <2>3. CASE log'[s] = Append(log[s], m)
    BY <1>1, <1>2, <2>3 DEF Clocked
  <2> QED
    BY <2>1, <2>2, <2>3
<1>3. CASE log' = log
  BY <1>3 DEF Clocked
<1>4. ASSUME NEW c \in Calls, NEW kind \in Kinds, NEW n \in Nat, Store(c, kind, n)
      PROVE  log'[s][i].ms <= now
  <2> DEFINE m == [kind |-> kind, by |-> c, turn |-> turn[c], n |-> n, ms |-> since[c]]
  <2>1. m \in Messages /\ m.ms <= now /\ home[c] \in Sessions
    BY <1>1 DEF TypeOK, Messages, Clocked
  <2>2. log' = [log EXCEPT ![home[c]] = Append(@, m)]
    BY <1>4 DEF Store
  <2> HIDE DEF m
  <2> QED
    BY <1>2, <2>1, <2>2
<1>5. ASSUME NEW r \in Requests, Persist(r) PROVE log'[s][i].ms <= now
  <2>1. PICK ms \in since[r]..now : log' = [log EXCEPT ![home[r]] = Append(@,
          [kind |-> "summary", by |-> r, turn |-> 0, n |-> 0, ms |-> ms])]
    BY <1>5 DEF Persist
  <2> DEFINE m == [kind |-> "summary", by |-> r, turn |-> 0, n |-> 0, ms |-> ms]
  <2>2. m \in Messages /\ m.ms <= now /\ home[r] \in Sessions
    BY <1>1 DEF TypeOK, Messages, Kinds
  <2>3. log' = [log EXCEPT ![home[r]] = Append(@, m)]
    BY <2>1
  <2> HIDE DEF m
  <2> QED
    BY <1>2, <2>2, <2>3
<1>6. ASSUME NEW t \in Sessions, log' = [log EXCEPT ![t] = <<>>] PROVE log'[s][i].ms <= now
  <2>1. log'[s] = log[s] \/ log'[s] = <<>>
    BY <1>1, <1>6 DEF TypeOK
  <2> QED
    BY <2>1 DEF Clocked
<1> QED
  BY <1>1, <1>3, <1>4, <1>5, <1>6 DEF LogFrame

\* Rows of others do not count.
LEMMA OlderKept ==
  ASSUME TypeOK, NEW s \in Sessions, NEW m \in Messages, home' = home,
         log' = [log EXCEPT ![s] = Append(@, m)],
         NEW c \in Calls, Older(c), since'[c] = since[c], m.by # c
  PROVE  Older(c)'
<1>1. home[c] \in Sessions /\ log[home[c]] \in Seq(Messages)
  BY DEF TypeOK
<1>2. log'[home'[c]] = log[home[c]] \/ log'[home'[c]] = Append(log[home[c]], m)
  BY <1>1 DEF TypeOK
<1>3. CASE log'[home'[c]] = log[home[c]]
  BY <1>3 DEF Older
<1>4. CASE log'[home'[c]] = Append(log[home[c]], m)
  BY <1>1, <1>4 DEF Older
<1> QED
  BY <1>2, <1>3, <1>4

LEMMA InOrderStep == TypeInv /\ InOrder /\ [Next]_vars => InOrder'
<1> SUFFICES ASSUME TypeInv, InOrder, [Next]_vars PROVE InOrder'
  OBVIOUS
<1>1. Clocked /\ TypeOK /\ LogFrame /\ ClockFrame /\ TypeInv'
  BY LogStep, ClockStep, TypeStep DEF InOrder, TypeInv
<1>2. now \in Nat /\ now' \in Nat /\ \A r \in Requests : since[r] \in Nat
  BY <1>1 DEF TypeInv, TypeOK
<1>3. log' \in [Sessions -> Seq(Messages)]
  BY <1>1 DEF TypeInv, TypeOK
<1>4. \A s \in Sessions : \A i \in DOMAIN log'[s] : log'[s][i].ms <= now /\ log'[s][i].ms \in Nat
  <2> SUFFICES ASSUME NEW s \in Sessions, NEW i \in DOMAIN log'[s]
               PROVE  log'[s][i].ms <= now /\ log'[s][i].ms \in Nat
    OBVIOUS
  <2>1. log'[s][i].ms <= now
    BY <1>1, RowsStamped
  <2>2. log'[s] \in Seq(Messages)
    BY <1>3
  <2>3. log'[s][i] \in Messages
    BY <2>2
  <2> QED
    BY <2>1, <2>3 DEF Messages
<1>5. Clocked'
  <2>1. \A r \in Requests : since'[r] <= now'
    BY <1>1, <1>2 DEF Clocked, ClockFrame
  <2>2. \A s \in Sessions : \A i \in DOMAIN log'[s] : log'[s][i].ms <= now'
    BY <1>1, <1>2, <1>4 DEF ClockFrame
  <2> QED
    BY <2>1, <2>2 DEF Clocked
<1>6. ASSUME NEW c \in Calls, at'[c] \in Pending PROVE Older(c)'
  <2>0. home[c] \in Sessions /\ home' = home
    BY <1>1 DEF TypeOK, LogFrame
  <2>1. CASE since'[c] = now
    BY <1>4, <2>0, <2>1 DEF Older
  <2>2. CASE at'[c] = at[c] /\ since'[c] = since[c]
    <3>0. Older(c) /\ at[c] \in Pending
      BY <1>6, <2>2 DEF InOrder
    <3>1. CASE log' = log
      BY <2>0, <2>2, <3>0, <3>1 DEF Older
    <3>2. ASSUME NEW d \in Calls, NEW kind \in Kinds, NEW n \in Nat, Store(d, kind, n),
                 at'[d] \notin Pending
          PROVE  Older(c)'
      <4> DEFINE m == [kind |-> kind, by |-> d, turn |-> turn[d], n |-> n, ms |-> since[d]]
      <4>1. d # c
        BY <1>6, <3>2
      <4>2. m \in Messages /\ m.by # c /\ home[d] \in Sessions
        BY <1>1, <4>1 DEF TypeOK, Messages
      <4>3. log' = [log EXCEPT ![home[d]] = Append(@, m)]
        BY <3>2 DEF Store
      <4> HIDE DEF m
      <4> QED
        BY <1>1, <2>0, <2>2, <3>0, <4>2, <4>3, OlderKept
    <3>3. ASSUME NEW r \in Requests, Persist(r), at[r] \notin Pending PROVE Older(c)'
      <4>1. PICK ms \in since[r]..now : log' = [log EXCEPT ![home[r]] = Append(@,
              [kind |-> "summary", by |-> r, turn |-> 0, n |-> 0, ms |-> ms])]
        BY <3>3 DEF Persist
      <4> DEFINE m == [kind |-> "summary", by |-> r, turn |-> 0, n |-> 0, ms |-> ms]
      <4>2. r # c
        BY <3>0, <3>3
      <4>3. m \in Messages /\ m.by # c /\ home[r] \in Sessions
        BY <1>1, <4>2 DEF TypeOK, Messages, Kinds
      <4>4. log' = [log EXCEPT ![home[r]] = Append(@, m)]
        BY <4>1
      <4> HIDE DEF m
      <4> QED
        BY <1>1, <2>0, <2>2, <3>0, <4>3, <4>4, OlderKept
    <3>4. ASSUME NEW s \in Sessions, log' = [log EXCEPT ![s] = <<>>] PROVE Older(c)'
      <4>1. log'[home'[c]] = log[home[c]] \/ log'[home'[c]] = <<>>
        BY <1>1, <2>0, <3>4 DEF TypeOK
      <4> QED
        BY <2>2, <3>0, <4>1 DEF Older
    <3> QED
      BY <1>1, <3>1, <3>2, <3>3, <3>4 DEF LogFrame
  <2> QED
    BY <1>1, <1>6, <2>1, <2>2 DEF ClockFrame
<1> QED
  BY <1>5, <1>6 DEF InOrder

LEMMA InOrderAlways == Spec => []InOrder
<1>1. Init => InOrder
  BY RequestsAssumption DEF Init, InOrder, Clocked, Pending
<1> QED
  BY <1>1, InOrderStep, TypesAlways, PTL DEF Spec

-----------------------------------------------------------------------------
(* What a call reads. *)

\* A call gets to its prompt only by storing its message, and is marked for good.
HearFrame ==
  /\ wiped \subseteq wiped'
  /\ \A c \in Calls :
       at'[c] \in Hearing => at[c] \in Hearing \/ (at[c] = "insert" /\ Store(c, "user", 0))

LEMMA HearStep == TypeInv /\ [Next]_vars => HearFrame
<1> USE RequestsAssumption DEF TypeOK, TypeInv, Labels, Suspended, Unstored, AtModel, AtTools, AtAnswer, callVars, HearFrame, Hearing
<1>1. ASSUME TypeInv, NEW c \in Calls, Post(c) PROVE HearFrame
  BY <1>1 DEF Post, Abort, AtWork
<1>2. ASSUME TypeInv, NEW c \in Calls, Summarise(c) PROVE HearFrame
  BY <1>2 DEF Summarise
<1>3. ASSUME TypeInv, NEW c \in Calls, Skip(c) PROVE HearFrame
  <2>1. SkipMoved(c)
    BY <1>3, SkipMoves DEF Skip
  <2> QED
    BY <1>3, <2>1 DEF Skip, SkipMoved
<1>4. ASSUME TypeInv, NEW c \in Calls, PersistSummary(c) PROVE HearFrame
  <2>1. SkipMoved(c)
    BY <1>4, SkipMoves DEF PersistSummary
  <2> QED
    BY <1>4, <2>1 DEF PersistSummary, SkipMoved
<1>5. ASSUME TypeInv, NEW c \in Calls, ListTools(c) PROVE HearFrame
  BY <1>5 DEF ListTools
<1>6. ASSUME TypeInv, NEW c \in Calls, Load(c) PROVE HearFrame
  BY <1>6 DEF Load
<1>7. ASSUME TypeInv, NEW c \in Calls, StopStream(c) PROVE HearFrame
  BY <1>7 DEF StopStream
<1>8. ASSUME TypeInv, NEW c \in Calls, EndStream(c) PROVE HearFrame
  BY <1>8 DEF EndStream
<1>9. ASSUME TypeInv, NEW c \in Calls, AskForTools(c) PROVE HearFrame
  BY <1>9 DEF AskForTools
<1>10. ASSUME TypeInv, NEW c \in Calls, InsertUser(c) PROVE HearFrame
  BY <1>10 DEF InsertUser
<1>11. ASSUME TypeInv, NEW c \in Calls, InsertAnswer(c) PROVE HearFrame
  BY <1>11 DEF InsertAnswer
<1>12. ASSUME TypeInv, NEW c \in Calls, InsertUses(c) PROVE HearFrame
  BY <1>12 DEF InsertUses
<1>13. ASSUME TypeInv, NEW c \in Calls, InsertResult(c) PROVE HearFrame
  <2>1. ResultMoved(c)
    BY <1>13, ResultMoves DEF InsertResult
  <2> QED
    BY <1>13, <2>1 DEF InsertResult, ResultMoved
<1>14. ASSUME TypeInv, NEW c \in Calls, Approve(c) PROVE HearFrame
  BY <1>14 DEF Approve
<1>15. ASSUME TypeInv, NEW c \in Calls, Refuse(c) PROVE HearFrame
  BY <1>15 DEF Refuse
<1>16. ASSUME TypeInv, NEW c \in Calls, EndTool(c) PROVE HearFrame
  BY <1>16 DEF EndTool
<1>17. ASSUME TypeInv, NEW c \in Calls, Lose(c) PROVE HearFrame
  BY <1>17 DEF Lose
<1>18. ASSUME TypeInv, NEW c \in Calls, Throw(c) PROVE HearFrame
  BY <1>18 DEF Throw
<1>19. ASSUME TypeInv, NEW q \in Squeezes, BeginForced(q) PROVE HearFrame
  BY <1>19 DEF BeginForced
<1>20. ASSUME TypeInv, NEW q \in Squeezes, PersistForced(q) PROVE HearFrame
  BY <1>20 DEF PersistForced
<1>21. ASSUME TypeInv, NEW q \in Squeezes, ForceFails(q) PROVE HearFrame
  BY <1>21 DEF ForceFails
<1>22. ASSUME TypeInv, Cancel PROVE HearFrame
  BY <1>22 DEF Cancel, Abort, AtWork
<1>23. ASSUME TypeInv, NEW s \in Sessions, Clear(s) PROVE HearFrame
  BY <1>23 DEF Clear, AtWork
<1>24. ASSUME TypeInv, UNCHANGED vars PROVE HearFrame
  BY <1>24 DEF vars
<1>25. ASSUME TypeInv, Tick PROVE HearFrame
  BY <1>25 DEF Tick
<1> QED
  BY <1>1, <1>2, <1>3, <1>4, <1>5, <1>6, <1>7, <1>8, <1>9, <1>10, <1>11, <1>12, <1>13, <1>14, <1>15, <1>16, <1>17, <1>18, <1>19, <1>20, <1>21, <1>22, <1>23, <1>24, <1>25 DEF Next, Timed, Compaction, Model, Rows, ToolUse, Failure, Forcing

LEMMA HearsStep == TypeInv /\ InOrder /\ Hears /\ [Next]_vars => Hears'
<1> SUFFICES ASSUME TypeInv, InOrder, Hears, [Next]_vars,
                    NEW c \in Calls, at'[c] \in Hearing, c \notin wiped'
             PROVE  Heard(c)'
  BY DEF Hears
<1>1. home' = home /\ TypeOK /\ LogFrame
  BY LogStep DEF LogFrame, TypeInv
<1>2. CASE at[c] = "insert" /\ Store(c, "user", 0)
  <2>1. Older(c)
    BY <1>2 DEF InOrder, Pending
  <2> QED
    BY <1>1, <1>2, <2>1, HeardStart
<1>3. CASE ~(at[c] = "insert" /\ Store(c, "user", 0))
  <2>1. Heard(c) /\ at[c] \in Hearing
    BY <1>3, HearStep DEF Hears, HearFrame
  <2>2. CASE log' = log
    BY <1>1, <2>1, <2>2 DEF Heard
  <2>3. ASSUME NEW d \in Calls, NEW kind \in Kinds \ {"summary"}, NEW n \in Nat,
               Store(d, kind, n)
        PROVE  Heard(c)'
    BY <1>1, <2>1, <2>3, StoreHeard
  <2>4. ASSUME NEW r \in Requests, Persist(r), at'[r] \in {"insert", "end"}
        PROVE  Heard(c)'
    <3>1. c # r
      BY <2>4 DEF Hearing, AtModel, AtTools
    <3> QED
      BY <1>1, <2>1, <2>4, <3>1, PersistHeard
  <2>5. ASSUME NEW s \in Sessions, log' = [log EXCEPT ![s] = <<>>],
               {x \in AtWork : home[x] = s} \subseteq wiped'
        PROVE  Heard(c)'
    <3>1. home[c] # s
      BY <2>1, <2>5 DEF AtWork, Suspended, Hearing
    <3>2. log'[home'[c]] = log[home[c]]
      BY <1>1, <2>5, <3>1 DEF TypeOK
    <3> QED
      BY <2>1, <3>2 DEF Heard
  <2> QED
    BY <1>1, <2>2, <2>3, <2>4, <2>5 DEF LogFrame
<1> QED
  BY <1>2, <1>3

\* Whenever a call reads its prompt its own message is there, unless a clear came in
\* between, and stamped no earlier than any summary of its own: the message is made
\* once the summary has landed, and nothing is stamped in the future.
THEOREM OwnMessageSeenHolds == Spec => []OwnMessageSeen
<1>1. Init => Hears
  BY DEF Init, Hears, Hearing, AtModel, AtTools
<1>2. TypeInv /\ Hears => OwnMessageSeen
  <2> SUFFICES ASSUME TypeInv, Hears, NEW c \in Calls, at[c] = "load", c \notin wiped
               PROVE  \E i \in Said(c, "user") : \A j \in Said(c, "summary") :
                        log[home[c]][j].ms <= log[home[c]][i].ms
    BY DEF OwnMessageSeen
  <2>1. Heard(c)
    BY DEF Hears, Hearing, AtModel
  <2> QED
    BY <2>1 DEF Heard, Said
<1> QED
  BY <1>1, <1>2, HearsStep, InOrderAlways, TypesAlways, PTL DEF Spec

-----------------------------------------------------------------------------
(* What a call asked for. *)

\* Where a call has answers still to write, and where it may yet read its prompt.
Open   == {"gate", "execute", "insertResult"}
Asking == {"idle"} \cup Unstored \cup AtModel \cup AtTools

\* Use k of row i is answered by a row stamped no earlier, or is still to be answered.
Answered(c, l, i, k) == \E j \in DOMAIN l :
  l[j].ms >= l[i].ms /\ l[j].kind = "result" /\ l[j].by = c /\ l[j].turn = l[i].turn /\ l[j].n = k
Due(c, l, i, k) == at[c] \in Open /\ l[i].turn = turn[c] /\ k <= todo[c]

Answers(c) ==
  LET l == log[home[c]] IN
  \A i \in DOMAIN l : l[i].kind = "uses" /\ l[i].by = c =>
    \A k \in 1..l[i].n : Answered(c, l, i, k) \/ Due(c, l, i, k)

Answering == \A c \in Calls : at[c] \in Asking => Answers(c)

\* How a call with answers to write moves: it keeps them, or writes the next.
AnswerMove(c) ==
  at'[c] \in Asking =>
    /\ at[c] \in Asking
    /\ at[c] \in Open =>
         \/ at'[c] \in Open /\ turn'[c] = turn[c] /\ todo'[c] = todo[c]
         \/ /\ at[c] = "insertResult" /\ Store(c, "result", todo[c])
            /\ \/ todo[c] = 1
               \/ at'[c] \in Open /\ turn'[c] = turn[c] /\ todo'[c] = todo[c] - 1
    /\ at'[c] \in Open => turn'[c] = turn[c] /\ (at[c] \notin Open => todo'[c] = todo[c])

LEMMA ResultMove ==
  ASSUME TypeInv, NEW c \in Calls, InsertResult(c)
  PROVE  AnswerMove(c)
<1> USE RequestsAssumption DEF TypeInv, TypeOK, AnswerMove, Open, Asking, Unstored, AtModel, AtTools
<1>1. at[c] = "insertResult" /\ Store(c, "result", todo[c]) /\ todo'[c] = todo[c] - 1
  BY DEF InsertResult
<1>2. CASE c \in aborted /\ Stop(c)
  BY <1>1, <1>2 DEF Stop
<1>3. CASE todo[c] > 1 /\ NextTool(c)
  BY <1>1, <1>3 DEF NextTool
<1>4. CASE todo[c] = 1 /\ EndTurn(c)
  BY <1>1, <1>4 DEF EndTurn
<1>5. QED BY <1>2, <1>3, <1>4 DEF InsertResult, AfterResult

LEMMA AnswerMoves ==
  ASSUME TypeInv, [Next]_vars, NEW c \in Calls
  PROVE  AnswerMove(c)
<1> USE RequestsAssumption
    DEF TypeInv, TypeOK, AnswerMove, Open, Asking, Unstored, AtModel, AtTools, AtAnswer, callVars
<1>1. ASSUME NEW d \in Calls, Post(d) PROVE AnswerMove(c)
  BY <1>1 DEF Post
<1>2. ASSUME NEW d \in Calls, Compaction(d) PROVE AnswerMove(c)
  <2>1. /\ at[d] \in {"pre", "preSummary", "post", "postSummary"}
        /\ \E label \in {"preSummary", "postSummary", "insert", "end"} :
              /\ at' = [at EXCEPT ![d] = label]
              /\ at[d] \in {"post", "postSummary"} => label \in {"postSummary", "end"}
        /\ turn' = turn /\ todo' = todo
    BY <1>2, SkipMoves DEF Compaction, Summarise, Skip, PersistSummary, SkipMoved
  <2>2. QED BY <2>1
<1>3. ASSUME NEW d \in Calls, Model(d) PROVE AnswerMove(c)
  BY <1>3 DEF Model, ListTools, Load, StopStream, EndStream, AskForTools
<1>4. ASSUME NEW d \in Calls, InsertUser(d) \/ InsertAnswer(d) PROVE AnswerMove(c)
  BY <1>4 DEF InsertUser, InsertAnswer
<1>5. ASSUME NEW d \in Calls, InsertUses(d) PROVE AnswerMove(c)
  BY <1>5 DEF InsertUses
<1>6. ASSUME NEW d \in Calls, InsertResult(d) PROVE AnswerMove(c)
  <2>1. CASE d = c BY <1>6, <2>1, ResultMove
  <2>2. CASE d # c
    <3>1. ResultMoved(d) /\ todo' = [todo EXCEPT ![d] = @ - 1]
      BY <1>6, ResultMoves DEF InsertResult
    <3>2. at'[c] = at[c] /\ turn'[c] = turn[c] /\ todo'[c] = todo[c]
      BY <2>2, <3>1 DEF ResultMoved
    <3>3. QED BY <3>2
  <2>3. QED BY <2>1, <2>2
<1>7. ASSUME NEW d \in Calls, ToolUse(d) \/ Failure(d) PROVE AnswerMove(c)
  BY <1>7 DEF ToolUse, Approve, Refuse, EndTool, Failure, Lose, Throw
<1>8. ASSUME NEW q \in Squeezes, Forcing(q) PROVE AnswerMove(c)
  BY <1>8 DEF Forcing, BeginForced, PersistForced, ForceFails
<1>9. CASE Cancel \/ (\E s \in Sessions : Clear(s)) \/ Tick \/ UNCHANGED vars
  BY <1>9 DEF Cancel, Clear, Tick, vars
<1>10. QED BY <1>1, <1>2, <1>3, <1>4, <1>5, <1>6, <1>7, <1>8, <1>9 DEF Next, Timed, Rows

\* A row more answers no less.
LEMMA AppendAnswers ==
  ASSUME NEW l \in Seq(Messages), NEW m \in Messages, NEW c, NEW i \in DOMAIN l, NEW k,
         Answered(c, l, i, k)
  PROVE  Answered(c, Append(l, m), i, k)
<1>1. PICK j \in DOMAIN l :
        l[j].ms >= l[i].ms /\ l[j].kind = "result" /\ l[j].by = c /\ l[j].turn = l[i].turn /\ l[j].n = k
  BY DEF Answered
<1>2. j \in DOMAIN Append(l, m) /\ Append(l, m)[j] = l[j] /\ Append(l, m)[i] = l[i]
  OBVIOUS
<1>3. QED BY <1>1, <1>2 DEF Answered

\* The uses of a longer log are answered if the old ones stay answered or due, and
\* those of the new row, if it is one of the call, are due.
LEMMA AppendKeeps ==
  ASSUME TypeOK, NEW c \in Calls, Answers(c), NEW s \in Sessions, NEW m \in Messages,
         log' = [log EXCEPT ![s] = Append(@, m)], home' = home,
         \A i, k \in Nat \ {0} : i \in DOMAIN log[home[c]] /\ Due(c, log[home[c]], i, k) =>
            \/ at'[c] \in Open /\ turn'[c] = turn[c] /\ k <= todo'[c]
            \/ /\ home[c] = s /\ m.kind = "result" /\ m.by = c
               /\ m.turn = turn[c] /\ m.n = k /\ Older(c) /\ m.ms = since[c],
         m.kind = "uses" /\ m.by = c =>
            at'[c] \in Open /\ m.turn = turn'[c] /\ m.n = todo'[c]
  PROVE  Answers(c)'
<1> DEFINE l == log[home[c]]
           h == log'[home'[c]]
<1>1. home[c] \in Sessions /\ l \in Seq(Messages)
  BY DEF TypeOK
<1>2. CASE home[c] # s
  <2>1. h = l
    BY <1>1, <1>2 DEF TypeOK
  <2> HIDE DEF h
  <2>2. ASSUME NEW i \in DOMAIN h, h[i].kind = "uses", h[i].by = c, NEW k \in 1..h[i].n
        PROVE  Answered(c, h, i, k) \/ (at'[c] \in Open /\ h[i].turn = turn'[c] /\ k <= todo'[c])
    <3>1. Answered(c, l, i, k) \/ Due(c, l, i, k)
      BY <2>1, <2>2 DEF Answers
    <3>2. i \in Nat \ {0} /\ k \in Nat \ {0} /\ i \in DOMAIN l
      <4>1. i \in DOMAIN l /\ h[i] = l[i]
        BY <2>1, <2>2
      <4>2. l[i] \in Messages /\ i \in Nat \ {0}
        BY <1>1, <4>1
      <4>3. l[i].n \in Nat
        BY <4>2 DEF Messages
      <4>4. QED BY <2>2, <4>1, <4>2, <4>3
    <3>3. QED BY <1>2, <2>1, <3>1, <3>2 DEF Due
  <2>3. QED BY <2>2 DEF Answers, Due, Answered, h
<1>3. CASE home[c] = s
  <2>1. h = Append(l, m) /\ DOMAIN h = DOMAIN l \cup {Len(l) + 1} /\ h[Len(l) + 1] = m
        /\ \A j \in DOMAIN l : h[j] = l[j] /\ j < Len(l) + 1
    BY <1>1, <1>3 DEF TypeOK
  <2> HIDE DEF h
  <2>2. ASSUME NEW i \in DOMAIN l, l[i].kind = "uses", l[i].by = c, NEW k \in 1..l[i].n
        PROVE  Answered(c, h, i, k) \/ (at'[c] \in Open /\ h[i].turn = turn'[c] /\ k <= todo'[c])
    <3>1. Answered(c, l, i, k) \/ Due(c, l, i, k)
      BY <2>2 DEF Answers
    <3>2. i \in Nat \ {0} /\ k \in Nat \ {0} /\ h[i] = l[i] /\ l[i].ms \in Nat
      <4>1. l[i] \in Messages
        BY <1>1, <2>2
      <4>2. l[i].n \in Nat /\ l[i].ms \in Nat
        BY <4>1 DEF Messages
      <4>3. QED BY <1>1, <2>1, <2>2, <4>2
    <3>3. CASE Answered(c, l, i, k)
      BY <1>1, <2>1, <3>3, AppendAnswers
    <3>4. CASE /\ Due(c, l, i, k) /\ m.kind = "result" /\ m.by = c /\ m.turn = turn[c]
               /\ m.n = k /\ Older(c) /\ m.ms = since[c]
      <4>1. l[i].ms <= since[c] /\ since[c] \in Nat
        BY <2>2, <3>4 DEF Older, TypeOK
      <4>2. h[Len(l) + 1].ms >= h[i].ms
        BY <2>1, <3>2, <3>4, <4>1
      <4>3. QED BY <2>1, <2>2, <3>2, <3>4, <4>2 DEF Answered, Due
    <3>5. QED BY <3>1, <3>2, <3>3, <3>4 DEF Due
  <2>3. ASSUME m.kind = "uses", m.by = c, NEW k \in 1..m.n
        PROVE  at'[c] \in Open /\ m.turn = turn'[c] /\ k <= todo'[c]
    BY <2>3
  <2>4. ASSUME NEW i \in DOMAIN h, h[i].kind = "uses", h[i].by = c, NEW k \in 1..h[i].n
        PROVE  Answered(c, h, i, k) \/ (at'[c] \in Open /\ h[i].turn = turn'[c] /\ k <= todo'[c])
    BY <2>1, <2>2, <2>3, <2>4
  <2>5. QED BY <2>4 DEF Answers, Due, Answered, h
<1>4. QED BY <1>2, <1>3

LEMMA AnsweringStep == TypeInv /\ InOrder /\ Answering /\ [Next]_vars => Answering'
<1> SUFFICES ASSUME TypeInv, InOrder, Answering, [Next]_vars, NEW c \in Calls, at'[c] \in Asking
             PROVE  Answers(c)'
  BY DEF Answering
<1> DEFINE Results == at[c] = "insertResult" /\ Store(c, "result", todo[c])
<1>1. AnswerMove(c)
  BY AnswerMoves
<1>2. home' = home /\ TypeOK /\ LogFrame /\ Answers(c)
  BY <1>1, LogStep DEF LogFrame, TypeInv, AnswerMove, Answering
<1>3. turn[c] \in Nat /\ todo[c] \in Nat /\ home[c] \in Sessions
  BY <1>2 DEF TypeOK
\* A call that does not write a result keeps what is due.
<1>4. ASSUME ~Results
      PROVE  \A l, i, k : Due(c, l, i, k) =>
               at'[c] \in Open /\ turn'[c] = turn[c] /\ todo'[c] = todo[c]
  BY <1>1, <1>4 DEF AnswerMove, Due
<1>5. CASE Results
  <2> DEFINE m == [kind |-> "result", by |-> c, turn |-> turn[c], n |-> todo[c], ms |-> since[c]]
  <2>1. /\ m \in Messages /\ m.kind = "result" /\ m.by = c /\ m.turn = turn[c]
        /\ m.n = todo[c] /\ m.ms = since[c]
    BY <1>2, <1>3 DEF Messages, Kinds, TypeOK
  <2>2. log' = [log EXCEPT ![home[c]] = Append(@, m)]
    BY <1>5 DEF Store
  <2> HIDE DEF m
  <2>3. ASSUME NEW i \in Nat \ {0}, NEW k \in Nat \ {0}, Due(c, log[home[c]], i, k)
        PROVE  (at'[c] \in Open /\ turn'[c] = turn[c] /\ k <= todo'[c]) \/ k = todo[c]
    <3>1. at[c] \in Open /\ k <= todo[c]
      BY <2>3 DEF Due
    <3>2. QED BY <1>1, <1>3, <3>1 DEF AnswerMove
  <2>4. Older(c)
    BY <1>5 DEF InOrder, Pending
  <2>5. QED BY <1>2, <1>3, <2>1, <2>2, <2>3, <2>4, AppendKeeps
<1>6. ASSUME ~Results, log' = log
      PROVE  Answers(c)'
  <2> DEFINE l == log[home[c]]
  <2>1. ASSUME NEW i \in DOMAIN l, l[i].kind = "uses", l[i].by = c, NEW k \in 1..l[i].n
        PROVE  Answered(c, l, i, k) \/ (at'[c] \in Open /\ l[i].turn = turn'[c] /\ k <= todo'[c])
    <3>1. Answered(c, l, i, k) \/ Due(c, l, i, k) BY <1>2, <2>1 DEF Answers
    <3>2. Due(c, l, i, k) => at'[c] \in Open /\ turn'[c] = turn[c] /\ todo'[c] = todo[c] BY <1>4, <1>6
    <3>3. Due(c, l, i, k) => l[i].turn = turn[c] /\ k <= todo[c] BY DEF Due
    <3>4. QED BY <3>1, <3>2, <3>3
  <2>2. log'[home'[c]] = l BY <1>2, <1>6
  <2> HIDE DEF l
  <2>3. QED BY <2>1, <2>2 DEF Answers, Answered, Due
<1>7. ASSUME ~Results, NEW d \in Calls, NEW kind \in Kinds, NEW n \in Nat,
             Store(d, kind, n),
             kind = "uses" => at[d] = "insertUses" /\ n = todo[d] /\ at'[d] \in {"gate", "end"}
      PROVE  Answers(c)'
  <2> DEFINE m == [kind |-> kind, by |-> d, turn |-> turn[d], n |-> n, ms |-> since[d]]
  <2>1. m \in Messages /\ m.kind = kind /\ m.by = d /\ m.turn = turn[d] /\ m.n = n
        /\ home[d] \in Sessions
    BY <1>2 DEF Messages, TypeOK
  <2>2. log' = [log EXCEPT ![home[d]] = Append(@, m)]
    BY <1>7 DEF Store
  <2> HIDE DEF m
  <2>3. \A i, k \in Nat \ {0} : Due(c, log[home[c]], i, k) =>
          at'[c] \in Open /\ turn'[c] = turn[c] /\ k <= todo'[c]
    BY <1>4, <1>7 DEF Due
  <2>4. ASSUME m.kind = "uses", m.by = c
        PROVE  at'[c] \in Open /\ m.turn = turn'[c] /\ m.n = todo'[c]
    <3>1. d = c /\ kind = "uses" /\ at[c] = "insertUses" /\ n = todo[c] /\ at'[c] = "gate"
      BY <1>7, <2>1, <2>4 DEF Asking, Unstored, AtModel, AtTools
    <3>2. QED BY <1>1, <2>1, <3>1 DEF AnswerMove, Open
  <2>5. QED BY <1>2, <2>1, <2>2, <2>3, <2>4, AppendKeeps
<1>8. ASSUME ~Results, NEW r \in Requests, Persist(r)
      PROVE  Answers(c)'
  <2>0. PICK ms \in since[r]..now : log' = [log EXCEPT ![home[r]] = Append(@,
          [kind |-> "summary", by |-> r, turn |-> 0, n |-> 0, ms |-> ms])]
    BY <1>8 DEF Persist
  <2> DEFINE m == [kind |-> "summary", by |-> r, turn |-> 0, n |-> 0, ms |-> ms]
  <2>1. m \in Messages /\ m.kind = "summary" /\ home[r] \in Sessions
    BY <1>2 DEF Messages, Kinds, TypeOK
  <2>2. log' = [log EXCEPT ![home[r]] = Append(@, m)]
    BY <2>0
  <2> HIDE DEF m
  <2>3. \A i, k \in Nat \ {0} : Due(c, log[home[c]], i, k) =>
          at'[c] \in Open /\ turn'[c] = turn[c] /\ k <= todo'[c]
    BY <1>4, <1>8 DEF Due
  <2>4. QED BY <1>2, <2>1, <2>2, <2>3, AppendKeeps
<1>9. ASSUME ~Results, NEW s \in Sessions, log' = [log EXCEPT ![s] = <<>>]
      PROVE  Answers(c)'
  <2>1. CASE home[c] = s
    <3>1. log'[home'[c]] = <<>>
      BY <1>2, <1>9, <2>1 DEF TypeOK
    <3>2. QED BY <3>1 DEF Answers
  <2>2. CASE home[c] # s
    <3>1. log'[home'[c]] = log[home[c]]
      BY <1>2, <1>9, <2>2 DEF TypeOK
    <3>2. QED BY <1>2, <1>4, <1>9, <3>1 DEF Answers, Answered, Due
  <2>3. QED BY <2>1, <2>2
<1>10. QED BY <1>2, <1>5, <1>6, <1>7, <1>8, <1>9 DEF LogFrame

\* Whenever a call reads its prompt all its tool uses in the log are answered: it
\* leaves its tools only through the last result of the turn, whatever others append
\* or clear meanwhile, and each result is made once its use has landed.
THEOREM UsesAnsweredHolds == Spec => []UsesAnswered
<1>1. Init => Answering
  BY RequestsAssumption DEF Init, Answering, Answers
<1>2. TypeInv /\ Answering => UsesAnswered
  <2> SUFFICES ASSUME TypeInv, Answering, NEW c \in Calls, at[c] = "load",
                      NEW i \in Said(c, "uses"), NEW k \in 1..log[home[c]][i].n
               PROVE  \E j \in Said(c, "result") :
                        /\ log[home[c]][j].ms >= log[home[c]][i].ms
                        /\ log[home[c]][j].turn = log[home[c]][i].turn /\ log[home[c]][j].n = k
    BY DEF UsesAnswered
  <2>1. Answers(c)
    BY DEF Answering, Asking, AtModel
  <2>2. Answered(c, log[home[c]], i, k)
    BY <2>1 DEF Answers, Said, Due, Open
  <2>3. QED BY <2>2 DEF Answered, Said
<1>3. QED
  BY <1>1, <1>2, AnsweringStep, InOrderAlways, TypesAlways, PTL DEF Spec
=============================================================================
