----------------------------- MODULE Compactions -----------------------------
(***************************************************************************)
(* What a compaction reads and leaves: compaction-service.ts with the two         *)
(* compactors of packages/compaction, over the rows of one session.  (When the     *)
(* chat compacts, and what it sends, is Conversation.)                           *)
(*                                                                         *)
(* The log is in the order of its stamps, taken to be that in which rows land and   *)
(* to be strict; where they differ is Conversation.                              *)
(*                                                                         *)
(* A message is its number in the log with its tokens; a summary says which        *)
(* messages it was made of, and whether a model wrote it: the snip compactor only   *)
(* notes how many there were.                                                    *)
(***************************************************************************)
EXTENDS Integers, Sequences, SequencesExt, FiniteSetsExt

CONSTANTS
  KeepLast,       \* keepTurns
  Window,         \* modelContextWindow
  SnipPercent,    \* autoThreshold
  FullPercent,    \* the full compactor's own threshold
  MessageSizes,   \* tokens a message may have
  Requesters,     \* calls of maybeCompact and of compact
  MaxLog          \* bound: messages and summaries

ASSUME CompactionsAssumption ==
  /\ KeepLast \in Nat /\ Window \in Nat \ {0} /\ MaxLog \in Nat
  /\ SnipPercent \in Nat /\ FullPercent \in Nat
  /\ MessageSizes \subseteq Nat \ {0}

VARIABLES
  chatLog,     \* sequence of the session's rows
  request,     \* [requester -> [step, kind, made: the rows it summarises]]
  crossed      \* history: pairs of requests that were at work at once

compactionVars == <<chatLog, request, crossed>>

NoRequest == [step |-> "idle", kind |-> "none", made |-> {}]
Plain(size, anchor) == [tokens |-> size, anchor |-> anchor, boundary |-> FALSE,
                        by |-> "nobody", covers |-> {}, written |-> FALSE]

CompactionsRest ==
  /\ chatLog = <<>>
  /\ request = [q \in Requesters |-> NoRequest]
  /\ crossed = {}
CompactionsInit == CompactionsRest

-----------------------------------------------------------------------------
(* Selections: rows are named by their place in the log. *)

\* The rows after the last boundary, up to the last there is.
ActiveMessages(rows) ==
  SelectLastInSeq(rows, LAMBDA m : m.boundary) + 1 .. Len(rows)

TokensOf(rows, places) == FoldSet(LAMBDA i, n : n + rows[i].tokens, 0, places)
Exceeds(percent, used) == used * 100 > percent * Window

\* isAnchorMessage
IsAnchor(m) == m.anchor \/ m.boundary

\* selectRange: without the first row and the last ones, from the first to the last
\* that is no anchor, and what is between these, anchors as well.
selectRange(rows, active, keep) ==
  LET candidates == {i \in active : i > Min(active) /\ i + keep <= Max(active) /\ ~IsAnchor(rows[i])}
  IN IF candidates = {} THEN {} ELSE Min(candidates)..Max(candidates)

-----------------------------------------------------------------------------
InWork(q) == request[q].step \in {"summary", "persist"}
RequestIs(q, r) == request' = [request EXCEPT ![q] = r]

\* The chat goes on, whoever is compacting; a message may be an anchor.
AddChatMessage ==
  /\ Len(chatLog) < MaxLog
  /\ \E size \in MessageSizes, anchor \in BOOLEAN : chatLog' = Append(chatLog, Plain(size, anchor))
  /\ UNCHANGED <<request, crossed>>

\* Reads the rows; the request then works on what it read.
BeginRequest(q, kind, step, made) ==
  /\ RequestIs(q, [step |-> step, kind |-> kind, made |-> made])
  /\ crossed' = IF step = "none" THEN crossed
                ELSE crossed \cup {{q, r} : r \in {r \in Requesters \ {q} : InWork(r)}}
  /\ UNCHANGED chatLog

\* maybeCompact: the compactors in their order, the first that applies and saves
\* tokens.  The full one asks its model before it is known to save none.
MaybeCompact(q) ==
  LET active == ActiveMessages(chatLog)
      used == TokensOf(chatLog, active)
      range == IF active = {} THEN {} ELSE selectRange(chatLog, active, KeepLast)
      snips == Exceeds(SnipPercent, used) /\ range # {}
  IN /\ request[q].step = "idle"
     /\ \/ snips /\ BeginRequest(q, "snip", "persist", range)
        \/ ~snips /\ Exceeds(FullPercent, used) /\ BeginRequest(q, "full", "summary", range)
        \/ ~snips /\ ~Exceeds(FullPercent, used) /\ BeginRequest(q, "none", "none", {})

\* compact, forceCompact: a summary of whatever there is, keeping two at the most.
ForceCompaction(q) ==
  LET active == ActiveMessages(chatLog) IN
  /\ request[q].step = "idle"
  /\ \/ active = {} /\ BeginRequest(q, "none", "none", {})
     \/ /\ active # {}
        /\ BeginRequest(q, "forced", "summary", selectRange(chatLog, active, Min({2, KeepLast})))

\* The model's summary is there; it fails; an automatic one that saves nothing is
\* dropped.
Summarised(q) ==
  /\ request[q].step = "summary"
  /\ \E step \in {"persist", "none"} :
       /\ request[q].kind = "full" /\ request[q].made = {} => step = "none"
       /\ RequestIs(q, [request[q] EXCEPT !.step = step])
  /\ UNCHANGED <<chatLog, crossed>>

\* persistResult: the summary goes to the end of the log, behind what was read, what
\* was kept and what came since, as a boundary and an anchor.
PersistResult(q) ==
  LET r == request[q] IN
  /\ r.step = "persist"
  /\ chatLog' = Append(chatLog,
       [tokens |-> 1, anchor |-> TRUE, boundary |-> TRUE, by |-> q, covers |-> r.made,
        written |-> r.kind # "snip"])
  /\ RequestIs(q, [r EXCEPT !.step = "persisted"])
  /\ UNCHANGED crossed

CompactionsNext ==
  \/ AddChatMessage
  \/ \E q \in Requesters : MaybeCompact(q) \/ ForceCompaction(q) \/ Summarised(q) \/ PersistResult(q)

-----------------------------------------------------------------------------
Boundaries == {i \in DOMAIN chatLog : chatLog[i].boundary}

\* Whatever requests come one after another, no message goes into two summaries, and no
\* summary into a later one; two requests at work at once may both hold it.
SummarisedOnce ==
  \A i, j \in Boundaries :
    /\ i # j /\ {chatLog[i].by, chatLog[j].by} \notin crossed => chatLog[i].covers \cap chatLog[j].covers = {}
    /\ {chatLog[i].by, chatLog[j].by} \notin crossed => j \notin chatLog[i].covers

\* What a summary is made of came before it, and none of it is in a prompt again: a
\* prompt starts at the last boundary.
SummariesClose ==
  \A i \in Boundaries : \A k \in chatLog[i].covers : k < i

\* With the thresholds in their usual order a compaction nobody asked for never holds a
\* word of what it replaces: the snip compactor goes first, and where it finds nothing
\* to replace the full one finds nothing either.
AutomaticOnlyCounts ==
  SnipPercent <= FullPercent =>
    \A i \in Boundaries : chatLog[i].written => request[chatLog[i].by].kind = "forced"

SummariesTrue == SummarisedOnce /\ SummariesClose /\ AutomaticOnlyCounts
=============================================================================
