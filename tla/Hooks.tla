-------------------------------- MODULE Hooks --------------------------------
(***************************************************************************)
(* packages/hooks: the scripts of one directory are loaded into a list, again  *)
(* when the directory is seen to change, while the engine and the              *)
(* conversations ask the list's hooks whether something may be done (gate) or   *)
(* tell them that it was (fire).  Files are read one by one, a hook's answer    *)
(* races its time, and each run is recorded.                                   *)
(*                                                                         *)
(* A hook's file is a shell script, whose header names its events and whose     *)
(* text is read again by each run, or a module, which is loaded whole.  Not     *)
(* represented: the text of a hook's answer, the log, and a hook that does not  *)
(* read its input, which may hold up the write before the time starts.          *)
(***************************************************************************)
EXTENDS Integers, Sequences, SequencesExt, FiniteSetsExt, Functions

CONSTANTS
  HookFiles,    \* sequence: the names a file may have, in the order of sort()
  ShellFiles,   \* those that are shell scripts, the others modules
  Events,       \* of which a hook names some
  HookCalls,    \* calls of gate and fire
  MaxHookChanges    \* bound: changes of the directory

FileSet == Range(HookFiles)
ASSUME HooksAssumption ==
  /\ IsInjective(HookFiles) /\ ShellFiles \subseteq FileSet
  /\ MaxHookChanges \in Nat

NoFile  == [there |-> FALSE, valid |-> FALSE, events |-> {}, version |-> 0]
Good(events) == [there |-> TRUE, valid |-> TRUE, events |-> events, version |-> 0]
Broken  == [there |-> TRUE, valid |-> FALSE, events |-> {}, version |-> 0]

VARIABLES
  hooksDir,   \* [file -> what it is]
  dirChanges,
  watched,    \* the directory is watched
  unseen,     \* a change of which the watcher has not told yet
  armed,      \* the timer of reload
  loads,      \* loads at work, by their start: sequence of [entries: the names to
              \* read, read: how many were, found: the hooks]
  hooks,      \* #hooks
  asking,      \* [call -> gate or fire, its event, its hooks and how far they are]
  hookRuns,   \* hook_runs, each stored, or logged when that failed
  overlapped  \* history: two loads were at work at once

hookVars == <<hooksDir, dirChanges, watched, unseen, armed, loads, hooks, asking, hookRuns, overlapped>>
loadingVars == <<hooksDir, dirChanges, watched, unseen, armed, loads, hooks, overlapped>>

NotAsked == [kind |-> "none", hooks |-> <<>>, runs |-> <<>>, verdict |-> "none"]

\* What load makes of the files: those that are there and can be read, and, of the
\* scripts, that name an event there is.
Loaded(f, file) ==
  IF file.there /\ file.valid /\ (f \in ShellFiles => file.events # {})
  THEN <<[file |-> f, events |-> file.events, version |-> file.version]>> ELSE <<>>
Entries(dir) == SelectSeq(HookFiles, LAMBDA f : dir[f].there)
FirstHooks(dir, entries, k) == FlattenSeq([i \in 1..k |-> Loaded(entries[i], dir[entries[i]])])
LoadAll(dir) == FirstHooks(dir, Entries(dir), Len(Entries(dir)))

HooksRest ==
  /\ hooksDir = [f \in FileSet |-> NoFile] /\ dirChanges = 0
  /\ watched = FALSE /\ unseen = FALSE /\ armed = FALSE
  /\ loads = <<>> /\ hooks = <<>>
  /\ asking = [c \in HookCalls |-> NotAsked]
  /\ hookRuns = {} /\ overlapped = FALSE

\* The daemon has loaded the directory; Bun.file(dir).exists() may say there is none.
HooksInit ==
  /\ hooksDir \in [FileSet -> {NoFile, Good(Events)}]
  /\ dirChanges = 0
  /\ watched \in BOOLEAN /\ unseen = FALSE /\ armed = FALSE
  /\ loads = <<>> /\ hooks = LoadAll(hooksDir)
  /\ asking = [c \in HookCalls |-> NotAsked]
  /\ hookRuns = {} /\ overlapped = FALSE

-----------------------------------------------------------------------------
(* Loading. *)

\* An editor writes or removes a file.
ChangeFile(f, file) ==
  /\ dirChanges < MaxHookChanges
  /\ dirChanges' = dirChanges + 1
  /\ hooksDir' = [hooksDir EXCEPT ![f] = [file EXCEPT !.version = dirChanges + 1]]
  /\ unseen' = watched
  /\ UNCHANGED <<watched, armed, loads, hooks, asking, hookRuns, overlapped>>

\* Mutated form: an event does not start the time again, and a load at work will do.
ReloadOnce ==
  /\ unseen
  /\ unseen' = FALSE
  /\ armed' = (loads = <<>>)
  /\ UNCHANGED <<hooksDir, dirChanges, watched, loads, hooks, asking, hookRuns, overlapped>>

\* reload: the 500 ms start again.
Reload ==
  /\ unseen
  /\ unseen' = FALSE
  /\ armed' = TRUE
  /\ UNCHANGED <<hooksDir, dirChanges, watched, loads, hooks, asking, hookRuns, overlapped>>

\* The time is over: a load reads the directory, whatever load is still at work.
StartLoad ==
  /\ armed
  /\ armed' = FALSE
  /\ loads' = Append(loads, [entries |-> Entries(hooksDir), read |-> 0, found |-> <<>>])
  /\ overlapped' = (overlapped \/ loads # <<>>)
  /\ UNCHANGED <<hooksDir, dirChanges, watched, unseen, hooks, asking, hookRuns>>

\* The next file is read; one that is gone or broken is skipped.
LoadFile(l) ==
  /\ loads[l].read < Len(loads[l].entries)
  /\ LET f == loads[l].entries[loads[l].read + 1]
     IN loads' = [loads EXCEPT ![l] = [entries |-> @.entries, read |-> @.read + 1,
                                       found |-> @.found \o Loaded(f, hooksDir[f])]]
  /\ UNCHANGED <<hooksDir, dirChanges, watched, unseen, armed, hooks, asking, hookRuns, overlapped>>

\* updateHooks.
EndLoad(l) ==
  /\ loads[l].read = Len(loads[l].entries)
  /\ hooks' = loads[l].found
  /\ loads' = RemoveAt(loads, l)
  /\ UNCHANGED <<hooksDir, dirChanges, watched, unseen, armed, asking, hookRuns, overlapped>>

-----------------------------------------------------------------------------
(* Asking. *)

Matching(event) == SelectSeq(hooks, LAMBDA h : event \in h.events)

\* A script that was removed cannot be started; a module is run as it was loaded.
Started(h) ==
  IF h.file \in ShellFiles /\ ~hooksDir[h.file].there THEN "throws" ELSE "running"

\* A gate runs the first of the hooks that match, fire all of them; the list is that
\* of this moment.
AskHooks(c, kind, event) ==
  /\ asking[c] = NotAsked
  /\ LET matching == Matching(event)
     IN asking' = [asking EXCEPT ![c] =
          [kind |-> kind, hooks |-> matching,
           runs |-> [i \in 1..Len(matching) |->
                       IF kind = "fire" \/ i = 1 THEN Started(matching[i]) ELSE "waiting"],
           verdict |-> IF matching # <<>> THEN "none"
                       ELSE IF kind = "gate" THEN "allowed" ELSE "settled"]]
  /\ UNCHANGED <<hookRuns, loadingVars>>

\* A hook answers in time, throws, or is late: only an answer may block.
HookAnswers(c, i, answer) ==
  /\ asking[c].runs[i] = "running"
  /\ asking' = [asking EXCEPT ![c].runs[i] = answer]
  /\ UNCHANGED <<hookRuns, loadingVars>>

\* The run is recorded, or it is logged that it was not; then gate goes on or is over,
\* and fire is over with its last run.
RecordRun(c, i) ==
  LET a == asking[c]
      over == {j \in DOMAIN a.runs : a.runs[j] = "over"} \cup {i}
  IN /\ a.runs[i] \in {"blocks", "passes", "throws", "late"}
     /\ hookRuns' = hookRuns \cup
          {[call |-> c, hook |-> i, blocked |-> a.runs[i] = "blocks"]}
     /\ asking' = [asking EXCEPT
          ![c].runs = [j \in DOMAIN @ |->
             IF j = i THEN "over"
             ELSE IF j = i + 1 /\ a.kind = "gate" /\ a.runs[i] # "blocks"
             THEN Started(a.hooks[j]) ELSE @[j]],
          ![c].verdict =
             IF a.kind = "fire" THEN IF over = DOMAIN a.runs THEN "settled" ELSE @
             ELSE IF a.runs[i] = "blocks" THEN "blocked"
             ELSE IF i = Len(a.runs) THEN "allowed" ELSE @]
     /\ UNCHANGED loadingVars

HooksNext ==
  \/ \E f \in FileSet, file \in {NoFile, Broken} \cup {Good(events) : events \in SUBSET Events} :
       ChangeFile(f, file)
  \/ Reload \/ StartLoad
  \/ \E l \in DOMAIN loads : LoadFile(l) \/ EndLoad(l)
  \/ \E c \in HookCalls :
       \/ \E kind \in {"gate", "fire"}, event \in Events : AskHooks(c, kind, event)
       \/ \E i \in DOMAIN asking[c].runs :
            \/ \E answer \in {"blocks", "passes", "throws", "late"} : HookAnswers(c, i, answer)
            \/ RecordRun(c, i)

-----------------------------------------------------------------------------
RunsOf(c) == {r \in hookRuns : r.call = c}

\* gate: something is refused by the one hook that blocked it in time, the last that was
\* run, and allowed only when every hook of the list that was in force when it was asked
\* was run and none blocked; a failure or a lateness refuses nothing.
GatesTrue ==
  \A c \in HookCalls : asking[c].kind = "gate" =>
    LET blocking == {r.hook : r \in {q \in RunsOf(c) : q.blocked}}
        run      == {r.hook : r \in RunsOf(c)}
    IN /\ asking[c].verdict = "blocked" => \E i \in run : blocking = {i} /\ run = 1..i
       /\ asking[c].verdict = "allowed" => blocking = {} /\ run = 1..Len(asking[c].hooks)

\* fire: it is over when every hook was run, whatever some of them did, and a run is
\* recorded once, as blocking only if it blocked.
FiresTrue ==
  \A c \in HookCalls : asking[c].kind = "fire" =>
    /\ asking[c].verdict = "settled" => {r.hook : r \in RunsOf(c)} = 1..Len(asking[c].hooks)
    /\ \A r, q \in RunsOf(c) : r.hook = q.hook => r = q

\* watch: once everything has been seen and loaded, the hooks in force are those of the
\* directory as it is, in the order of their names, whatever was changed while it was
\* read; unless two loads overlapped, of which the older may have come last.
HooksCurrent ==
  watched /\ ~overlapped /\ ~unseen /\ ~armed /\ loads = <<>> => hooks = LoadAll(hooksDir)

HooksTrue == GatesTrue /\ FiresTrue /\ HooksCurrent
=============================================================================
