-------------------------------- MODULE Parts --------------------------------
(***************************************************************************)
(* The parts of the system that share no state with each other: the listings,  *)
(* the file snapshots, the memories, the diff engine, the completions, the      *)
(* repository map, the commands of a sandbox, the hooks, the workspaces, the     *)
(* daemon's processes, iq task, the tool servers and the compactions.            *)
(* A behaviour is one of one part, with the others at rest, so that one run      *)
(* checks them all.                                                            *)
(***************************************************************************)
EXTENDS Paging, Snapshots, Memories, DiffEngine, Completions, RepoMap, Executions, Hooks,
        Workspaces, Daemons, TaskRun, ToolServers, Compactions

VARIABLE part   \* the part of this behaviour

partsVars ==
  <<part, pagingVars, snapshotVars, memoryVars, diffVars, llmVars, repoMapVars,
    executionVars, hookVars, workspaceVars, daemonsVars, taskVars, toolServerVars,
    compactionVars>>

\* The parts but one are at rest.
RestBut(p) ==
  /\ p # "listings" => PagingRest
  /\ p # "snapshots" => SnapshotsRest
  /\ p # "memories" => MemoriesRest
  /\ p # "diffs" => DiffRest
  /\ p # "completions" => CompletionsRest
  /\ p # "maps" => RepoMapRest
  /\ p # "commands" => ExecutionsRest
  /\ p # "hooks" => HooksRest
  /\ p # "workspaces" => WorkspacesRest
  /\ p # "daemons" => DaemonsRest
  /\ p # "tasks" => TaskRest
  /\ p # "toolServers" => ToolServersRest
  /\ p # "compactions" => CompactionsRest
StillBut(p) ==
  /\ p # "listings" => UNCHANGED pagingVars
  /\ p # "snapshots" => UNCHANGED snapshotVars
  /\ p # "memories" => UNCHANGED memoryVars
  /\ p # "diffs" => UNCHANGED diffVars
  /\ p # "completions" => UNCHANGED llmVars
  /\ p # "maps" => UNCHANGED repoMapVars
  /\ p # "commands" => UNCHANGED executionVars
  /\ p # "hooks" => UNCHANGED hookVars
  /\ p # "workspaces" => UNCHANGED workspaceVars
  /\ p # "daemons" => UNCHANGED daemonsVars
  /\ p # "tasks" => UNCHANGED taskVars
  /\ p # "toolServers" => UNCHANGED toolServerVars
  /\ p # "compactions" => UNCHANGED compactionVars

Init ==
  \/ part = "listings" /\ PagingInit /\ RestBut("listings")
  \/ part = "snapshots" /\ SnapshotsInit /\ RestBut("snapshots")
  \/ part = "memories" /\ MemoriesInit /\ RestBut("memories")
  \/ part = "diffs" /\ DiffInit /\ RestBut("diffs")
  \/ part = "completions" /\ CompletionsInit /\ RestBut("completions")
  \/ part = "maps" /\ RepoMapInit /\ RestBut("maps")
  \/ part = "commands" /\ ExecutionsInit /\ RestBut("commands")
  \/ part = "hooks" /\ HooksInit /\ RestBut("hooks")
  \/ part = "workspaces" /\ WorkspacesInit /\ RestBut("workspaces")
  \/ part = "daemons" /\ DaemonsInit /\ RestBut("daemons")
  \/ part = "tasks" /\ TaskInit /\ RestBut("tasks")
  \/ part = "toolServers" /\ ToolServersInit /\ RestBut("toolServers")
  \/ part = "compactions" /\ CompactionsInit /\ RestBut("compactions")

Next ==
  /\ UNCHANGED part
  /\ \/ part = "listings" /\ PagingNext /\ StillBut("listings")
     \/ part = "snapshots" /\ SnapshotsNext /\ StillBut("snapshots")
     \/ part = "memories" /\ MemoriesNext /\ StillBut("memories")
     \/ part = "diffs" /\ DiffNext /\ StillBut("diffs")
     \/ part = "completions" /\ CompletionsNext /\ StillBut("completions")
     \/ part = "maps" /\ RepoMapNext /\ StillBut("maps")
     \/ part = "commands" /\ ExecutionsNext /\ StillBut("commands")
     \/ part = "hooks" /\ HooksNext /\ StillBut("hooks")
     \/ part = "workspaces" /\ WorkspacesNext /\ StillBut("workspaces")
     \/ part = "daemons" /\ DaemonsNext /\ StillBut("daemons")
     \/ part = "tasks" /\ TaskNext /\ StillBut("tasks")
     \/ part = "toolServers" /\ ToolServersNext /\ StillBut("toolServers")
     \/ part = "compactions" /\ CompactionsNext /\ StillBut("compactions")

Spec == Init /\ [][Next]_partsVars

-----------------------------------------------------------------------------
\* What goes to a model and comes back: pieces are put together as they were sent
\* (Completions), and of an older conversation every message goes into one summary at
\* most (Compactions).
DialogueFaithful ==
  /\ part = "completions" => CompletionsFaithful
  /\ part = "compactions" => SummariesTrue

\* Source text as the daemon reads and writes it: a diff changes the lines it was made
\* of and no others (DiffEngine), and a map is one of the files as they are, within its
\* budget (RepoMap).
SourceTrue ==
  /\ part = "diffs" => DiffsApplyRight
  /\ part = "maps" => MapsSound

\* The programs around a daemon: of those started on a state directory one serves and is
\* found (Daemons), and iq task implements what it printed and waits for no frame that
\* cannot come (TaskRun).
ProgramsTrue ==
  /\ part = "daemons" => DaemonsTrue
  /\ part = "tasks" => TasksTrue

\* What others plug in: the hooks in force are those of the directory and answer for
\* themselves (Hooks), the tools listed are those of the servers that are up, each by a
\* name that leads back to it (ToolServers).
ExtensionsTrue ==
  /\ part = "hooks" => HooksTrue
  /\ part = "toolServers" => ServersTrue
=============================================================================
