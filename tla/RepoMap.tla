------------------------------- MODULE RepoMap -------------------------------
(***************************************************************************)
(* packages/repo-map: the files of a repository are walked twice, once for the *)
(* hash that is the key of the cache and once to be read; the symbols read are *)
(* ranked and cut to a budget of tokens.  Each stat and each read is awaited,   *)
(* while an editor or an agent changes the files.                               *)
(*                                                                         *)
(* A file's content stands for the symbols the parsers find in it, from its     *)
(* first line to its last.  Abstract: the score of a symbol, which is any        *)
(* number, in place of what scoreSymbols computes from the imports; the text of  *)
(* a line, which has a length.                                                   *)
(***************************************************************************)
EXTENDS Integers, Sequences, SequencesExt, FiniteSetsExt, Functions

CONSTANTS
  SourceFiles, IgnoredFiles, \* paths; IgnoredFiles are those the walk leaves out
  Symbols,       \* bound: the contents of a file, sequences of symbols
  Reserved,      \* the names reserveNamedSymbols puts first, in order
  Score,         \* [SourceFiles \X names -> Nat]
  Width,         \* [names -> characters of the line of a symbol]
  MapBudget,
  MaxEdits,      \* bound: changes of files
  MaxBuilds      \* bound: maps built

ASSUME RepoMapBounds ==
  /\ SourceFiles \cap IgnoredFiles = {}
  /\ {MapBudget, MaxEdits, MaxBuilds} \subseteq Nat

AllFiles == SourceFiles \cup IgnoredFiles

VARIABLES
  tree,      \* the files there are: [path -> [mtime, symbols]]
  edits,     \* changes made, and the clock of mtime
  building,  \* the build at work
  mapCache,  \* [key -> [map, moved]]
  builds,
  given      \* history: of the last build, what was given and whether it may be old

repoMapVars == <<tree, edits, building, mapCache, builds, given>>

NoBuild == [step |-> "none", todo |-> {}, key |-> {}, graph |-> <<>>, moved |-> FALSE]
NoMap   == [map |-> <<>>, wanted |-> <<>>]

RepoMapRest ==
  /\ tree = <<>> /\ edits = 0 /\ building = NoBuild
  /\ mapCache = <<>> /\ builds = MaxBuilds /\ given = NoMap

RepoMapInit ==
  /\ tree \in [AllFiles -> {[mtime |-> 0, symbols |-> CHOOSE s \in Symbols : TRUE]}]
  /\ edits = 0 /\ building = NoBuild
  /\ mapCache = <<>> /\ builds = 0 /\ given = NoMap

-----------------------------------------------------------------------------
(* Ranking and cutting. *)

\* walkRepoFiles: no directory of the ignored ones, no test, no other language.
walkRepoFiles == DOMAIN tree \ IgnoredFiles

Line(path, symbols, i) == [path |-> path, name |-> symbols[i], startLine |-> i]

\* By score, then in the order of the paths, here as any fixed one, and lines.
PathOrder == SetToSeq(SourceFiles)
PathIndex(path) == CHOOSE i \in DOMAIN PathOrder : PathOrder[i] = path
Before(a, b) ==
  LET s == Score[<<a.path, a.name>>] t == Score[<<b.path, b.name>>]
  IN \/ s > t
     \/ s = t /\ PathIndex(a.path) < PathIndex(b.path)
     \/ s = t /\ a.path = b.path /\ a.startLine < b.startLine

Ranked(graph) ==
  SetToSortSeq(UNION {{Line(p, graph[p], i) : i \in DOMAIN graph[p]} : p \in DOMAIN graph}, Before)

\* How many of the lines before it are of the same file.
Round(lines, i) == Cardinality({j \in 1..i - 1 : lines[j].path = lines[i].path})

\* roundRobinByFile: the first of each file, then the second of each; files in the
\* order of their first.
FileRank(lines, path) == Min({i \in DOMAIN lines : lines[i].path = path})
roundRobinByFile(lines) ==
  LET Sooner(i, j) == \/ Round(lines, i) < Round(lines, j)
                      \/ /\ Round(lines, i) = Round(lines, j)
                         /\ FileRank(lines, lines[i].path) < FileRank(lines, lines[j].path)
      order == SetToSortSeq(DOMAIN lines, Sooner)
  IN [k \in DOMAIN order |-> lines[order[k]]]

reserveNamedSymbols(lines) ==
  LET Found(name) == {i \in DOMAIN lines : lines[i].name = name}
  IN FlattenSeq([k \in DOMAIN Reserved |->
       IF Found(Reserved[k]) = {} THEN <<>> ELSE <<lines[Min(Found(Reserved[k]))]>>])

\* roughTokenCount of the lines joined by newlines.
roughTokenCount(lines) ==
  LET characters == FoldLeft(LAMBDA sum, l : sum + Width[l.name] + 1, 0, lines) - 1
  IN IF lines = <<>> THEN 0 ELSE (characters + 3) \div 4

\* trimTobudget: lines as long as they fit; the first that does not ends it.
trimTobudget(graph) ==
  LET ordered  == roundRobinByFile(Ranked(graph))
      reserved == reserveNamedSymbols(ordered)
      all      == reserved \o SelectSeq(ordered, LAMBDA l : l \notin Range(reserved))
      fitting  == {n \in 0..Len(all) : \A m \in 1..n : roughTokenCount(SubSeq(all, 1, m)) <= MapBudget}
  IN SubSeq(all, 1, Max(fitting))

\* The map of the files as they are.
MapOf(files) == trimTobudget([p \in files |-> tree[p].symbols])

-----------------------------------------------------------------------------
(* The files change. *)

Change ==
  /\ edits < MaxEdits /\ builds < MaxBuilds
  /\ edits' = edits + 1
  /\ UNCHANGED <<mapCache, builds, given>>

\* An edit gives a file an instant of its own.
EditSource(path, symbols) ==
  /\ path \in DOMAIN tree
  /\ tree' = [tree EXCEPT ![path] = [mtime |-> edits + 1, symbols |-> symbols]]
  /\ UNCHANGED building
  /\ Change

\* A file comes or goes; of a build under way the key may now be of other files
\* than it reads.
AddOrRemove(path) ==
  /\ tree' = IF path \in DOMAIN tree THEN Restrict(tree, DOMAIN tree \ {path})
             ELSE [p \in DOMAIN tree \cup {path} |->
                     IF p = path THEN [mtime |-> edits + 1, symbols |-> CHOOSE s \in Symbols : TRUE]
                     ELSE tree[p]]
  /\ building' = [building EXCEPT !.moved = building.step # "none"]
  /\ Change

-----------------------------------------------------------------------------
(* buildRepoMap. *)

Files == UNCHANGED <<tree, edits>>

BeginBuild ==
  /\ building = NoBuild /\ builds < MaxBuilds
  /\ building' = [NoBuild EXCEPT !.step = "hash", !.todo = walkRepoFiles]
  /\ builds' = builds + 1
  /\ UNCHANGED <<mapCache, given>> /\ Files

Fails ==
  /\ building' = NoBuild
  /\ UNCHANGED <<mapCache, given>>

\* contentHash: the instants of the files; stat rejects if one is gone.
StatFile(path) ==
  /\ building.step = "hash" /\ path \in building.todo
  /\ IF path \notin DOMAIN tree THEN Fails
     ELSE /\ building' = [building EXCEPT !.todo = @ \ {path}, !.key = @ \cup {<<path, tree[path].mtime>>}]
          /\ UNCHANGED <<mapCache, given>>
  /\ UNCHANGED builds /\ Files

\* The key of the files as they are.
CurrentKey == {<<p, tree[p].mtime>> : p \in walkRepoFiles}

\* Mutant: the files are read before their hash is taken for the key.
HashAfterReading == CurrentKey

\* The key the map is stored under.
CacheKey == building.key

\* A hit needs the very files and instants of the key.
LookUp ==
  /\ building.step = "hash" /\ building.todo = {}
  /\ IF building.key \in DOMAIN mapCache
     THEN /\ given' = [map |-> mapCache[building.key].map,
                       wanted |-> IF /\ ~mapCache[building.key].moved
                                     /\ building.key = CurrentKey
                                  THEN MapOf(walkRepoFiles)
                                  ELSE mapCache[building.key].map]
          /\ building' = NoBuild
     ELSE /\ building' = [building EXCEPT !.step = "read", !.todo = walkRepoFiles]
          /\ UNCHANGED given
  /\ UNCHANGED <<mapCache, builds>> /\ Files

\* buildDependencyGraph reads up to twenty at once, in whatever order they finish.
ReadSource(path) ==
  /\ building.step = "read" /\ path \in building.todo
  /\ IF path \notin DOMAIN tree THEN Fails
     ELSE /\ building' = [building EXCEPT !.todo = @ \ {path},
                            !.graph = [p \in DOMAIN @ \cup {path} |->
                                         IF p = path THEN tree[p].symbols ELSE building.graph[p]]]
          /\ UNCHANGED <<mapCache, given>>
  /\ UNCHANGED builds /\ Files

EndBuild ==
  /\ building.step = "read" /\ building.todo = {}
  /\ LET map == trimTobudget(building.graph) IN
     /\ mapCache' = [k \in DOMAIN mapCache \cup {CacheKey} |->
                       IF k = CacheKey THEN [map |-> map, moved |-> building.moved] ELSE mapCache[k]]
     /\ given' = [map |-> map, wanted |-> map]
  /\ building' = NoBuild
  /\ UNCHANGED builds /\ Files

RepoMapNext ==
  \/ \E p \in AllFiles, s \in Symbols : EditSource(p, s)
  \/ \E p \in AllFiles : AddOrRemove(p)
  \/ BeginBuild \/ LookUp \/ EndBuild
  \/ \E p \in AllFiles : StatFile(p) \/ ReadSource(p)

-----------------------------------------------------------------------------
RepoMapTypeOK ==
  /\ DOMAIN tree \subseteq AllFiles
  /\ edits \in 0..MaxEdits /\ builds \in 0..MaxBuilds
  /\ building.step \in {"none", "hash", "read"} /\ building.todo \subseteq SourceFiles

\* A map from the cache is the map of the files as they are, though files may
\* have been edited while it was built: the key is of before the reading, so what
\* was read too late is stored where no file leads again.  Not so of a map during
\* whose building a file came or went, or while files change under the lookup.
CachedMapIsCurrent == given.map = given.wanted

\* The map keeps to its budget, no file has a second symbol in it while one that
\* has any is left out, reserved names apart, and a file's symbols go by score.
MapIsFair ==
  LET lines == trimTobudget([p \in walkRepoFiles |-> tree[p].symbols])
      plain == SelectSeq(lines, LAMBDA l : ~Contains(Reserved, l.name))
  IN /\ roughTokenCount(lines) <= MapBudget
     /\ \A p \in walkRepoFiles :
          tree[p].symbols # <<>> /\ ~(\E l \in Range(lines) : l.path = p) =>
            \A i, j \in DOMAIN plain : plain[i].path = plain[j].path => i = j
     /\ \A i, j \in DOMAIN plain : i < j /\ plain[i].path = plain[j].path =>
          Score[<<plain[i].path, plain[i].name>>] >= Score[<<plain[j].path, plain[j].name>>]

\* The map a model is given: of the files as they are, and cut fairly.
MapsSound == RepoMapTypeOK /\ CachedMapIsCurrent /\ MapIsFair
=============================================================================
