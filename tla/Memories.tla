------------------------------ MODULE Memories ------------------------------
(***************************************************************************)
(* The memories of a user: the rows of db/stores.ts, MEMORY.md which          *)
(* packages/memory writes from them and reads back, and the requests of       *)
(* server.ts that change them, each with its awaits between statements.       *)
(*                                                                         *)
(* A file and the body of a memory are sequences of lines; a line is a bare    *)
(* separator "---", a field "key: value", a blank, or a text.  Left out: the  *)
(* type and description of a memory, its organisation (a user is of one), and  *)
(* the memories of other users: no statement on rows touches them, but with   *)
(* several users, in the cloud, each one's file replaces the others'.         *)
(***************************************************************************)
EXTENDS Integers, Sequences, SequencesExt, FiniteSetsExt, Functions

CONSTANTS
  MemoryNames,
  MemoryBodies,   \* bound: bodies, sequences of lines
  MemoryIds,      \* bound: random ids of new memories
  Changers,       \* bound: requests at work at once
  MaxChanges,     \* bound: requests made
  MemoryTokens    \* the budget of the block, a line being a token

NoId == "none"
Separator == [kind |-> "---", key |-> "none", value |-> "none"]
Blank     == [kind |-> "blank", key |-> "none", value |-> "none"]
Field(k, v) == [kind |-> "field", key |-> k, value |-> v]
YesNo(b) == IF b THEN "true" ELSE "false"

ASSUME MemoryBounds ==
  /\ NoId \notin MemoryIds
  /\ MaxChanges \in Nat /\ MemoryTokens \in Nat
  /\ \A body \in MemoryBodies :
       /\ body \in Seq(Range(body))
       /\ \A line \in Range(body) :
            line.kind = "field" /\ line.key = "id" => line.value \in MemoryIds

VARIABLES
  memories,   \* the rows: [id -> [name, body, pinned, at]]
  memoryFile, \* MEMORY.md
  changes,    \* what each request is at
  made,       \* requests made, and the clock of updated_at
  stale       \* history: the file cannot be expected to be as the rows are

memoryVars == <<memories, memoryFile, changes, made, stale>>

NoChange ==
  [op |-> "none", step |-> "none", id |-> NoId, name |-> NoId, body |-> <<>>,
   pinned |-> FALSE, todo |-> <<>>, lines |-> <<>>]

MemoriesRest ==
  /\ memories = <<>> /\ memoryFile = <<>>
  /\ changes = [c \in Changers |-> NoChange]
  /\ made = 0 /\ stale = TRUE

\* A daemon that starts, with the file it left.
MemoriesInit ==
  /\ memories = <<>> /\ memoryFile = <<>>
  /\ changes = [c \in Changers |-> NoChange]
  /\ made = 0 /\ stale = FALSE

-----------------------------------------------------------------------------
(* The format of MEMORY.md. *)

Trim(lines) ==
  LET solid == {i \in DOMAIN lines : lines[i] # Blank}
  IN IF solid = {} THEN <<>> ELSE SubSeq(lines, Min(solid), Max(solid))

formatMemoryEntry(id, memory) ==
  <<Separator, Field("id", id), Field("name", memory.name),
    Field("pinned", YesNo(memory.pinned)), Separator>>
  \o (IF memory.body = <<>> THEN <<Blank>> ELSE memory.body)

\* parseFrontmatter: of a key that comes twice the last counts, and a line
\* without a colon is skipped.
Fields(lines) ==
  LET keys == {lines[i].key : i \in {j \in DOMAIN lines : lines[j].kind = "field"}}
      Last1(k) == Max({i \in DOMAIN lines : lines[i].kind = "field" /\ lines[i].key = k})
  IN [k \in keys |-> lines[Last1(k)].value]

\* parseMemoryEntry: none of an entry without a name.
parseMemoryEntry(front, body) ==
  LET fields == Fields(front)
      Value(k, default) == IF k \in DOMAIN fields THEN fields[k] ELSE default
  IN IF "name" \notin DOMAIN fields THEN <<>>
     ELSE << [id |-> Value("id", NoId), name |-> fields["name"], body |-> Trim(body),
              pinned |-> Value("pinned", "false") = "true"] >>

\* Mutant: any bare separator starts an entry.
AnySeparator(lines, i) == lines[i] = Separator

\* A bare separator followed by a field starts the next entry.
EntryStart(lines, i) ==
  lines[i] = Separator /\ i < Len(lines) /\ lines[i + 1].kind = "field"

\* The first line of a kind from line i on, or the end of the file.
SeparatorFrom(lines, i) ==
  Min({j \in i..Len(lines) : lines[j] = Separator} \cup {Len(lines) + 1})
EntryFrom(lines, i) ==
  Min({j \in i..Len(lines) : EntryStart(lines, j)} \cup {Len(lines) + 1})

\* The entry that is read from line i on, and where the next is read from.
parseMemoryFile(lines) ==
  LET Parse[i \in 1..Len(lines) + 1] ==
        LET open  == SeparatorFrom(lines, i)
            close == SeparatorFrom(lines, open + 1)
            next  == EntryFrom(lines, close + 1)
        IN IF close > Len(lines) THEN <<>>
           ELSE parseMemoryEntry(SubSeq(lines, open + 1, close - 1),
                                 SubSeq(lines, close + 1, next - 1))
                \o Parse[next]
  IN Parse[1]

-----------------------------------------------------------------------------
(* The store. *)

\* listByUser: pinned first, then the latest.
Precedes(i, j) ==
  LET a == memories[i] b == memories[j]
  IN IF a.pinned # b.pinned THEN a.pinned ELSE a.at > b.at

\* Rows of one pin and one moment come in any order.
listByUser ==
  {order \in [1..Cardinality(DOMAIN memories) -> DOMAIN memories] :
     /\ IsInjective(order)
     /\ \A k, l \in DOMAIN order : k < l => ~Precedes(order[l], order[k])}

Named(name) == {i \in DOMAIN memories : memories[i].name = name}

Row(c) == [name |-> c.name, body |-> c.body, pinned |-> c.pinned, at |-> made]

\* upsertByName: the memory of that name keeps its id.
Upsert(c) ==
  memories' = IF Named(c.name) # {}
              THEN [i \in DOMAIN memories |->
                      IF i \in Named(c.name) THEN Row(c) ELSE memories[i]]
              ELSE [i \in DOMAIN memories \cup {c.id} |->
                      IF i = c.id THEN Row(c) ELSE memories[i]]

\* An id that another name has fails the insert.
UpsertFails(c) == Named(c.name) = {} /\ c.id \in DOMAIN memories

-----------------------------------------------------------------------------
(* The requests.  Each step is up to the next await. *)

Busy == {c \in Changers : changes[c] # NoChange}

\* A change of rows writes the file at its end; one that had the daemon for
\* itself leaves the file as the rows are.
MayStart(c) == changes[c] = NoChange /\ made < MaxChanges
Start(c, change) ==
  /\ MayStart(c)
  /\ made' = made + 1
  /\ changes' = [changes EXCEPT ![c] = change]
  /\ stale' = IF change.op = "sync" /\ Busy = {} THEN stale ELSE Busy # {}
  /\ UNCHANGED <<memories, memoryFile>>

FreshId == MemoryIds \ (DOMAIN memories \cup {changes[c].id : c \in Changers})

\* POST /memory, and the memory #maybeAutoRemember writes.
PostMemory(c, name, body, pinned) ==
  /\ FreshId # {}
  /\ Start(c, [NoChange EXCEPT !.op = "post", !.step = "change", !.name = name,
                 !.id = CHOOSE i \in FreshId : TRUE, !.body = body, !.pinned = pinned])

\* PATCH /memory/:id of a body, a pin or a name.
PatchMemory(c, id, name, body, pinned) ==
  Start(c, [NoChange EXCEPT !.op = "patch", !.step = "change", !.id = id,
              !.name = name, !.body = body, !.pinned = pinned])

DeleteMemory(c, id) == Start(c, [NoChange EXCEPT !.op = "delete", !.step = "get", !.id = id])

\* POST /memory/sync-from-file, which leaves the file alone.
SyncMemory(c) == Start(c, [NoChange EXCEPT !.op = "sync", !.step = "readFile"])

Step(c, step) == changes' = [changes EXCEPT ![c].step = step]
End(c) == changes' = [changes EXCEPT ![c] = NoChange]

\* A request that fails half-way has changed rows and not the file.
Fail(c) ==
  /\ End(c)
  /\ stale' = TRUE

At(c, op, step) == changes[c].op = op /\ changes[c].step = step
Store == UNCHANGED <<memories, memoryFile, made>>

ChangeByPost(c) ==
  /\ At(c, "post", "change")
  /\ Upsert(changes[c])
  /\ Step(c, "getByName")
  /\ UNCHANGED <<memoryFile, made, stale>>

\* The row read back may be renamed or deleted by now.
ReadBack(c) ==
  /\ At(c, "post", "getByName")
  /\ IF Named(changes[c].name) = {} THEN Fail(c)
     ELSE Step(c, "list") /\ UNCHANGED stale
  /\ Store

\* Two memories never have one name.
ChangeByPatch(c) ==
  /\ At(c, "patch", "change")
  /\ LET id == changes[c].id IN
     IF id \in DOMAIN memories /\ Named(changes[c].name) \ {id} # {}
     THEN Fail(c) /\ UNCHANGED memories
     ELSE /\ memories' = [i \in DOMAIN memories |->
                            IF i = id THEN Row(changes[c]) ELSE memories[i]]
          /\ Step(c, "get")
          /\ UNCHANGED stale
  /\ UNCHANGED <<memoryFile, made>>

\* Nothing to patch, or nothing to delete: 404.
ReadRow(c) ==
  /\ At(c, "patch", "get") \/ At(c, "delete", "get")
  /\ IF changes[c].id \notin DOMAIN memories THEN Fail(c)
     ELSE Step(c, IF changes[c].op = "patch" THEN "list" ELSE "delete") /\ UNCHANGED stale
  /\ Store

DeleteRow(c) ==
  /\ At(c, "delete", "delete")
  /\ memories' = Restrict(memories, DOMAIN memories \ {changes[c].id})
  /\ Step(c, "list")
  /\ UNCHANGED <<memoryFile, made, stale>>

\* The entries of the rows in an order, with a blank between two.
fileText(order) ==
  FlattenSeq([k \in DOMAIN order |->
                formatMemoryEntry(order[k], memories[order[k]]) \o <<Blank>>])

\* materialize: the entries of the rows there are.
ListMemories(c) ==
  /\ changes[c].step = "list"
  /\ \E order \in listByUser :
       changes' = [changes EXCEPT ![c].step = "write", ![c].lines = fileText(order)]
  /\ UNCHANGED stale
  /\ Store

\* A body with what starts an entry does not come back from the file.
Carried(body) ==
  \A i \in 1..Len(body) - 1 : ~(body[i] = Separator /\ body[i + 1].kind = "field")

WriteMemoryFile(c) ==
  /\ changes[c].step = "write"
  /\ memoryFile' = changes[c].lines
  /\ End(c)
  /\ stale' = (stale \/ \E i \in DOMAIN memories : ~Carried(memories[i].body))
  /\ UNCHANGED <<memories, made>>

ReadMemoryFile(c) ==
  /\ At(c, "sync", "readFile")
  /\ changes' = [changes EXCEPT ![c].step = "entry", ![c].todo = parseMemoryFile(memoryFile)]
  /\ UNCHANGED stale
  /\ Store

\* syncFromFile upserts the entries one by one; one that fails ends it.
SyncEntry(c) ==
  /\ At(c, "sync", "entry")
  /\ changes[c].todo # <<>>
  /\ LET parsed == Head(changes[c].todo)
         entry  == IF parsed.id # NoId THEN parsed
                   ELSE [parsed EXCEPT !.id = CHOOSE i \in FreshId : TRUE]
     IN /\ parsed.id = NoId => FreshId # {}
        /\ IF UpsertFails(entry) THEN Fail(c) /\ UNCHANGED memories
           ELSE /\ Upsert(entry)
                /\ changes' = [changes EXCEPT ![c].todo = Tail(@)]
                /\ UNCHANGED stale
  /\ UNCHANGED <<memoryFile, made>>

EndSync(c) ==
  /\ At(c, "sync", "entry")
  /\ changes[c].todo = <<>>
  /\ End(c)
  /\ UNCHANGED stale
  /\ Store

\* The user renames the first entry of the file in an editor, or adds one.
EditFile(name) ==
  /\ Busy = {} /\ made < MaxChanges
  /\ \/ /\ Len(memoryFile) > 2
        /\ memoryFile' = [memoryFile EXCEPT ![3] = Field("name", name)]
     \/ memoryFile' = memoryFile \o <<Separator, Field("name", name), Separator>>
  /\ made' = made + 1
  /\ stale' = TRUE
  /\ UNCHANGED <<memories, changes>>

MemoriesNext ==
  \/ \E c \in Changers :
       \/ MayStart(c) /\ \E name \in MemoryNames, body \in MemoryBodies, pinned \in BOOLEAN :
            \/ PostMemory(c, name, body, pinned)
            \/ \E id \in MemoryIds : PatchMemory(c, id, name, body, pinned)
       \/ \E id \in MemoryIds : DeleteMemory(c, id)
       \/ SyncMemory(c)
       \/ ChangeByPost(c) \/ ReadBack(c) \/ ChangeByPatch(c) \/ ReadRow(c) \/ DeleteRow(c)
       \/ ListMemories(c) \/ WriteMemoryFile(c)
       \/ ReadMemoryFile(c) \/ SyncEntry(c) \/ EndSync(c)
  \/ \E name \in MemoryNames : EditFile(name)

-----------------------------------------------------------------------------
(* The memory block of the conversations. *)

Tokens(id) == Len(memories[id].body) + 1

\* The first memory without a pin that does not fit ends the block.
PutInBlock(block, id) ==
  IF block.full \/ (~memories[id].pinned /\ block.tokens + Tokens(id) > MemoryTokens)
  THEN [block EXCEPT !.full = TRUE]
  ELSE [block EXCEPT !.ids = Append(@, id), !.tokens = @ + Tokens(id)]

buildBlock(order) == FoldLeft(PutInBlock, [ids |-> <<>>, tokens |-> 0, full |-> FALSE], order)

-----------------------------------------------------------------------------
MemoriesTypeOK ==
  /\ DOMAIN memories \subseteq MemoryIds
  /\ \A i \in DOMAIN memories : memories[i].at \in 0..MaxChanges
  /\ \A c \in Changers : changes[c].op \in {"none", "post", "patch", "delete", "sync"}
  /\ made \in 0..MaxChanges /\ stale \in BOOLEAN

\* Once no request is at work, MEMORY.md read back is the rows: same ids, names
\* and pins, bodies but for blank lines around them.  Not claimed after changes
\* that overlapped, that failed or that an editor made, until the next change
\* that had the daemon for itself; a sync from the file on the way changes none.
FileHoldsMemories ==
  Busy = {} /\ ~stale =>
    Range(parseMemoryFile(memoryFile)) =
      {[id |-> i, name |-> memories[i].name, body |-> Trim(memories[i].body),
        pinned |-> memories[i].pinned] : i \in DOMAIN memories}

\* The block holds every pinned memory, goes over the budget for these only, and
\* holds no memory while a later one of the same pin is left out.
BlockByRank ==
  \A order \in listByUser :
  LET block == buildBlock(order)
      held  == Range(block.ids)
  IN /\ \A i \in DOMAIN memories : memories[i].pinned => i \in held
     /\ (\E i \in held : ~memories[i].pinned) => block.tokens <= MemoryTokens
     /\ \A i \in held, j \in DOMAIN memories \ held :
          memories[i].pinned = memories[j].pinned => memories[i].at >= memories[j].at

\* What a reader is given is what the rows say: an editor by MEMORY.md, a model
\* by the memory block.
MemoriesReachReaders == MemoriesTypeOK /\ FileHoldsMemories /\ BlockByRank
=============================================================================
