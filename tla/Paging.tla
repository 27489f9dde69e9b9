------------------------------- MODULE Paging -------------------------------
(***************************************************************************)
(* The listings a client reads page by page: the messages of a              *)
(* conversation, newest first, and the checkpoints of a session and the      *)
(* members of an organisation, oldest first (db/stores.ts, auth-store.ts).   *)
(* A walk asks for a page, then for the page at the cursor it was given,     *)
(* while rows are added and removed.                                         *)
(*                                                                         *)
(* The table holds the rows by rowid, which is the order of their insertion; *)
(* an id is random, an instant the millisecond a row was made in.  The Sqlite *)
(* stores look up the cursor and select in one go, the Adapter stores await  *)
(* in between.  The rows of other sessions and organisations, and the        *)
(* messages of a PIV task, are the rows that are not Mine.                   *)
(***************************************************************************)
EXTENDS Integers, Sequences, SequencesExt, FiniteSetsExt, Functions

CONSTANTS
  Listings,    \* bound: the listings of the behaviours
  PageLimits,  \* bound: sizes of a page
  MaxRows,     \* bound: rows ever inserted, and so ids
  MaxInstant,  \* bound: milliseconds
  NoCursor

AllListings ==
  {"SqliteConversation", "SqliteGitCheckpoint", "AdapterConversation",
   "AdapterGitCheckpoint", "Members"}

ASSUME ListingsAssumption == Listings \subseteq AllListings
ASSUME PagingBounds ==
  /\ PageLimits \subseteq Nat \ {0}
  /\ MaxRows \in Nat /\ MaxInstant \in Nat
  /\ NoCursor \notin 1..MaxRows

VARIABLES
  listing, limit,
  rows,      \* the table: [rowid -> [id, at, mine, live]]
  clock,     \* the current millisecond
  cursor,    \* the walk: the cursor of the next page,
  walk,      \* "ask", "checked", and its ends "done" and "refused",
  got,       \* the ids it was given, in order
  inserted,  \* history: every id ever used
  before     \* history: the rows there were when the walk began

pagingVars == <<listing, limit, rows, clock, cursor, walk, got, inserted, before>>

Ids == 1..MaxRows

\* A behaviour of another component, with this one at rest.
PagingRest ==
  /\ listing = "Members" /\ limit = 1
  /\ rows = <<>> /\ clock = 0
  /\ cursor = NoCursor /\ walk = "done" /\ got = <<>>
  /\ inserted = {} /\ before = {}

PagingInit ==
  /\ listing \in Listings /\ limit \in PageLimits
  /\ rows = <<>> /\ clock = 0
  /\ cursor = NoCursor /\ walk = "idle" /\ got = <<>>
  /\ inserted = {} /\ before = {}

-----------------------------------------------------------------------------
(* Queries. *)

Mine == {i \in DOMAIN rows : rows[i].mine}
Key(i) == <<rows[i].at, rows[i].id>>
Less(k, l) == k[1] < l[1] \/ (k[1] = l[1] /\ k[2] < l[2])

\* The row with an id of the caller's session or organisation.
Find(id) == CHOOSE i \in Mine : rows[i].id = id
Has(id) == \E i \in Mine : rows[i].id = id

\* The ids of some rows, in an order, at most n of them: ORDER BY and LIMIT.
FirstPlaces(place, n) ==
  LET sorted == AntiFunction(place)
  IN [k \in 1..Min({n, Cardinality(DOMAIN place)}) |-> rows[sorted[k]].id]
Select(found, Precedes(_, _), n) ==
  FirstPlaces([i \in found |-> Cardinality({j \in found : Precedes(j, i)}) + 1], n)

Older(i, j)   == Less(Key(i), Key(j))
Newer(i, j)   == Less(Key(j), Key(i))
ByRowid(i, j) == i < j
Youngest(i, j) == i > j
OlderByRowid(i, j) == rows[i].at < rows[j].at \/ (rows[i].at = rows[j].at /\ i < j)

\* SqliteConversationStore.listPage: by rowid, on either side of the cursor.
SqliteConversationPage(c, n) ==
  Select({i \in Mine : c = NoCursor \/ (Has(c) /\ i < Find(c))}, Youngest, n)

\* AdapterConversationStore.listPage: by instant and id.  The id of a cursor
\* that is gone selects nothing.
AdapterConversationPage(c, n) ==
  Select({i \in Mine : c = NoCursor \/ (Has(c) /\ Newer(Find(c), i))}, Newer, n)

\* SqliteGitCheckpointStore.listBySession: compared with the cursor by instant
\* and id, ordered by instant and rowid.
SqliteGitCheckpointPage(c, n) ==
  Select({i \in Mine : c = NoCursor \/ (Has(c) /\ Older(Find(c), i))}, OlderByRowid, n)

AdapterGitCheckpointPage(c, n) ==
  Select({i \in Mine : c = NoCursor \/ (Has(c) /\ Older(Find(c), i))}, Older, n)

\* Mutant: the ties of an instant are left out.
StrictlyLaterMembersPage(c, n) ==
  Select({i \in Mine : /\ rows[i].live
                       /\ c = NoCursor \/ (Has(c) /\ rows[Find(c)].at < rows[i].at)}, Older, n)

\* AuthStore.listOrgMembersPage: an erased member still stands for its instant.
MembersPage(c, n) ==
  Select({i \in Mine : /\ rows[i].live
                       /\ c = NoCursor \/ (Has(c) /\ Older(Find(c), i))}, Older, n)

Page(c, n) ==
  CASE listing = "SqliteConversation"   -> SqliteConversationPage(c, n)
    [] listing = "AdapterConversation"  -> AdapterConversationPage(c, n)
    [] listing = "SqliteGitCheckpoint"  -> SqliteGitCheckpointPage(c, n)
    [] listing = "AdapterGitCheckpoint" -> AdapterGitCheckpointPage(c, n)
    [] listing = "Members"              -> MembersPage(c, n)

\* The cursor check: the row must be there, and a member not erased.
ValidCursor(c) == Has(c) /\ rows[Find(c)].live

\* SqliteConversationStore.listAll, AdapterConversationStore.listAll.
SqliteListAll  == Select(Mine, ByRowid, Cardinality(Mine))
AdapterListAll == Select(Mine, Older, Cardinality(Mine))

-----------------------------------------------------------------------------
(* Changes of the table. *)

\* A change of the table, of interest until the walk has ended.
Walk ==
  /\ walk \notin {"done", "refused"}
  /\ UNCHANGED <<listing, limit, cursor, walk, got, before>>

NextRowid == Max({0} \cup DOMAIN rows) + 1

\* A row is made and stored: INSERT, at the end of the table.
Insert(id, mine, at) ==
  /\ id \in Ids \ inserted
  /\ at >= clock
  /\ clock' = at
  /\ rows' = [i \in DOMAIN rows \cup {NextRowid} |->
                IF i = NextRowid THEN [id |-> id, at |-> at, mine |-> mine, live |-> TRUE]
                ELSE rows[i]]
  /\ inserted' = inserted \cup {id}
  /\ Walk

InsertMessage(id, mine, at) ==
  /\ listing \in {"SqliteConversation", "AdapterConversation"}
  /\ Insert(id, mine, at)

\* A checkpoint comes of a commit, and no two are of one millisecond, which
\* matters to the Sqlite store only.
InsertCheckpoint(id, mine, at) ==
  /\ listing \in {"SqliteGitCheckpoint", "AdapterGitCheckpoint"}
  /\ listing = "SqliteGitCheckpoint" /\ inserted # {} => at > clock
  /\ Insert(id, mine, at)

\* An invite is accepted.
AddMember(id, mine, at) ==
  /\ listing = "Members"
  /\ Insert(id, mine, at)

\* deleteAll of a conversation; the checkpoints go with their session.
DeleteAll ==
  /\ listing # "Members"
  /\ Mine # {}
  /\ rows' = Restrict(rows, DOMAIN rows \ Mine)
  /\ UNCHANGED <<clock, inserted>>
  /\ Walk

\* eraseUser leaves the row, without its data.
EraseUser ==
  /\ listing = "Members"
  /\ \E i \in Mine :
       /\ rows[i].live
       /\ rows' = [rows EXCEPT ![i].live = FALSE]
  /\ UNCHANGED <<clock, inserted>>
  /\ Walk

-----------------------------------------------------------------------------
(* The walk. *)

Table == UNCHANGED <<listing, limit, rows, clock, inserted>>

Begin ==
  /\ walk = "idle"
  /\ walk' = "ask"
  /\ before' = {rows[i].id : i \in {j \in Mine : rows[j].live}}
  /\ UNCHANGED <<cursor, got>>
  /\ Table

\* The page goes to the client; a further row is asked for to know of a next page.
Give ==
  LET found == Page(cursor, limit + 1)
      page  == SubSeq(found, 1, Min({limit, Len(found)}))
      more  == Len(found) > limit
  IN /\ got' = got \o page
     /\ cursor' = IF more THEN Last(page) ELSE NoCursor
     /\ walk' = IF more THEN "ask" ELSE "done"
     /\ UNCHANGED before
     /\ Table

Refused ==
  /\ walk' = "refused"
  /\ UNCHANGED <<cursor, got, before>>
  /\ Table

OneStatement == listing \in {"SqliteConversation", "SqliteGitCheckpoint"}

\* Look up the cursor of the request, if it has one.
Check ==
  /\ walk = "ask"
  /\ IF cursor # NoCursor /\ ~ValidCursor(cursor) THEN Refused
     ELSE IF OneStatement THEN Give
     ELSE /\ walk' = "checked"
          /\ UNCHANGED <<cursor, got, before>>
          /\ Table

\* What was awaited after the check.
Fetch == walk = "checked" /\ Give

PagingNext ==
  \/ \E id \in Ids, mine \in BOOLEAN, at \in 0..MaxInstant :
       InsertMessage(id, mine, at) \/ InsertCheckpoint(id, mine, at) \/ AddMember(id, mine, at)
  \/ DeleteAll \/ EraseUser
  \/ Begin \/ Check \/ Fetch

-----------------------------------------------------------------------------
PagingTypeOK ==
  /\ listing \in AllListings /\ limit \in Nat \ {0}
  /\ IsFiniteSet(DOMAIN rows) /\ DOMAIN rows \subseteq Nat \ {0}
  /\ \A i \in DOMAIN rows : rows[i] \in [id : Ids, at : 0..MaxInstant, mine : BOOLEAN, live : BOOLEAN]
  /\ clock \in 0..MaxInstant
  /\ cursor \in Ids \cup {NoCursor}
  /\ walk \in {"idle", "ask", "checked", "done", "refused"}
  /\ got \in Seq(Ids)
  /\ inserted \subseteq Ids /\ before \subseteq Ids

\* A walk that came to its end was given every row that was there when it began
\* and is there still, none twice, and none of others, in the order of listAll.
EveryRowOnce ==
  /\ PagingTypeOK
  /\ IsInjective(got)
  /\ \A i \in DOMAIN rows : rows[i].id \in Range(got) => rows[i].mine
  /\ walk = "done" =>
       \A i \in Mine : rows[i].live /\ rows[i].id \in before => rows[i].id \in Range(got)
  /\ listing \in {"SqliteConversation", "AdapterConversation"} =>
       LET all == IF listing = "SqliteConversation" THEN SqliteListAll ELSE AdapterListAll
       IN \A i, j \in DOMAIN got, k, l \in DOMAIN all :
            i < j /\ all[k] = got[i] /\ all[l] = got[j] => l < k
=============================================================================
