--------------------------- MODULE DialogueProofs ---------------------------
(***************************************************************************)
(* Theorems about what goes to a model and comes back: the completions of     *)
(* the LLM router, the compactions of a conversation and the memories of a    *)
(* user.                                                                   *)
(***************************************************************************)
EXTENDS PartsProofs

\* A sum of naturals over a finite set is a number of dots: f[x] of them at
\* each x.
Dots(f, S) == {p \in S \X Nat : 1 <= p[2] /\ p[2] <= f[p[1]]}
Dotted(f, S) == Cardinality(Dots(f, S))

\* Among the subsets of a finite set, whatever holds of none but some fails of
\* one whose smaller subsets it all holds of.
LEMMA LeastSubset ==
  ASSUME NEW S, IsFiniteSet(S), NEW Bad \in SUBSET (SUBSET S), Bad # {}
  PROVE  \E T \in Bad : \A x \in T : T \ {x} \notin Bad
<1>1. IsWellFoundedOn(StrictSubsetOrdering(S), FiniteSubsetsOf(S))
  BY FS_StrictSubsetOrderingWellFounded
<1>2. \A T \in SUBSET S : IsFiniteSet(T) BY FS_Subset
<1>3. Bad \subseteq FiniteSubsetsOf(S) BY <1>2 DEF FiniteSubsetsOf
<1>4. PICK T \in Bad : \A U \in Bad : <<U, T>> \notin StrictSubsetOrdering(S) BY <1>1, <1>3, WFMin
<1>5. ASSUME NEW x \in T, T \ {x} \in Bad PROVE FALSE
  <2>1. <<T \ {x}, T>> \in StrictSubsetOrdering(S) BY <1>2, <1>5 DEF StrictSubsetOrdering
  <2>2. QED BY <1>4, <1>5, <2>1
<1>6. QED BY <1>4, <1>5

\* The dots of a set are those of one element and those of the others.
LEMMA DotsAt ==
  ASSUME NEW S, NEW f, \A y \in S : f[y] \in Nat, NEW x \in S,
         IsFiniteSet(Dots(f, S \ {x}))
  PROVE  IsFiniteSet(Dots(f, S)) /\ Dotted(f, S) = f[x] + Dotted(f, S \ {x})
<1> DEFINE Column == {x} \X (1..f[x])
           Others == Dots(f, S \ {x})
<1>1. Dots(f, S) = Others \cup Column BY DEF Dots
<1>2. Others \cap Column = {} BY DEF Dots
<1> DEFINE top == f[x]
<1>3. top \in Nat OBVIOUS
<1>4. IsFiniteSet(1..top) /\ Cardinality(1..top) = top
  <2> HIDE DEF top
  <2>1. 1 \in Int /\ top \in Int BY <1>3
  <2>2. QED BY <1>3, <2>1, FS_Interval
<1>5. IsFiniteSet({x}) /\ Cardinality({x}) = 1 BY FS_Singleton
<1>6. IsFiniteSet(Column) /\ Cardinality(Column) = 1 * top
  <2> DEFINE N == 1..top
  <2> HIDE DEF N
  <2>1. IsFiniteSet(N) /\ Cardinality(N) = top BY <1>4 DEF N
  <2>2. IsFiniteSet({x} \X N) /\ Cardinality({x} \X N) = Cardinality({x}) * Cardinality(N)
    BY <1>5, <2>1, FS_Product
  <2>3. QED BY <1>5, <2>1, <2>2 DEF N
<1> HIDE DEF Column, Others
<1>7. IsFiniteSet(Others) BY DEF Others
<1>8. /\ IsFiniteSet(Others \cup Column)
      /\ Cardinality(Others \cup Column) = Cardinality(Others) + Cardinality(Column) - Cardinality(Others \cap Column)
  BY <1>6, <1>7, FS_Union
<1>9. Cardinality(Others \cap Column) = 0 BY <1>2, FS_EmptySet
<1>10. Cardinality(Others) \in Nat BY <1>7, FS_CardinalityType
<1>11. Cardinality(Dots(f, S)) = f[x] + Cardinality(Others) BY <1>1, <1>3, <1>6, <1>8, <1>9, <1>10
<1>12. QED BY <1>1, <1>8, <1>11 DEF Dotted, Others

\* There are finitely many dots.
LEMMA DotsFinite ==
  ASSUME NEW S, IsFiniteSet(S), NEW f, \A y \in S : f[y] \in Nat
  PROVE  IsFiniteSet(Dots(f, S)) /\ Dotted(f, S) \in Nat
<1> DEFINE Bad == {T \in SUBSET S : ~IsFiniteSet(Dots(f, T))}
<1>1. ASSUME Bad # {} PROVE FALSE
  <2>1. PICK T \in Bad : \A x \in T : T \ {x} \notin Bad
    <3> HIDE DEF Bad
    <3>1. Bad \in SUBSET (SUBSET S) BY DEF Bad
    <3>2. QED BY <1>1, <3>1, LeastSubset
  <2>2. CASE T = {}
    <3>1. Dots(f, T) = {} BY <2>2 DEF Dots
    <3>2. QED BY <3>1, FS_EmptySet
  <2>3. CASE T # {}
    <3>1. PICK x \in T : TRUE BY <2>3
    <3>2. IsFiniteSet(Dots(f, T \ {x})) BY <2>1, <3>1
    <3>3. \A y \in T : f[y] \in Nat OBVIOUS
    <3>4. IsFiniteSet(Dots(f, T)) BY <3>1, <3>2, <3>3, DotsAt
    <3>5. QED BY <3>4
  <2>4. QED BY <2>2, <2>3
<1>2. IsFiniteSet(Dots(f, S)) BY <1>1
<1>3. QED BY <1>2, FS_CardinalityType DEF Dotted

\* The tokens of rows are as many as their dots.
LEMMA TokensAreDots ==
  ASSUME NEW S, IsFiniteSet(S), NEW log, \A y \in S : log[y].tokens \in Nat
  PROVE  TokensOf(log, S) \in Nat
<1> DEFINE f == [y \in S |-> log[y].tokens]
           c(s) == CHOOSE x \in s : TRUE
           Body(g, s) == IF s = {} THEN 0 ELSE g[s \ {c(s)}] + log[c(s)].tokens
           Recurs(g) == g = [s \in SUBSET S |-> Body(g, s)]
           sum == CHOOSE g : Recurs(g)
           count == [s \in SUBSET S |-> Dotted(f, s)]
<1>1. TokensOf(log, S) = sum[S] BY DEF TokensOf, FoldSet, MapThenFoldSet
<1>2. ASSUME NEW s \in SUBSET S
      PROVE  /\ s = {} => Dotted(f, s) = 0
             /\ s # {} => c(s) \in s /\ Dotted(f, s) = f[c(s)] + Dotted(f, s \ {c(s)})
  <2>1. CASE s = {}
    <3>1. Dots(f, s) = {} BY <2>1 DEF Dots
    <3>2. QED BY <2>1, <3>1, FS_EmptySet DEF Dotted
  <2>2. CASE s # {}
    <3>1. c(s) \in s BY <2>2
    <3>2. \A y \in s : f[y] \in Nat OBVIOUS
    <3> HIDE DEF c
    <3>3. IsFiniteSet(s \ {c(s)}) BY FS_Subset
    <3>4. IsFiniteSet(Dots(f, s \ {c(s)})) BY <3>2, <3>3, DotsFinite
    <3>5. QED BY <2>2, <3>1, <3>2, <3>4, DotsAt
  <2>3. QED BY <2>1, <2>2
<1> HIDE DEF f
<1>3. \A y \in S : f[y] = log[y].tokens /\ f[y] \in Nat BY DEF f
<1>4. ASSUME NEW s \in SUBSET S PROVE Dotted(f, s) \in Nat
  <2>1. IsFiniteSet(s) BY FS_Subset
  <2>2. \A y \in s : f[y] \in Nat BY <1>3
  <2>3. QED BY <2>1, <2>2, DotsFinite
<1>5. ASSUME NEW s \in SUBSET S PROVE count[s] = Body(count, s)
  <2>1. CASE s = {} BY <1>2, <2>1
  <2>2. CASE s # {}
    <3>1. c(s) \in s /\ Dotted(f, s) = f[c(s)] + Dotted(f, s \ {c(s)}) BY <1>2, <2>2
    <3> HIDE DEF c
    <3>2. s \ {c(s)} \in SUBSET S OBVIOUS
    <3>3. count[s \ {c(s)}] = Dotted(f, s \ {c(s)}) /\ count[s] = Dotted(f, s) BY <3>2
    <3>4. f[c(s)] = log[c(s)].tokens /\ f[c(s)] \in Nat BY <1>3, <3>1
    <3>5. Dotted(f, s \ {c(s)}) \in Nat BY <1>4, <3>2
    <3>6. QED BY <2>2, <3>1, <3>3, <3>4, <3>5
  <2>3. QED BY <2>1, <2>2
<1>6. Recurs(count)
  <2> DEFINE h == [s \in SUBSET S |-> Body(count, s)]
  <2>1. \A s \in SUBSET S : h[s] = count[s] BY <1>5
  <2>2. count = [s \in SUBSET S |-> count[s]] /\ h = [s \in SUBSET S |-> h[s]] OBVIOUS
  <2>3. count = h
    <3> HIDE DEF count, h
    <3>1. QED BY <2>1, <2>2
  <2>4. QED BY <2>3
<1>7. Recurs(sum)
  <2> HIDE DEF count, Recurs
  <2>1. QED BY <1>6
<1>8. ASSUME NEW s \in SUBSET S PROVE sum[s] = Body(sum, s)
  <2> HIDE DEF sum, Body
  <2>1. QED BY <1>7
<1> HIDE DEF sum, count
<1> DEFINE Bad == {s \in SUBSET S : sum[s] # Dotted(f, s)}
<1>9. ASSUME Bad # {} PROVE FALSE
  <2>1. PICK s \in Bad : \A x \in s : s \ {x} \notin Bad
    <3> HIDE DEF Bad
    <3>1. Bad \in SUBSET (SUBSET S) BY DEF Bad
    <3>2. QED BY <1>9, <3>1, LeastSubset
  <2>2. s \in SUBSET S /\ sum[s] # Dotted(f, s) BY <2>1
  <2>3. CASE s = {} BY <1>2, <1>8, <2>2, <2>3
  <2>4. CASE s # {}
    <3>1. c(s) \in s /\ Dotted(f, s) = f[c(s)] + Dotted(f, s \ {c(s)}) BY <1>2, <2>2, <2>4
    <3>2. sum[s] = sum[s \ {c(s)}] + log[c(s)].tokens BY <1>8, <2>2, <2>4
    <3> HIDE DEF c
    <3>3. sum[s \ {c(s)}] = Dotted(f, s \ {c(s)}) BY <2>1, <2>2, <3>1
    <3>4. f[c(s)] = log[c(s)].tokens /\ f[c(s)] \in Nat BY <1>3, <2>2, <3>1
    <3>5. Dotted(f, s \ {c(s)}) \in Nat BY <1>4, <2>2
    <3>6. QED BY <2>2, <3>1, <3>2, <3>3, <3>4, <3>5
  <2>5. QED BY <2>3, <2>4
<1>10. QED BY <1>1, <1>9, <1>4

\* A row of the log, and what a request is at.
LogRows == [tokens : Nat, anchor : BOOLEAN, boundary : BOOLEAN, by : Requesters \cup {"nobody"},
            covers : SUBSET Nat, written : BOOLEAN]
RequestsAt == [step : {"idle", "none", "summary", "persist", "persisted"},
               kind : {"none", "snip", "full", "forced"}, made : SUBSET Nat]

SummariesTyped ==
  /\ chatLog \in Seq(LogRows)
  /\ request \in [Requesters -> RequestsAt]
  /\ \A q \in Requesters : request[q].made \in SUBSET (1..Len(chatLog))

\* What a request makes a summary of, with the thresholds as they are.
Due(r) ==
  /\ r.kind = "none" => r.step \in {"idle", "none"}
  /\ r.kind = "full" /\ SnipPercent <= FullPercent => r.step = "none" \/ (r.step = "summary" /\ r.made = {})

\* A summary is of one request that ended, and of rows before it.
SummaryOf(i) ==
  LET row == chatLog[i] IN
  /\ row.by \in Requesters
  /\ request[row.by].step = "persisted" /\ request[row.by].made = row.covers
  /\ \A k \in row.covers : k < i
  /\ row.written => request[row.by].kind # "snip"

\* Those of requests that did not cross come one after another: what the one summarises
\* or is to summarise comes after the summary of the other.
InTurn ==
  /\ \A q, r \in Requesters : q # r /\ InWork(q) /\ InWork(r) => {q, r} \in crossed
  /\ \A i, j \in Boundaries : chatLog[i].by = chatLog[j].by => i = j
  /\ \A i \in Boundaries, q \in Requesters :
       InWork(q) /\ {q, chatLog[i].by} \notin crossed => \A k \in request[q].made : i < k
  /\ \A i, j \in Boundaries :
       i < j /\ {chatLog[i].by, chatLog[j].by} \notin crossed => \A k \in chatLog[j].covers : i < k

SummariesInv ==
  /\ SummariesTyped
  /\ \A q \in Requesters : Due(request[q])
  /\ \A i \in Boundaries : SummaryOf(i)
  /\ InTurn

\* The invariant says what is promised of the summaries.
LEMMA SummariesInvTells == SummariesInv => SummariesTrue
<1> SUFFICES ASSUME SummariesInv PROVE SummariesTrue OBVIOUS
<1>1. /\ Boundaries \in SUBSET Nat
      /\ \A i \in Boundaries : SummaryOf(i) /\ chatLog[i].covers \in SUBSET Nat
      /\ \A q \in Requesters : Due(request[q])
  <2>1. \A i \in DOMAIN chatLog : i \in Nat /\ chatLog[i] \in LogRows BY DEF SummariesInv, SummariesTyped
  <2>2. QED BY <2>1 DEF SummariesInv, Boundaries, LogRows
<1>2. SummariesClose BY <1>1 DEF SummariesClose, SummaryOf
<1>3. AutomaticOnlyCounts
  <2> SUFFICES ASSUME SnipPercent <= FullPercent, NEW i \in Boundaries, chatLog[i].written
               PROVE  request[chatLog[i].by].kind = "forced"
    BY DEF AutomaticOnlyCounts
  <2> DEFINE r == request[chatLog[i].by]
  <2>1. r.step = "persisted" /\ r.kind # "snip" /\ Due(r) /\ r \in RequestsAt
    BY <1>1 DEF SummaryOf, SummariesInv, SummariesTyped
  <2> HIDE DEF r
  <2>2. r.kind = "forced" BY <2>1 DEF Due, RequestsAt
  <2>3. QED BY <2>2 DEF r
<1>4. ASSUME NEW i \in Boundaries, NEW j \in Boundaries, i < j,
             {chatLog[i].by, chatLog[j].by} \notin crossed
      PROVE  /\ chatLog[i].covers \cap chatLog[j].covers = {}
             /\ j \notin chatLog[i].covers /\ i \notin chatLog[j].covers
  <2>1. \A k \in chatLog[j].covers : i < k /\ k \in Nat BY <1>1, <1>4 DEF SummariesInv, InTurn
  <2>2. \A k \in chatLog[i].covers : k < i /\ k \in Nat BY <1>1 DEF SummaryOf
  <2>3. i \in Nat /\ j \in Nat BY <1>1
  <2>4. QED BY <1>4, <2>1, <2>2, <2>3
<1>5. SummarisedOnce
  <2> SUFFICES ASSUME NEW i \in Boundaries, NEW j \in Boundaries,
                      {chatLog[i].by, chatLog[j].by} \notin crossed
               PROVE  /\ i # j => chatLog[i].covers \cap chatLog[j].covers = {}
                      /\ j \notin chatLog[i].covers
    BY DEF SummarisedOnce
  <2>1. i \in Nat /\ j \in Nat BY <1>1
  <2>2. CASE i < j BY <1>4, <2>2
  <2>3. CASE j < i
    <3>1. {chatLog[j].by, chatLog[i].by} = {chatLog[i].by, chatLog[j].by} OBVIOUS
    <3>2. QED BY <1>4, <2>3, <3>1
  <2>4. CASE i = j
    <3>1. \A k \in chatLog[i].covers : k < i BY <1>1 DEF SummaryOf
    <3>2. QED BY <2>1, <2>4, <3>1
  <2>5. QED BY <2>1, <2>2, <2>3, <2>4
<1>6. QED BY <1>2, <1>3, <1>5 DEF SummariesTrue

\* What is active comes after the last summary, and what is selected is active.
LEMMA SelectsActive ==
  ASSUME NEW log \in Seq(LogRows), NEW keep
  PROVE  LET active == ActiveMessages(log)
         IN  /\ active \in SUBSET (1..Len(log)) /\ IsFiniteSet(active)
             /\ selectRange(log, active, keep) \in SUBSET active
             /\ \A i \in 1..Len(log) : log[i].boundary => \A k \in active : i < k
<1> DEFINE I == {i \in 1..Len(log) : log[i].boundary}
           last == IF I # {} THEN Max(I) ELSE 0
           n == Len(log)
           active == last + 1..n
           candidates == {i \in active : i > Min(active) /\ i + keep <= Max(active) /\ ~IsAnchor(log[i])}
<1>1. ActiveMessages(log) = active BY DEF ActiveMessages, SelectLastInSeq
<1>2. n \in Nat /\ \A i \in 1..n : log[i] \in LogRows OBVIOUS
<1>3. last \in 0..n /\ \A i \in I : i <= last
  <2>1. I \in SUBSET Int /\ IsFiniteSet(I)
    <3>1. IsFiniteSet(1..n) BY <1>2, FS_Interval
    <3>2. I \in SUBSET (1..n) OBVIOUS
    <3> HIDE DEF I
    <3>3. IsFiniteSet(I) BY <3>1, <3>2, FS_Subset
    <3>4. QED BY <3>2, <3>3
  <2>2. CASE I # {}
    <3>1. Max(I) \in I /\ \A y \in I : Max(I) >= y
      <4> HIDE DEF I
      <4>1. QED BY <2>1, <2>2, HasMax
    <3>2. last = Max(I) BY <2>2
    <3>3. I \in SUBSET (1..n) OBVIOUS
    <3> HIDE DEF I, last, n
    <3>4. \A y \in I : y \in 1..n BY <3>3
    <3>5. last \in 1..n /\ \A y \in I : last >= y BY <3>1, <3>2, <3>4
    <3>6. \A y \in 1..n : last >= y => y <= last BY <1>2, <3>5
    <3>7. QED BY <1>2, <3>4, <3>5, <3>6
  <2>3. CASE I = {} BY <1>2, <2>3
  <2>4. QED BY <2>2, <2>3
<1>4. \A i \in 1..n : log[i].boundary => i \in I OBVIOUS
<1> HIDE DEF I, last, n
<1>5. active \in SUBSET (1..n) /\ IsFiniteSet(active)
  <2>1. last + 1 \in Int /\ n \in Int BY <1>2, <1>3
  <2>2. IsFiniteSet(active) BY <2>1, FS_Interval
  <2>3. QED BY <1>2, <1>3, <2>2
<1>6. \A i \in 1..n : log[i].boundary => \A k \in active : i < k BY <1>2, <1>3, <1>4
<1>7. candidates # {} => Min(candidates)..Max(candidates) \in SUBSET active
  <2> SUFFICES ASSUME candidates # {} PROVE Min(candidates)..Max(candidates) \in SUBSET active OBVIOUS
  <2>1. candidates \in SUBSET active OBVIOUS
  <2> HIDE DEF candidates
  <2>2. IsFiniteSet(candidates)
    <3> HIDE DEF active
    <3>1. QED BY <1>5, <2>1, FS_Subset
  <2>3. candidates \in SUBSET Nat BY <1>5, <2>1
  <2>4. Min(candidates) \in candidates /\ Max(candidates) \in candidates BY <2>2, <2>3, HasMin, HasMax
  <2>5. Min(candidates) \in active /\ Max(candidates) \in active BY <2>1, <2>4
  <2>6. \A x, y \in active : x..y \in SUBSET active BY <1>2, <1>3
  <2>7. QED BY <2>5, <2>6
<1>8. selectRange(log, active, keep) \in SUBSET active
  <2>1. selectRange(log, active, keep)
          = IF candidates = {} THEN {} ELSE Min(candidates)..Max(candidates)
    BY DEF selectRange
  <2> HIDE DEF candidates, active
  <2>2. QED BY <1>7, <2>1
<1> HIDE DEF active
<1>9. QED BY <1>1, <1>5, <1>6, <1>8 DEF n

\* A row is written behind the others.
LEMMA RowAppended ==
  ASSUME SummariesTyped, NEW row \in LogRows, chatLog' = Append(chatLog, row)
  PROVE  LET n == Len(chatLog)
         IN  /\ chatLog' \in Seq(LogRows) /\ Len(chatLog') = n + 1 /\ n \in Nat
             /\ chatLog'[n + 1] = row
             /\ \A i \in 1..n : chatLog'[i] = chatLog[i]
             /\ Boundaries \in SUBSET (1..n)
             /\ Boundaries' = Boundaries \cup (IF row.boundary THEN {n + 1} ELSE {})
<1> DEFINE n == Len(chatLog)
<1>1. chatLog \in Seq(LogRows) BY DEF SummariesTyped
<1>2. /\ chatLog' \in Seq(LogRows) /\ Len(chatLog') = n + 1 /\ n \in Nat
      /\ chatLog'[n + 1] = row /\ \A i \in 1..n : chatLog'[i] = chatLog[i]
  BY <1>1
<1>3. DOMAIN chatLog = 1..n /\ DOMAIN chatLog' = 1..n + 1 BY <1>1, <1>2
<1> HIDE DEF n
<1>4. Boundaries = {i \in 1..n : chatLog[i].boundary} BY <1>3 DEF Boundaries
<1>5. Boundaries' = {i \in 1..n + 1 : chatLog'[i].boundary} BY <1>3 DEF Boundaries
<1>6. 1..n + 1 = 1..n \cup {n + 1} /\ n + 1 \notin 1..n BY <1>2
<1>7. {i \in 1..n + 1 : chatLog'[i].boundary}
        = {i \in 1..n : chatLog'[i].boundary} \cup {i \in {n + 1} : chatLog'[i].boundary}
  BY <1>6
<1>8. {i \in 1..n : chatLog'[i].boundary} = {i \in 1..n : chatLog[i].boundary} BY <1>2
<1>9. {i \in {n + 1} : chatLog'[i].boundary} = IF row.boundary THEN {n + 1} ELSE {} BY <1>2
<1>10. QED BY <1>2, <1>4, <1>5, <1>7, <1>8, <1>9 DEF n

\* A message of the chat is no boundary.
LEMMA ChatGoesOn == SummariesInv /\ AddChatMessage => SummariesInv'
<1> SUFFICES ASSUME SummariesInv, AddChatMessage PROVE SummariesInv' OBVIOUS
<1> DEFINE n == Len(chatLog)
<1>1. UNCHANGED <<request, crossed>> BY DEF AddChatMessage
<1>2. PICK row \in LogRows : chatLog' = Append(chatLog, row) /\ row.boundary = FALSE
  <2>1. PICK count \in MessageSizes, anchor \in BOOLEAN : chatLog' = Append(chatLog, Plain(count, anchor))
    BY DEF AddChatMessage
  <2>2. count \in Nat BY CompactionsAssumption
  <2>3. Plain(count, anchor) \in LogRows /\ Plain(count, anchor).boundary = FALSE
    BY <2>2 DEF Plain, LogRows
  <2>4. QED BY <2>1, <2>3
<1>3. SummariesTyped BY DEF SummariesInv
<1>4. /\ chatLog' \in Seq(LogRows) /\ Len(chatLog') = n + 1 /\ n \in Nat
      /\ \A i \in 1..n : chatLog'[i] = chatLog[i]
      /\ Boundaries \in SUBSET (1..n) /\ Boundaries' = Boundaries
  BY <1>2, <1>3, RowAppended
<1> HIDE DEF n
<1>5. SummariesTyped'
  <2>1. ASSUME NEW q \in Requesters PROVE request[q].made \in SUBSET (1..n + 1)
    <3>1. request[q].made \in SUBSET (1..n) BY <1>3 DEF SummariesTyped, n
    <3>2. QED BY <1>4, <3>1
  <2>2. request \in [Requesters -> RequestsAt] BY <1>3 DEF SummariesTyped
  <2>3. QED BY <1>1, <1>4, <2>1, <2>2 DEF SummariesTyped
<1>6. \A i \in Boundaries : chatLog'[i] = chatLog[i] BY <1>4
<1>7. \A q \in Requesters : Due(request[q])' BY <1>1 DEF SummariesInv, Due
<1>8. \A i \in Boundaries' : SummaryOf(i)' BY <1>1, <1>4, <1>6 DEF SummariesInv, SummaryOf
<1>9. InTurn' BY <1>1, <1>4, <1>6 DEF SummariesInv, InTurn, InWork
<1>10. QED BY <1>5, <1>7, <1>8, <1>9 DEF SummariesInv

\* A request reads the rows: what it is to summarise comes after every summary.
LEMMA RequestBegins ==
  ASSUME SummariesInv, NEW q \in Requesters, request[q].step = "idle",
         NEW kind, NEW step, NEW chosen, BeginRequest(q, kind, step, chosen),
         chosen \in SUBSET (1..Len(chatLog)),
         \A i \in Boundaries : \A k \in chosen : i < k,
         [step |-> step, kind |-> kind, made |-> chosen] \in RequestsAt,
         step \in {"none", "summary", "persist"},
         Due([step |-> step, kind |-> kind, made |-> chosen])
  PROVE  SummariesInv'
<1> DEFINE r == [step |-> step, kind |-> kind, made |-> chosen]
<1>1. SummariesTyped BY DEF SummariesInv
<1>2. UNCHANGED chatLog /\ Boundaries' = Boundaries BY DEF BeginRequest, Boundaries
<1>3. request' = [request EXCEPT ![q] = r] BY DEF BeginRequest, RequestIs
<1>4. r.step = step /\ r.kind = kind /\ r.made = chosen /\ r \in RequestsAt /\ Due(r) OBVIOUS
<1> HIDE DEF r
<1>5. request \in [Requesters -> RequestsAt] BY <1>1 DEF SummariesTyped
<1>6. request' \in [Requesters -> RequestsAt] /\ request'[q] = r
      /\ \A p \in Requesters : p # q => request'[p] = request[p]
  BY <1>3, <1>4, <1>5
<1>7. SummariesTyped' BY <1>1, <1>2, <1>4, <1>6 DEF SummariesTyped
<1>8. \A p \in Requesters : Due(request[p])'
  <2>1. \A p \in Requesters : Due(request'[p]) BY <1>4, <1>6 DEF SummariesInv
  <2>2. QED BY <2>1 DEF Due
<1>9. \A i \in Boundaries : chatLog[i].by \in Requesters /\ chatLog[i].by # q /\ SummaryOf(i)
  BY DEF SummariesInv, SummaryOf
<1>10. \A i \in Boundaries' : SummaryOf(i)' BY <1>2, <1>6, <1>9 DEF SummaryOf
<1>11. crossed \subseteq crossed'
       /\ (step # "none" => \A p \in Requesters \ {q} : InWork(p) => {q, p} \in crossed')
  <2>1. CASE step = "none" BY <2>1 DEF BeginRequest
  <2>2. CASE step # "none"
    <3>1. crossed' = crossed \cup {{q, p} : p \in {p \in Requesters \ {q} : InWork(p)}}
      BY <2>2 DEF BeginRequest
    <3>2. QED BY <2>2, <3>1
  <2>3. QED BY <2>1, <2>2
<1>12. InTurn'
  <2>1. ASSUME NEW a \in Requesters, NEW b \in Requesters, a # b, InWork(a)', InWork(b)'
        PROVE  {a, b} \in crossed'
    <3>1. CASE a = q
      <4>1. InWork(b) BY <1>6, <2>1, <3>1 DEF InWork
      <4>2. step # "none" BY <1>4, <1>6, <2>1, <3>1 DEF InWork
      <4>3. QED BY <1>11, <2>1, <3>1, <4>1, <4>2
    <3>2. CASE b = q
      <4>1. InWork(a) BY <1>6, <2>1, <3>2 DEF InWork
      <4>2. step # "none" BY <1>4, <1>6, <2>1, <3>2 DEF InWork
      <4>3. {q, a} \in crossed' BY <1>11, <2>1, <3>2, <4>1, <4>2
      <4>4. {a, b} = {q, a} BY <3>2
      <4>5. QED BY <4>3, <4>4
    <3>3. CASE a # q /\ b # q
      <4>1. InWork(a) /\ InWork(b) BY <1>6, <2>1, <3>3 DEF InWork
      <4>2. QED BY <1>11, <2>1, <4>1 DEF SummariesInv, InTurn
    <3>4. QED BY <3>1, <3>2, <3>3
  <2>2. \A i, j \in Boundaries : chatLog[i].by = chatLog[j].by => i = j BY DEF SummariesInv, InTurn
  <2>3. ASSUME NEW i \in Boundaries, NEW p \in Requesters, InWork(p)', {p, chatLog[i].by} \notin crossed'
        PROVE  \A k \in request'[p].made : i < k
    <3>1. CASE p = q BY <1>4, <1>6, <3>1
    <3>2. CASE p # q
      <4>1. InWork(p) /\ request'[p] = request[p] BY <1>6, <2>3, <3>2 DEF InWork
      <4>2. QED BY <1>11, <2>3, <4>1 DEF SummariesInv, InTurn
    <3>3. QED BY <3>1, <3>2
  <2>4. ASSUME NEW i \in Boundaries, NEW j \in Boundaries, i < j,
               {chatLog[i].by, chatLog[j].by} \notin crossed'
        PROVE  \A k \in chatLog[j].covers : i < k
    BY <1>11, <2>4 DEF SummariesInv, InTurn
  <2>5. QED BY <1>2, <2>1, <2>2, <2>3, <2>4 DEF InTurn
<1>13. QED BY <1>7, <1>8, <1>10, <1>12 DEF SummariesInv

\* What is left to select of the rows, and how many tokens these are.
LEMMA ActiveAre ==
  ASSUME SummariesInv
  PROVE  LET active == ActiveMessages(chatLog)
         IN  /\ TokensOf(chatLog, active) \in Nat
             /\ \A keep : /\ selectRange(chatLog, active, keep) \in SUBSET (1..Len(chatLog))
                          /\ selectRange(chatLog, active, keep) \in SUBSET Nat
                          /\ \A i \in Boundaries : \A k \in selectRange(chatLog, active, keep) : i < k
<1> DEFINE active == ActiveMessages(chatLog)
<1>1. chatLog \in Seq(LogRows) /\ \A i \in 1..Len(chatLog) : chatLog[i] \in LogRows
  BY DEF SummariesInv, SummariesTyped
<1>2. /\ active \in SUBSET (1..Len(chatLog)) /\ IsFiniteSet(active)
      /\ \A keep : selectRange(chatLog, active, keep) \in SUBSET active
      /\ \A i \in 1..Len(chatLog) : chatLog[i].boundary => \A k \in active : i < k
  BY <1>1, SelectsActive
<1>3. Boundaries = {i \in 1..Len(chatLog) : chatLog[i].boundary} BY <1>1 DEF Boundaries
<1> HIDE DEF active
<1>4. TokensOf(chatLog, active) \in Nat
  <2>1. \A i \in active : chatLog[i].tokens \in Nat BY <1>1, <1>2 DEF LogRows
  <2>2. QED BY <1>2, <2>1, TokensAreDots
<1>5. Len(chatLog) \in Nat BY <1>1
<1>6. QED BY <1>2, <1>3, <1>4, <1>5 DEF active

\* A prompt that exceeds the higher threshold exceeds the lower one.
LEMMA ThresholdsNest ==
  ASSUME NEW used \in Nat, SnipPercent <= FullPercent, Exceeds(FullPercent, used)
  PROVE  Exceeds(SnipPercent, used)
<1>1. SnipPercent \in Nat /\ FullPercent \in Nat /\ Window \in Nat BY CompactionsAssumption
<1>2. \A a, b, c \in Nat : a <= b => a * c <= b * c OBVIOUS
<1>3. SnipPercent * Window <= FullPercent * Window BY <1>1, <1>2
<1>4. \A a, b, c, d \in Int : a <= b /\ c > b => c > a OBVIOUS
<1>5. SnipPercent * Window \in Int /\ FullPercent * Window \in Int /\ used * 100 \in Int BY <1>1
<1>6. QED BY <1>3, <1>4, <1>5 DEF Exceeds

\* An automatic request: the snip compactor, or the full one where that has nothing.
LEMMA MaybeCompacts ==
  ASSUME SummariesInv, NEW q \in Requesters, MaybeCompact(q)
  PROVE  SummariesInv'
<1> DEFINE active == ActiveMessages(chatLog)
           used == TokensOf(chatLog, active)
           selected == selectRange(chatLog, active, KeepLast)
           range == IF active = {} THEN {} ELSE selected
           snips == Exceeds(SnipPercent, used) /\ range # {}
<1>1. /\ request[q].step = "idle"
      /\ \/ snips /\ BeginRequest(q, "snip", "persist", range)
         \/ ~snips /\ Exceeds(FullPercent, used) /\ BeginRequest(q, "full", "summary", range)
         \/ ~snips /\ ~Exceeds(FullPercent, used) /\ BeginRequest(q, "none", "none", {})
  BY DEF MaybeCompact
<1>2. /\ used \in Nat /\ selected \in SUBSET (1..Len(chatLog)) /\ selected \in SUBSET Nat
      /\ \A i \in Boundaries : \A k \in selected : i < k
  BY ActiveAre
<1> HIDE DEF selected, used
<1>3. /\ range \in SUBSET (1..Len(chatLog)) /\ range \in SUBSET Nat
      /\ \A i \in Boundaries : \A k \in range : i < k
  BY <1>2
<1>4. ~snips /\ Exceeds(FullPercent, used) /\ SnipPercent <= FullPercent => range = {}
  BY <1>2, ThresholdsNest
<1> HIDE DEF active, range, snips
<1>5. CASE snips /\ BeginRequest(q, "snip", "persist", range)
  <2> DEFINE r == [step |-> "persist", kind |-> "snip", made |-> range]
  <2>1. r \in RequestsAt /\ Due(r) BY <1>3 DEF RequestsAt, Due
  <2>2. QED BY <1>1, <1>3, <1>5, <2>1, RequestBegins
<1>6. CASE ~snips /\ Exceeds(FullPercent, used) /\ BeginRequest(q, "full", "summary", range)
  <2> DEFINE r == [step |-> "summary", kind |-> "full", made |-> range]
  <2>1. r \in RequestsAt /\ Due(r) BY <1>3, <1>4, <1>6 DEF RequestsAt, Due
  <2>2. QED BY <1>1, <1>3, <1>6, <2>1, RequestBegins
<1>7. CASE BeginRequest(q, "none", "none", {})
  <2> DEFINE nothing == {}
             r == [step |-> "none", kind |-> "none", made |-> nothing]
  <2>1. r \in RequestsAt /\ Due(r) BY DEF RequestsAt, Due
  <2>2. nothing \in SUBSET (1..Len(chatLog)) /\ \A i \in Boundaries : \A k \in nothing : i < k
    OBVIOUS
  <2>3. BeginRequest(q, "none", "none", nothing) BY <1>7
  <2> HIDE DEF nothing
  <2>4. QED BY <1>1, <2>1, <2>2, <2>3, RequestBegins
<1>8. QED BY <1>1, <1>5, <1>6, <1>7

\* A request of a user.
LEMMA ForcesCompaction ==
  ASSUME SummariesInv, NEW q \in Requesters, ForceCompaction(q)
  PROVE  SummariesInv'
<1> DEFINE selected == selectRange(chatLog, ActiveMessages(chatLog), Min({2, KeepLast}))
<1>1. /\ request[q].step = "idle"
      /\ BeginRequest(q, "none", "none", {}) \/ BeginRequest(q, "forced", "summary", selected)
  BY DEF ForceCompaction
<1>2. /\ selected \in SUBSET (1..Len(chatLog)) /\ selected \in SUBSET Nat
      /\ \A i \in Boundaries : \A k \in selected : i < k
  BY ActiveAre
<1> HIDE DEF selected
<1>3. CASE BeginRequest(q, "forced", "summary", selected)
  <2> DEFINE r == [step |-> "summary", kind |-> "forced", made |-> selected]
  <2>1. r \in RequestsAt /\ Due(r) BY <1>2 DEF RequestsAt, Due
  <2>2. QED BY <1>1, <1>2, <1>3, <2>1, RequestBegins
<1>4. CASE BeginRequest(q, "none", "none", {})
  <2> DEFINE nothing == {}
             r == [step |-> "none", kind |-> "none", made |-> nothing]
  <2>1. r \in RequestsAt /\ Due(r) BY DEF RequestsAt, Due
  <2>2. nothing \in SUBSET (1..Len(chatLog)) /\ \A i \in Boundaries : \A k \in nothing : i < k
    OBVIOUS
  <2>3. BeginRequest(q, "none", "none", nothing) BY <1>4
  <2> HIDE DEF nothing
  <2>4. QED BY <1>1, <2>1, <2>2, <2>3, RequestBegins
<1>5. QED BY <1>1, <1>3, <1>4

\* The summary is there, or it failed: the request works on, or no longer does.
LEMMA SummaryCame ==
  ASSUME SummariesInv, NEW q \in Requesters, Summarised(q)
  PROVE  SummariesInv'
<1>1. request[q].step = "summary" /\ UNCHANGED <<chatLog, crossed>> BY DEF Summarised
<1>2. PICK step \in {"persist", "none"} :
        /\ request[q].kind = "full" /\ request[q].made = {} => step = "none"
        /\ request' = [request EXCEPT ![q] = [request[q] EXCEPT !.step = step]]
  BY DEF Summarised, RequestIs
<1> DEFINE r == [request[q] EXCEPT !.step = step]
<1>3. SummariesTyped /\ request \in [Requesters -> RequestsAt] /\ request[q] \in RequestsAt
  BY DEF SummariesInv, SummariesTyped
<1>4. r \in RequestsAt /\ r.step = step /\ r.kind = request[q].kind /\ r.made = request[q].made
  BY <1>3 DEF RequestsAt
<1>5. Due(r)
  <2>1. Due(request[q]) BY DEF SummariesInv
  <2> HIDE DEF r
  <2>2. QED BY <1>1, <1>2, <1>4, <2>1 DEF Due
<1> HIDE DEF r
<1>6. request' \in [Requesters -> RequestsAt] /\ request'[q] = r
      /\ \A p \in Requesters : p # q => request'[p] = request[p]
  BY <1>2, <1>3, <1>4 DEF r
<1>7. Boundaries' = Boundaries BY <1>1 DEF Boundaries
<1>8. \A p \in Requesters : InWork(p)' => InWork(p) BY <1>1, <1>6 DEF InWork
<1>9. \A p \in Requesters : request'[p].made = request[p].made BY <1>4, <1>6
<1>10. SummariesTyped' BY <1>1, <1>3, <1>6, <1>9 DEF SummariesTyped
<1>11. \A p \in Requesters : Due(request[p])'
  <2>1. \A p \in Requesters : Due(request'[p]) BY <1>5, <1>6 DEF SummariesInv
  <2>2. QED BY <2>1 DEF Due
<1>12. \A i \in Boundaries' : SummaryOf(i)'
  <2>1. \A i \in Boundaries : SummaryOf(i) /\ chatLog[i].by # q BY <1>1 DEF SummariesInv, SummaryOf
  <2>2. QED BY <1>1, <1>6, <1>7, <2>1 DEF SummaryOf
<1>13. InTurn' BY <1>1, <1>7, <1>8, <1>9 DEF SummariesInv, InTurn
<1>14. QED BY <1>10, <1>11, <1>12, <1>13 DEF SummariesInv

\* A summary is written: of those still at work it crossed every one.
LEMMA SummaryPersists ==
  ASSUME SummariesInv, NEW q \in Requesters, PersistResult(q)
  PROVE  SummariesInv'
<1> DEFINE r == request[q]
           r2 == [r EXCEPT !.step = "persisted"]
           row == [tokens |-> 1, anchor |-> TRUE, boundary |-> TRUE, by |-> q, covers |-> r.made,
                   written |-> r.kind # "snip"]
           n == Len(chatLog)
<1>1. /\ r.step = "persist" /\ chatLog' = Append(chatLog, row)
      /\ request' = [request EXCEPT ![q] = r2] /\ UNCHANGED crossed
  BY DEF PersistResult, RequestIs
<1>2. SummariesTyped /\ request \in [Requesters -> RequestsAt] /\ r \in RequestsAt /\ Due(r)
      /\ r.made \in SUBSET (1..n)
  BY DEF SummariesInv, SummariesTyped
<1>3. row \in LogRows /\ row.boundary /\ row.by = q /\ row.covers = r.made
      /\ row.written = (r.kind # "snip")
  BY <1>2 DEF LogRows, RequestsAt
<1>4. r2 \in RequestsAt /\ r2.step = "persisted" /\ r2.kind = r.kind /\ r2.made = r.made
  BY <1>2 DEF RequestsAt
<1> HIDE DEF row, r2
<1>5. /\ chatLog' \in Seq(LogRows) /\ Len(chatLog') = n + 1 /\ n \in Nat
      /\ chatLog'[n + 1] = row
      /\ \A i \in 1..n : chatLog'[i] = chatLog[i]
      /\ Boundaries \in SUBSET (1..n) /\ Boundaries' = Boundaries \cup {n + 1}
  BY <1>1, <1>2, <1>3, RowAppended
<1>6. request' \in [Requesters -> RequestsAt] /\ request'[q] = r2
      /\ \A p \in Requesters : p # q => request'[p] = request[p]
  BY <1>1, <1>2, <1>4
<1> HIDE DEF n
<1>7. \A i \in Boundaries : chatLog'[i] = chatLog[i] /\ i \in Nat /\ i < n + 1 BY <1>5
<1>8. \A i \in Boundaries : chatLog[i].by \in Requesters /\ chatLog[i].by # q /\ SummaryOf(i)
  BY <1>1 DEF SummariesInv, SummaryOf
<1>9. SummariesTyped'
  <2>1. ASSUME NEW p \in Requesters PROVE request'[p].made \in SUBSET (1..n + 1)
    <3>1. request[p].made \in SUBSET (1..n) BY <1>2 DEF SummariesTyped, n
    <3>2. request'[p].made = request[p].made BY <1>4, <1>6
    <3>3. QED BY <1>5, <3>1, <3>2
  <2>2. QED BY <1>5, <1>6, <2>1 DEF SummariesTyped
<1>10. \A p \in Requesters : Due(request[p])'
  <2>1. Due(r2) BY <1>1, <1>2, <1>4 DEF Due
  <2>2. \A p \in Requesters : Due(request'[p]) BY <1>6, <2>1 DEF SummariesInv
  <2>3. QED BY <2>2 DEF Due
<1>11. \A i \in Boundaries' : SummaryOf(i)'
  <2> DEFINE Holds(i) == /\ chatLog'[i].by \in Requesters
                         /\ request'[chatLog'[i].by].step = "persisted"
                         /\ request'[chatLog'[i].by].made = chatLog'[i].covers
                         /\ \A k \in chatLog'[i].covers : k < i
                         /\ chatLog'[i].written => request'[chatLog'[i].by].kind # "snip"
  <2>1. \A i \in Boundaries : Holds(i) BY <1>6, <1>7, <1>8 DEF SummaryOf
  <2>2. Holds(n + 1)
    <3>1. \A k \in r.made : k < n + 1 BY <1>2, <1>5 DEF n
    <3>2. chatLog'[n + 1].by = q /\ chatLog'[n + 1].covers = r.made
          /\ chatLog'[n + 1].written = (r.kind # "snip")
      BY <1>3, <1>5
    <3>3. request'[q].step = "persisted" /\ request'[q].made = r.made /\ request'[q].kind = r.kind
      BY <1>4, <1>6
    <3> HIDE DEF r
    <3>4. QED BY <3>1, <3>2, <3>3
  <2> HIDE DEF Holds
  <2>3. \A i \in Boundaries' : Holds(i) BY <1>5, <2>1, <2>2
  <2>4. QED BY <2>3 DEF Holds, SummaryOf
<1>12. InTurn'
  <2>1. \A p \in Requesters : InWork(p)' => InWork(p) /\ p # q /\ request'[p] = request[p]
    BY <1>1, <1>4, <1>6 DEF InWork
  <2>2. InWork(q) BY <1>1 DEF InWork
  <2>3. \A p \in Requesters : InWork(p)' => {p, q} \in crossed BY <2>1, <2>2 DEF SummariesInv, InTurn
  <2>4. \A i \in Boundaries : {chatLog[i].by, q} \notin crossed => \A k \in r.made : i < k
    <3>1. \A i \in Boundaries : {q, chatLog[i].by} = {chatLog[i].by, q} OBVIOUS
    <3>2. QED BY <2>2, <3>1 DEF SummariesInv, InTurn
  <2>5. \A a, b \in Requesters : a # b /\ InWork(a)' /\ InWork(b)' => {a, b} \in crossed
    BY <2>1 DEF SummariesInv, InTurn
  <2>6. \A i, j \in Boundaries' : chatLog'[i].by = chatLog'[j].by => i = j
    BY <1>3, <1>5, <1>7, <1>8 DEF SummariesInv, InTurn
  <2>7. \A i \in Boundaries', p \in Requesters :
          InWork(p)' /\ {p, chatLog'[i].by} \notin crossed => \A k \in request'[p].made : i < k
    BY <1>3, <1>5, <1>7, <2>1, <2>3 DEF SummariesInv, InTurn
  <2>8. \A i, j \in Boundaries' :
          i < j /\ {chatLog'[i].by, chatLog'[j].by} \notin crossed => \A k \in chatLog'[j].covers : i < k
    <3>1. ASSUME NEW i \in Boundaries', NEW j \in Boundaries', i < j,
                 {chatLog'[i].by, chatLog'[j].by} \notin crossed
          PROVE  \A k \in chatLog'[j].covers : i < k
      <4>1. i \in Boundaries BY <1>5, <1>7, <3>1
      <4>2. CASE j \in Boundaries BY <1>7, <3>1, <4>1, <4>2 DEF SummariesInv, InTurn
      <4>3. CASE j = n + 1 BY <1>3, <1>5, <1>7, <2>4, <3>1, <4>1, <4>3
      <4>4. QED BY <1>5, <4>2, <4>3
    <3>2. QED BY <3>1
  <2>9. QED BY <1>1, <2>5, <2>6, <2>7, <2>8 DEF InTurn
<1>13. QED BY <1>9, <1>10, <1>11, <1>12 DEF SummariesInv

\* Every step of the compactions keeps the invariant.
LEMMA SummariesStep == SummariesInv /\ CompactionsNext => SummariesInv'
BY ChatGoesOn, MaybeCompacts, ForcesCompaction, SummaryCame, SummaryPersists DEF CompactionsNext

\* Nothing was summarised yet.
LEMMA SummariesAtRest == CompactionsRest => SummariesInv
<1> SUFFICES ASSUME CompactionsRest PROVE SummariesInv OBVIOUS
<1>1. chatLog = <<>> /\ request = [q \in Requesters |-> NoRequest] BY DEF CompactionsRest
<1>2. NoRequest \in RequestsAt /\ NoRequest.step = "idle" /\ NoRequest.kind = "none" /\ NoRequest.made = {}
  BY DEF NoRequest, RequestsAt
<1> HIDE DEF NoRequest
<1>3. \A q \in Requesters : request[q] = NoRequest BY <1>1
<1>4. chatLog \in Seq(LogRows) /\ Boundaries = {} BY <1>1 DEF Boundaries
<1>5. request \in [Requesters -> RequestsAt] BY <1>1, <1>2
<1>6. SummariesTyped BY <1>2, <1>3, <1>4, <1>5 DEF SummariesTyped
<1>7. \A q \in Requesters : Due(request[q]) /\ ~InWork(q) BY <1>2, <1>3 DEF Due, InWork
<1>8. QED BY <1>4, <1>6, <1>7 DEF SummariesInv, InTurn

\* The requests stay as they are.
LEMMA SummariesStay == SummariesInv /\ UNCHANGED compactionVars => SummariesInv'
BY DEF compactionVars, SummariesInv, SummariesTyped, Boundaries, Due, SummaryOf, InTurn, InWork

\* Some numbers in their order.
ByIndex(D) == AntiFunction([i \in D |-> Cardinality({j \in D : j < i}) + 1])

\* Each is at its place, and all of them are at their own.
LEMMA ByIndexIs ==
  ASSUME NEW n \in Nat, NEW D \in SUBSET (1..n)
  PROVE  /\ DOMAIN ByIndex(D) = 1..Cardinality(D) /\ Cardinality(D) \in Nat
         /\ \A k \in 1..Cardinality(D) : ByIndex(D)[k] \in D
         /\ D = 1..n => Cardinality(D) = n /\ \A k \in 1..n : ByIndex(D)[k] = k
<1> DEFINE s == [i \in 1..n |-> i]
           m == Cardinality(D)
           ranks == [i \in D |-> Cardinality({j \in D : j < i}) + 1]
<1>1. s \in Seq(Nat) /\ DOMAIN s = 1..n OBVIOUS
<1> HIDE DEF s
<1>2. /\ m \in Nat
      /\ \A i \in D : Rank(D, i) \in 1..m
      /\ \A k \in 1..m : \E i \in D : Rank(D, i) = k
  <2>1. D \in SUBSET DOMAIN s BY <1>1
  <2>2. /\ Keep(s, D) \in Seq(Nat) /\ Len(Keep(s, D)) = Cardinality(D)
        /\ IsFiniteSet(D) /\ Cardinality(D) \in Nat
        /\ \A i \in D : Rank(D, i) \in 1..Cardinality(D) /\ Keep(s, D)[Rank(D, i)] = s[i]
        /\ \A k \in 1..Cardinality(D) : \E i \in D : Rank(D, i) = k
        /\ \A i, j \in D : i < j <=> Rank(D, i) < Rank(D, j)
    BY <1>1, <2>1, KeepIs
  <2>3. /\ Cardinality(D) \in Nat
        /\ \A i \in D : Rank(D, i) \in 1..Cardinality(D)
        /\ \A k \in 1..Cardinality(D) : \E i \in D : Rank(D, i) = k
    BY <2>2
  <2>4. QED BY <2>3
<1>3. DOMAIN ranks = D /\ \A i \in D : ranks[i] = Rank(D, i)
  <2>1. DOMAIN ranks = D /\ \A i \in D : ranks[i] = Cardinality({j \in D : j < i}) + 1 OBVIOUS
  <2> HIDE DEF ranks
  <2>2. QED BY <2>1 DEF Rank
<1>4. ByIndex(D) = AntiFunction(ranks) BY DEF ByIndex
<1> HIDE DEF ranks, m
<1>5. Range(ranks) = 1..m
  <2>1. ASSUME NEW k \in 1..m PROVE k \in {ranks[x] : x \in DOMAIN ranks}
    <3>1. PICK i \in D : Rank(D, i) = k BY <1>2
    <3>2. i \in DOMAIN ranks /\ ranks[i] = k BY <1>3, <3>1
    <3>3. QED BY <3>2
  <2>2. \A x \in DOMAIN ranks : ranks[x] \in 1..m BY <1>2, <1>3
  <2>3. {ranks[x] : x \in DOMAIN ranks} = 1..m BY <2>1, <2>2
  <2>4. QED BY <2>3 DEF Range
<1>6. DOMAIN ByIndex(D) = 1..m BY <1>4, <1>5 DEF AntiFunction, Inverse
<1>7. \A k \in 1..m : ByIndex(D)[k] \in D /\ Rank(D, ByIndex(D)[k]) = k
  <2>1. TAKE k \in 1..m
  <2>2. PICK i \in D : Rank(D, i) = k BY <1>2
  <2> DEFINE x == AntiFunction(ranks)[k]
  <2>3. k \in Range(ranks) /\ ranks[i] = k BY <1>3, <1>5, <2>2
  <2>4. x = CHOOSE y \in DOMAIN ranks : k \in Range(ranks) => ranks[y] = k
    BY <2>3 DEF AntiFunction, Inverse
  <2> HIDE DEF x
  <2>5. \E y \in DOMAIN ranks : k \in Range(ranks) => ranks[y] = k BY <1>3, <2>2
  <2>6. x \in DOMAIN ranks /\ (k \in Range(ranks) => ranks[x] = k) BY <2>4, <2>5
  <2>7. x \in D /\ Rank(D, x) = k BY <1>3, <2>3, <2>6
  <2>8. QED BY <1>4, <2>7 DEF x
<1>8. ASSUME D = 1..n PROVE m = n /\ \A k \in 1..n : ByIndex(D)[k] = k
  <2>1. m = n BY <1>8, FS_Interval DEF m
  <2>2. ASSUME NEW i \in 1..n PROVE Rank(D, i) = i
    <3> DEFINE T == {j \in D : j < i}
    <3>1. T = 1..i - 1
      <4>1. \A j \in 1..n : j < i <=> j \in 1..i - 1 BY <1>8
      <4>2. \A j \in 1..i - 1 : j \in 1..n OBVIOUS
      <4>3. QED BY <1>8, <4>1, <4>2
    <3>2. i - 1 \in Int /\ 1 \in Int /\ 1 <= i /\ i \in Int OBVIOUS
    <3>3. Cardinality(1..i - 1) = (i - 1) - 1 + 1 \/ (1 > i - 1 /\ Cardinality(1..i - 1) = 0)
      BY <3>2, FS_Interval
    <3>4. Cardinality(1..i - 1) = i - 1 BY <3>2, <3>3
    <3>5. Rank(D, i) = Cardinality(T) + 1 BY DEF Rank
    <3> HIDE DEF T
    <3>6. QED BY <3>1, <3>2, <3>4, <3>5
  <2>3. QED BY <1>7, <1>8, <2>1, <2>2
<1>9. QED BY <1>2, <1>6, <1>7, <1>8 DEF m

\* What the model answers, and what of it a consumer may be given.
ArgsOf(i) == ask.calls[i].args
GivenUse(i, input) == [id |-> OrNumbered(ask.calls[i].id, i), input |-> input]
Given == {GivenUse(i, ArgsOf(i)) : i \in Calls} \cup {GivenUse(i, <<>>) : i \in Calls}

\* What the fragments of a call say of it: n of them came.
Arriving(i) ==
  /\ arrived[i].announced \in BOOLEAN /\ arrived[i].fragments \in 0..Len(ArgsOf(i))
  /\ arrived[i].fragments > 0 => arrived[i].announced
Building(i) ==
  /\ arrived[i].announced
  /\ pending[i] = [id |-> ask.calls[i].id, json |-> SubSeq(ArgsOf(i), 1, arrived[i].fragments)]

Sending ==
  /\ llmStep \in {"guard", "compact"} => prompt = [messages |-> "whole", inputTokens |-> size.whole]
  /\ llmStep \in {"guard", "compact"} => ask.guard
  /\ llmStep = "check" /\ (~ask.guard \/ ask.recounts) => prompt.inputTokens = size[prompt.messages]

\* An answer that is being read.
TextSoFar ==
  /\ DOMAIN pending = {}
  /\ yielded = SubSeq(ArgsOf(1), 1, arrived[1].fragments)
  /\ ask.kind = "structured" /\ llmStep = "ended" => IsJson(yielded)
OpenAISoFar ==
  llmStep # "ended" => /\ yielded = <<>>
                       /\ llmStep # "thrown" => DOMAIN pending = {i \in Calls : arrived[i].announced}
AnthropicSoFar ==
  LET m == Len(yielded)
      open == IF DOMAIN pending = {} THEN 0 ELSE 1
  IN /\ DOMAIN pending # {} => DOMAIN pending = {m + 1} /\ (cut => llmStep = "thrown")
     /\ m + open <= Len(ask.calls)
     /\ \A i \in Calls : arrived[i].announced <=> i <= m + open
     /\ \A k \in 1..m : \/ yielded[k] = GivenUse(k, ArgsOf(k))
                        \/ cut /\ ~Complete(k) /\ yielded[k] = GivenUse(k, <<>>)
     /\ llmStep = "ended" /\ ~cut => DOMAIN pending = {} /\ \A i \in Calls : Complete(i)

\* What is promised of the calls a consumer is given.
WholeUses == [i \in Calls |-> GivenUse(i, ArgsOf(i))]
Assembled ==
  /\ \A k \in DOMAIN yielded :
       \/ yielded[k] = WholeUses[k]
       \/ cut /\ \E i \in Calls : \/ yielded[k] = WholeUses[i]
                                  \/ ~Complete(i) /\ yielded[k] = GivenUse(i, <<>>)
  /\ llmStep = "ended" /\ ~cut => yielded = WholeUses
  /\ ask.api = "openai" /\ llmStep # "ended" => yielded = <<>>

\* What is sent, and what came of its answer.
BudgetInv ==
  /\ llmStep \in {"count", "guard", "compact", "check", "open", "stream", "ended", "thrown"}
  /\ prompt.messages \in {"whole", "compacted"} /\ prompt.inputTokens \in Sizes \cup Estimates \cup {0}
  /\ attempt \in 0..MaxLLMRetries
  /\ size.whole \in Sizes \cup {0} /\ size.compacted \in Sizes \cup {0}
  /\ SentWithinBudget /\ Sending

AnswerInv ==
  /\ Answerable(ask)
  /\ cut \in BOOLEAN
  /\ DOMAIN pending \in SUBSET Calls
  /\ DOMAIN arrived = Calls
  /\ \A i \in Calls : Arriving(i)
  /\ llmStep \notin {"ended", "thrown"} => \A i \in DOMAIN pending : Building(i)
  /\ ask.kind = "tools" => yielded \in Seq(Given)
  /\ ask.kind = "tools" /\ ask.api = "openai" => OpenAISoFar
  /\ ask.kind = "tools" /\ ask.api = "anthropic" => AnthropicSoFar
  /\ ask.kind # "tools" => TextSoFar
  /\ ask.kind = "tools" => Assembled

CompletionsInv == BudgetInv /\ AnswerInv

\* The calls a model answers with.
LEMMA CallsAre ==
  ASSUME Answerable(ask)
  PROVE  /\ Calls = 1..Len(ask.calls) /\ Len(ask.calls) \in Nat
         /\ \A i \in Calls : /\ ArgsOf(i) \in Seq(STRING)
                             /\ \A k \in 1..Len(ArgsOf(i)) : ArgsOf(i)[k] = Closing <=> k = Len(ArgsOf(i))
                             /\ ask.kind = "tools" /\ ask.api = "anthropic" => ask.calls[i].id # ""
         /\ ask.kind # "tools" => Calls = {1}
<1> DEFINE R == [id : STRING, args : Seq(STRING)]
<1>1. ask.calls \in Seq(R) BY DEF Answerable
<1>2. Calls = 1..Len(ask.calls) /\ Len(ask.calls) \in Nat /\ \A i \in Calls : ask.calls[i] \in R
  <2> HIDE DEF R
  <2>1. QED BY <1>1 DEF Calls
<1>3. \A i \in Calls : ArgsOf(i) \in Seq(STRING) BY <1>2 DEF ArgsOf
<1>4. \A i \in Calls : DOMAIN ArgsOf(i) = 1..Len(ArgsOf(i)) BY <1>3
<1>5. ASSUME NEW i \in Calls
      PROVE  /\ \A k \in 1..Len(ArgsOf(i)) : ArgsOf(i)[k] = Closing <=> k = Len(ArgsOf(i))
             /\ ask.kind = "tools" /\ ask.api = "anthropic" => ask.calls[i].id # ""
  <2>1. \A k \in DOMAIN ArgsOf(i) : ArgsOf(i)[k] = Closing <=> k = Len(ArgsOf(i))
    BY DEF Answerable, ArgsOf, Calls
  <2>2. QED BY <1>4, <2>1 DEF Answerable, Calls
<1>6. ask.kind # "tools" => Calls = {1}
  <2>1. ask.kind # "tools" => Len(ask.calls) = 1 BY DEF Answerable
  <2>2. 1..1 = {1} OBVIOUS
  <2>3. QED BY <1>2, <2>1, <2>2
<1>7. QED BY <1>2, <1>3, <1>5, <1>6

\* Only arguments that came whole are JSON.
LEMMA WholeOnly ==
  ASSUME Answerable(ask), NEW i \in Calls, NEW n \in 0..Len(ArgsOf(i))
  PROVE  LET json == SubSeq(ArgsOf(i), 1, n)
         IN  /\ json \in Seq(STRING) /\ Len(json) = n
             /\ json = <<>> <=> n = 0
             /\ n = Len(ArgsOf(i)) => json = ArgsOf(i)
             /\ IsJson(json) => n = Len(ArgsOf(i))
             /\ ~IsJson(json) /\ n = Len(ArgsOf(i)) => json = <<>>
<1> DEFINE a == ArgsOf(i)
           json == SubSeq(a, 1, n)
<1>1. a \in Seq(STRING) /\ \A k \in 1..Len(a) : a[k] = Closing <=> k = Len(a) BY CallsAre
<1> HIDE DEF a
<1>2. n \in 0..Len(a) /\ Len(a) \in Nat /\ 0 \in 0..Len(a) /\ n - 0 = n BY <1>1 DEF a
<1>3. json \in Seq(STRING) /\ Len(json) = n /\ \A k \in 1..n : json[k] = a[k] BY <1>1, <1>2
<1>4. n = Len(a) => json = a BY <1>1, AllOf
<1>5. json = <<>> <=> n = 0
  <2> HIDE DEF json
  <2>1. QED BY <1>3
<1> HIDE DEF json
<1>6. json # <<>> => (Last(json) = Closing <=> n = Len(a))
  <2>1. SUFFICES ASSUME json # <<>> PROVE Last(json) = Closing <=> n = Len(a) OBVIOUS
  <2>2. n \in 1..Len(a) /\ n \in 1..n BY <1>2, <1>5, <2>1
  <2>3. Last(json) = a[n] BY <1>3, <2>2 DEF Last
  <2>4. QED BY <1>1, <2>2, <2>3
<1>7. (IsJson(json) => n = Len(a)) /\ (~IsJson(json) /\ n = Len(a) => json = <<>>)
  BY <1>6 DEF IsJson
<1>8. QED BY <1>3, <1>4, <1>5, <1>7 DEF a, json

\* Fragments that arrive go on where the last ones ended.
LEMMA ChunkIs ==
  ASSUME Answerable(ask), NEW i \in Calls, Arriving(i), NEW chunk \in Chunks(i)
  PROVE  LET n == arrived[i].fragments + Len(chunk)
         IN  /\ chunk \in Seq(STRING) /\ Len(chunk) \in Nat /\ n \in 0..Len(ArgsOf(i))
             /\ SubSeq(ArgsOf(i), 1, arrived[i].fragments) \o chunk = SubSeq(ArgsOf(i), 1, n)
             /\ n = 0 => chunk = <<>>
<1> DEFINE a == ArgsOf(i)
           f == arrived[i].fragments
<1>1. a \in Seq(STRING) /\ Len(a) \in Nat /\ f \in 0..Len(a)
  <2>1. a \in Seq(STRING) BY CallsAre
  <2>2. f \in 0..Len(a) BY DEF Arriving
  <2>3. QED BY <2>1, <2>2
<1>2. PICK to \in (f + 1) - 1..Len(a) : chunk = SubSeq(a, f + 1, to) BY DEF Chunks, ArgsOf
<1> HIDE DEF a, f
<1>3. to \in f..Len(a) /\ to - f \in 0..Len(a) - f /\ f + (to - f) = to BY <1>1, <1>2
<1>4. chunk \in Seq(STRING) /\ Len(chunk) = to - f
  <2>1. /\ SubSeq(a, f + 1, to) \in Seq(STRING) /\ Len(SubSeq(a, f + 1, to)) = to - f
        /\ \A k \in 1..to - f : SubSeq(a, f + 1, to)[k] = a[f + k]
    BY <1>1, <1>3, PartOf
  <2>2. QED BY <1>2, <2>1
<1>5. Len(a) \in f..Len(a) BY <1>1
<1>6. SubSeq(a, 1, f) \o SubSeq(a, f + 1, f + (to - f)) = SubSeq(a, 1, f + (to - f))
  BY <1>1, <1>3, <1>5, PartTaken
<1>7. SubSeq(a, 1, f) \o chunk = SubSeq(a, 1, to) BY <1>2, <1>3, <1>6
<1>8. f + Len(chunk) = to /\ to \in 0..Len(a) /\ Len(chunk) \in Nat BY <1>1, <1>3, <1>4
<1>9. to = 0 => chunk = <<>> BY <1>1, <1>3, <1>4
<1>10. QED BY <1>4, <1>7, <1>8, <1>9 DEF a, f

\* They are counted.
LEMMA ChunkArrives ==
  ASSUME AnswerInv, NEW i \in Calls, NEW chunk \in Chunks(i), Arrives(i, chunk), UNCHANGED ask
  PROVE  /\ DOMAIN arrived' = Calls
         /\ arrived'[i].announced = TRUE
         /\ arrived'[i].fragments = arrived[i].fragments + Len(chunk)
         /\ \A j \in Calls : j # i => arrived'[j] = arrived[j]
         /\ \A j \in Calls : Arriving(j)'
<1>1. DOMAIN arrived = Calls /\ Answerable(ask) /\ \A j \in Calls : Arriving(j) BY DEF AnswerInv
<1>2. /\ DOMAIN arrived' = Calls
      /\ arrived'[i] = [announced |-> TRUE, fragments |-> arrived[i].fragments + Len(chunk)]
      /\ \A j \in Calls : j # i => arrived'[j] = arrived[j]
  BY <1>1 DEF Arrives
<1>3. arrived[i].fragments + Len(chunk) \in 0..Len(ArgsOf(i)) BY <1>1, ChunkIs
<1>4. \A j \in Calls : ArgsOf(j)' = ArgsOf(j) BY DEF ArgsOf
<1>5. \A j \in Calls : Arriving(j)'
  <2>1. ASSUME NEW j \in Calls, j # i PROVE Arriving(j)' BY <1>1, <1>2, <1>4, <2>1 DEF Arriving
  <2>2. Arriving(i)' BY <1>2, <1>3, <1>4 DEF Arriving
  <2>3. QED BY <2>1, <2>2
<1>6. QED BY <1>2, <1>5

\* What is sent stays as it is while the answer is read.
LEMMA BudgetStays ==
  ASSUME BudgetInv, UNCHANGED <<ask, size, prompt, usage, attempt>>,
         llmStep' = llmStep \/ (llmStep = "stream" /\ llmStep' \in {"ended", "thrown"})
  PROVE  BudgetInv'
BY DEF BudgetInv, SentWithinBudget, Sending, Route, routeForPhase, routeForEffort

\* What the router makes of an ask until it is sent.
LEMMA BudgetStep ==
  ASSUME BudgetInv,
         CountTokens \/ Guard \/ ForceCompact \/ CheckBudget \/ Rejects \/ Open
  PROVE  BudgetInv'
<1>1. /\ UNCHANGED <<ask, size>>
      /\ size.whole \in Sizes \cup {0} /\ size.compacted \in Sizes \cup {0}
  BY DEF BudgetInv, CountTokens, Guard, ForceCompact, CheckBudget, Rejects, Open, Fixed
<1>2. Route' = Route BY <1>1 DEF Route, routeForPhase, routeForEffort
<1>3. CASE CountTokens
  BY <1>1, <1>2, <1>3 DEF BudgetInv, SentWithinBudget, Sending, CountTokens
<1>4. CASE Guard
  <2>1. /\ llmStep = "guard" /\ llmStep' \in {"compact", "check", "thrown"}
        /\ UNCHANGED <<prompt, usage, attempt>>
    BY <1>4 DEF Guard, Throw
  <2>2. prompt = [messages |-> "whole", inputTokens |-> size.whole] BY <2>1 DEF BudgetInv, Sending
  <2>3. prompt.messages = "whole" /\ prompt.inputTokens = size[prompt.messages] BY <2>2
  <2>4. ask.guard BY <2>1 DEF BudgetInv, Sending
  <2>5. QED BY <1>1, <1>2, <2>1, <2>2, <2>3, <2>4 DEF BudgetInv, SentWithinBudget, Sending
<1>5. CASE ForceCompact
  <2>1. PICK messages \in {"whole", "compacted"}, estimated \in Estimates :
          prompt' = [messages |-> messages,
                     inputTokens |-> IF ask.recounts THEN size[messages] ELSE estimated]
    BY <1>5 DEF ForceCompact
  <2>2. size[messages] \in Sizes \cup {0} BY <1>1, <2>1
  <2>3. /\ prompt'.messages = messages
        /\ prompt'.inputTokens = IF ask.recounts THEN size[messages] ELSE estimated
    BY <2>1
  <2>4. llmStep = "compact" /\ llmStep' = "check" /\ UNCHANGED <<usage, attempt>> BY <1>5 DEF ForceCompact
  <2>5. ask.guard BY <2>4 DEF BudgetInv, Sending
  <2>6. QED BY <1>1, <1>2, <2>1, <2>2, <2>3, <2>4, <2>5 DEF BudgetInv, SentWithinBudget, Sending
<1>6. CASE CheckBudget
  <2>1. llmStep = "check" /\ UNCHANGED <<prompt, attempt>> BY <1>6 DEF CheckBudget
  <2>2. CASE llmStep' = "thrown" BY <1>1, <2>1, <2>2 DEF BudgetInv, SentWithinBudget, Sending
  <2>3. CASE /\ ~(prompt.inputTokens > MaxInputTokens) /\ llmStep' = "open"
             /\ usage' = [model |-> Route, inputTokens |-> prompt.inputTokens]
    <3>1. prompt.inputTokens \in Int /\ MaxInputTokens \in Int
      BY CompletionBounds DEF BudgetInv
    <3>2. prompt.inputTokens <= MaxInputTokens BY <2>3, <3>1
    <3>3. QED BY <1>1, <1>2, <2>1, <2>3, <3>2 DEF BudgetInv, SentWithinBudget, Sending
  <2>4. QED BY <1>6, <2>2, <2>3 DEF CheckBudget, Throw
<1>7. CASE Rejects BY <1>1, <1>7 DEF BudgetInv, SentWithinBudget, Sending, Rejects, Throw
<1>8. CASE Open
  <2>1. llmStep = "open" /\ UNCHANGED <<prompt, usage>> BY <1>8 DEF Open
  <2>2. llmStep' \in {"stream", "open", "thrown"} /\ attempt' \in 0..MaxLLMRetries
    <3>1. MaxLLMRetries \in Nat BY CompletionBounds
    <3>2. attempt \in 0..MaxLLMRetries BY DEF BudgetInv
    <3>3. QED BY <1>8, <3>1, <3>2 DEF Open, Throw
  <2>3. QED BY <1>1, <1>2, <2>1, <2>2 DEF BudgetInv, SentWithinBudget, Sending
<1>9. QED BY <1>3, <1>4, <1>5, <1>6, <1>7, <1>8

\* An answer that is not read further, because none is there yet or the connection is lost.
LEMMA AnswerStays ==
  ASSUME AnswerInv, UNCHANGED <<ask, arrived, pending, yielded>>,
         llmStep \notin {"ended", "thrown"}, llmStep' # "ended",
         cut' = cut \/ (cut' = TRUE /\ llmStep' = "thrown")
  PROVE  AnswerInv'
<1>1. /\ Calls' = Calls /\ Given' = Given /\ WholeUses' = WholeUses
      /\ \A i : Complete(i)' = Complete(i) /\ Arriving(i)' = Arriving(i)
      /\ \A i, x : GivenUse(i, x)' = GivenUse(i, x) /\ ArgsOf(i)' = ArgsOf(i) /\ Building(i)' = Building(i)
  BY DEF Calls, Given, GivenUse, WholeUses, Complete, Arriving, ArgsOf, Building
<1>2. cut' \in BOOLEAN /\ (cut => cut') BY DEF AnswerInv
<1>3. ask.kind = "tools" /\ ask.api = "openai" => OpenAISoFar' BY <1>1 DEF AnswerInv, OpenAISoFar
<1>4. ask.kind = "tools" /\ ask.api = "anthropic" => AnthropicSoFar'
  <2>1. SUFFICES ASSUME AnthropicSoFar PROVE AnthropicSoFar' BY DEF AnswerInv
  <2>2. CASE cut' = cut /\ llmStep' # "thrown" BY <1>1, <2>1, <2>2 DEF AnthropicSoFar
  <2>3. CASE llmStep' = "thrown" BY <1>1, <1>2, <2>1, <2>3 DEF AnthropicSoFar
  <2>4. QED BY <2>2, <2>3
<1>5. ask.kind # "tools" => TextSoFar' BY <1>1 DEF AnswerInv, TextSoFar
<1>6. ask.kind = "tools" => Assembled'
  <2>1. SUFFICES ASSUME Assembled, ask.kind = "tools" PROVE Assembled' BY DEF AnswerInv
  <2>2. ask.api = "openai" => yielded = <<>> BY <2>1 DEF AnswerInv, OpenAISoFar
  <2>3. CASE cut' = cut BY <1>1, <2>1, <2>2, <2>3 DEF Assembled
  <2>4. CASE cut' = TRUE BY <1>1, <2>1, <2>2, <2>4 DEF Assembled
  <2>5. QED BY <2>3, <2>4
<1>7. QED BY <1>1, <1>2, <1>3, <1>4, <1>5, <1>6 DEF AnswerInv

\* A piece of a text.
LEMMA TextGoesOn == AnswerInv /\ TextDelta => AnswerInv'
<1> SUFFICES ASSUME AnswerInv, TextDelta PROVE AnswerInv' OBVIOUS
<1>1. /\ llmStep = "stream" /\ ask.kind # "tools"
      /\ UNCHANGED <<ask, llmStep, pending, cut>>
  BY DEF TextDelta, Streaming, Fixed
<1>2. Answerable(ask) /\ Calls = {1} /\ TextSoFar BY <1>1, CallsAre DEF AnswerInv
<1>3. PICK chunk \in Chunks(1) : Arrives(1, chunk) /\ yielded' = yielded \o chunk
  BY <1>2 DEF TextDelta
<1>4. 1 \in Calls /\ Arriving(1) BY <1>2 DEF AnswerInv
<1>5. /\ DOMAIN arrived' = Calls
      /\ arrived'[1].fragments = arrived[1].fragments + Len(chunk)
      /\ \A j \in Calls : Arriving(j)'
  BY <1>1, <1>3, <1>4, ChunkArrives
<1>6. yielded' = SubSeq(ArgsOf(1), 1, arrived'[1].fragments)
  <2>1. yielded = SubSeq(ArgsOf(1), 1, arrived[1].fragments) BY <1>2 DEF TextSoFar
  <2>2. SubSeq(ArgsOf(1), 1, arrived[1].fragments) \o chunk
          = SubSeq(ArgsOf(1), 1, arrived[1].fragments + Len(chunk))
    BY <1>2, <1>3, <1>4, ChunkIs
  <2>3. QED BY <1>3, <1>5, <2>1, <2>2
<1>7. /\ Calls' = Calls /\ ArgsOf(1)' = ArgsOf(1) /\ Answerable(ask)'
  BY <1>1, <1>2 DEF Calls, ArgsOf
<1>8. TextSoFar' BY <1>1, <1>2, <1>6, <1>7 DEF TextSoFar
<1>9. DOMAIN pending' = {} BY <1>1, <1>2 DEF TextSoFar
<1>10. QED BY <1>1, <1>5, <1>7, <1>8, <1>9 DEF AnswerInv

\* A fragment goes to the call of its index.
LEMMA CallBuilds ==
  ASSUME AnswerInv, llmStep = "stream", NEW i \in Calls, NEW chunk \in Chunks(i),
         Arrives(i, chunk), BuildCall(i, chunk), UNCHANGED ask,
         i \notin DOMAIN pending => ~arrived[i].announced
  PROVE  /\ DOMAIN pending' = DOMAIN pending \cup {i}
         /\ \A j \in DOMAIN pending' : Building(j)'
<1>1. /\ arrived'[i].announced = TRUE
      /\ arrived'[i].fragments = arrived[i].fragments + Len(chunk)
      /\ \A j \in Calls : j # i => arrived'[j] = arrived[j]
  BY ChunkArrives
<1>2. Answerable(ask) /\ Arriving(i) /\ DOMAIN pending \in SUBSET Calls /\ \A j \in DOMAIN pending : Building(j)
  BY DEF AnswerInv
<1>3. /\ chunk \in Seq(STRING)
      /\ SubSeq(ArgsOf(i), 1, arrived[i].fragments) \o chunk
           = SubSeq(ArgsOf(i), 1, arrived[i].fragments + Len(chunk))
  BY <1>2, ChunkIs
<1>4. DOMAIN pending' = DOMAIN pending \cup {i}
      /\ \A j \in DOMAIN pending : j # i => pending'[j] = pending[j]
  BY DEF BuildCall
<1>5. \A j : ArgsOf(j)' = ArgsOf(j) BY DEF ArgsOf
<1>6. ASSUME NEW j \in DOMAIN pending, j # i PROVE Building(j)'
  <2>1. Building(j) /\ j \in Calls BY <1>2, <1>6
  <2>2. QED BY <1>1, <1>4, <1>5, <1>6, <2>1 DEF Building
<1>7. Building(i)'
  <2>1. CASE i \in DOMAIN pending
    <3>1. Building(i) BY <1>2, <2>1
    <3>2. pending'[i] = [pending[i] EXCEPT !.json = pending[i].json \o chunk] BY <2>1 DEF BuildCall
    <3>3. pending[i] = [id |-> ask.calls[i].id, json |-> SubSeq(ArgsOf(i), 1, arrived[i].fragments)]
      BY <3>1 DEF Building
    <3>4. pending'[i] = [id |-> ask.calls[i].id,
                         json |-> SubSeq(ArgsOf(i), 1, arrived[i].fragments) \o chunk]
      <4> DEFINE x == ask.calls[i].id
                 y == SubSeq(ArgsOf(i), 1, arrived[i].fragments)
                 old == pending[i]
                 new == pending'[i]
      <4>1. old = [id |-> x, json |-> y] /\ new = [old EXCEPT !.json = old.json \o chunk] BY <3>2, <3>3
      <4> HIDE DEF x, y, old, new
      <4>2. old.json = y BY <4>1
      <4>3. new = [id |-> x, json |-> y \o chunk] BY <4>1, <4>2
      <4>4. QED BY <4>3 DEF new, x, y
    <3>5. QED BY <1>1, <1>3, <1>5, <3>4 DEF Building
  <2>2. CASE i \notin DOMAIN pending
    <3>1. pending'[i] = [id |-> ask.calls[i].id, json |-> chunk] BY <2>2 DEF BuildCall
    <3>2. arrived[i].fragments = 0
      <4>1. ~arrived[i].announced BY <2>2
      <4>2. arrived[i].fragments \in Nat /\ ~(arrived[i].fragments > 0) BY <1>2, <4>1 DEF Arriving
      <4>3. QED BY <4>2
    <3>3. ArgsOf(i) \in Seq(STRING) BY <1>2, CallsAre
    <3>4. SubSeq(ArgsOf(i), 1, 0) = <<>> BY <3>3, AllOf
    <3>5. chunk = SubSeq(ArgsOf(i), 1, arrived'[i].fragments) BY <1>1, <1>3, <3>2, <3>4
    <3>6. QED BY <1>1, <1>5, <3>1, <3>5 DEF Building
  <2>3. QED BY <2>1, <2>2
<1>8. QED BY <1>4, <1>6, <1>7

\* What does not depend on how far the answer came.
LEMMA AsksStay ==
  ASSUME UNCHANGED ask
  PROVE  /\ Calls' = Calls /\ Given' = Given /\ WholeUses' = WholeUses
         /\ Answerable(ask)' = Answerable(ask)
         /\ \A i, x : GivenUse(i, x)' = GivenUse(i, x) /\ ArgsOf(i)' = ArgsOf(i)
BY DEF Calls, Given, GivenUse, WholeUses, ArgsOf, Answerable

\* A piece of a call of OpenAI's.
LEMMA OpenAIGoesOn == AnswerInv /\ OpenAIDelta => AnswerInv'
<1> SUFFICES ASSUME AnswerInv, OpenAIDelta PROVE AnswerInv' OBVIOUS
<1>1. /\ llmStep = "stream" /\ ask.kind = "tools" /\ ask.api = "openai"
      /\ UNCHANGED <<ask, llmStep, yielded, cut>>
  BY DEF OpenAIDelta, Streaming, Fixed
<1>2. PICK i \in Calls, chunk \in UNION {Chunks(c) : c \in Calls} :
        chunk \in Chunks(i) /\ Arrives(i, chunk) /\ BuildCall(i, chunk)
  BY DEF OpenAIDelta
<1>3. yielded = <<>> /\ DOMAIN pending = {j \in Calls : arrived[j].announced}
  BY <1>1 DEF AnswerInv, OpenAISoFar
<1>4. i \notin DOMAIN pending => ~arrived[i].announced BY <1>2, <1>3
<1>5. /\ DOMAIN arrived' = Calls /\ arrived'[i].announced = TRUE
      /\ \A j \in Calls : j # i => arrived'[j] = arrived[j]
      /\ \A j \in Calls : Arriving(j)'
  BY <1>1, <1>2, ChunkArrives
<1>6. DOMAIN pending' = DOMAIN pending \cup {i} /\ \A j \in DOMAIN pending' : Building(j)'
  BY <1>1, <1>2, <1>4, CallBuilds
<1>7. DOMAIN pending' = {j \in Calls : arrived'[j].announced} BY <1>2, <1>3, <1>5, <1>6
<1>8. /\ Calls' = Calls /\ Given' = Given /\ Answerable(ask)' = Answerable(ask)
  BY <1>1, AsksStay
<1>9. OpenAISoFar' BY <1>1, <1>3, <1>7, <1>8 DEF OpenAISoFar
<1>10. Assembled' BY <1>1, <1>3 DEF Assembled
<1>11. QED BY <1>1, <1>5, <1>6, <1>7, <1>8, <1>9, <1>10 DEF AnswerInv

\* A call that is given is given whole, or without arguments where some did not come.
LEMMA GivesWhole ==
  ASSUME AnswerInv, llmStep = "stream", NEW i \in DOMAIN pending
  PROVE  /\ i \in Calls /\ pending[i].id = ask.calls[i].id
         /\ pending[i].json = <<>> \/ IsJson(pending[i].json) => Complete(i) \/ pending[i].json = <<>>
         /\ IsJson(pending[i].json) => Complete(i) /\ pending[i].json = ArgsOf(i)
         /\ ~IsJson(pending[i].json) /\ Complete(i) => pending[i].json = <<>> /\ ArgsOf(i) = <<>>
<1>1. i \in Calls /\ Building(i) /\ Arriving(i) /\ Answerable(ask) BY DEF AnswerInv
<1> DEFINE n == arrived[i].fragments
           json == SubSeq(ArgsOf(i), 1, n)
<1>2. n \in 0..Len(ArgsOf(i)) /\ arrived[i].announced /\ pending[i].json = json /\ pending[i].id = ask.calls[i].id
  BY <1>1 DEF Arriving, Building
<1>3. Complete(i) <=> n = Len(ArgsOf(i)) BY <1>2 DEF Complete, ArgsOf
<1> HIDE DEF n
<1>4. /\ n = Len(ArgsOf(i)) => json = ArgsOf(i)
      /\ IsJson(json) => n = Len(ArgsOf(i))
      /\ ~IsJson(json) /\ n = Len(ArgsOf(i)) => json = <<>>
  BY <1>1, <1>2, WholeOnly
<1> HIDE DEF json
<1>5. QED BY <1>1, <1>2, <1>3, <1>4

\* At the end of OpenAI's answer its calls are given in the order of their index.
LEMMA OpenAIEnds == AnswerInv /\ OpenAIEnd => AnswerInv'
<1> SUFFICES ASSUME AnswerInv, OpenAIEnd PROVE AnswerInv' OBVIOUS
<1> DEFINE D == DOMAIN pending
           order == ByIndex(D)
           n == Len(ask.calls)
           m == Cardinality(D)
<1>1. /\ llmStep = "stream" /\ ask.kind = "tools" /\ ask.api = "openai" /\ llmStep' = "ended"
      /\ UNCHANGED <<ask, arrived>> /\ pending' = <<>>
      /\ cut' = \E i \in Calls : ~Complete(i)
  BY DEF OpenAIEnd, Streaming, Fixed
<1>2. yielded' = [k \in DOMAIN order |->
                    [id |-> OrNumbered(pending[order[k]].id, order[k]),
                     input |-> parseToolArguments(pending[order[k]].json)]]
  BY DEF OpenAIEnd, ByIndex
<1>3. Calls = 1..n /\ n \in Nat /\ Answerable(ask) BY CallsAre DEF AnswerInv
<1>4. D \in SUBSET (1..n) BY <1>3 DEF AnswerInv
<1> HIDE DEF D, n
<1>5. /\ DOMAIN order = 1..m /\ m \in Nat
      /\ \A k \in 1..m : order[k] \in D
      /\ D = 1..n => m = n /\ \A k \in 1..n : order[k] = k
  BY <1>3, <1>4, ByIndexIs
<1> HIDE DEF order, m
<1>6. ASSUME NEW k \in 1..m
      PROVE  LET i == order[k]
             IN  /\ i \in Calls
                 /\ \/ yielded'[k] = GivenUse(i, ArgsOf(i))
                    \/ ~Complete(i) /\ yielded'[k] = GivenUse(i, <<>>)
  <2> DEFINE i == order[k]
             json == pending[i].json
  <2>1. i \in DOMAIN pending BY <1>5, <1>6 DEF D
  <2>2. /\ i \in Calls /\ pending[i].id = ask.calls[i].id
        /\ IsJson(json) => Complete(i) /\ json = ArgsOf(i)
        /\ ~IsJson(json) /\ Complete(i) => json = <<>> /\ ArgsOf(i) = <<>>
    BY <1>1, <2>1, GivesWhole
  <2>3. yielded'[k] = [id |-> OrNumbered(pending[i].id, i), input |-> parseToolArguments(json)]
    BY <1>2, <1>5, <1>6
  <2>4. yielded'[k] = GivenUse(i, parseToolArguments(json)) BY <2>2, <2>3 DEF GivenUse
  <2>5. IsJson(json) => parseToolArguments(json) = ArgsOf(i)
    <3> HIDE DEF i, json
    <3>1. QED BY <2>2 DEF parseToolArguments
  <2>6. ~IsJson(json) => parseToolArguments(json) = <<>> /\ (Complete(i) => <<>> = ArgsOf(i))
    <3> HIDE DEF i, json
    <3>1. QED BY <2>2 DEF parseToolArguments
  <2>7. \/ yielded'[k] = GivenUse(i, ArgsOf(i))
        \/ ~Complete(i) /\ yielded'[k] = GivenUse(i, <<>>)
    <3> HIDE DEF i, json
    <3>1. QED BY <2>4, <2>5, <2>6
  <2>8. QED BY <2>2, <2>7 DEF i
<1>7. /\ Calls' = Calls /\ Given' = Given /\ WholeUses' = WholeUses /\ Answerable(ask)' = Answerable(ask)
      /\ \A i : Complete(i)' = Complete(i) /\ Arriving(i)' = Arriving(i)
      /\ \A i, x : GivenUse(i, x)' = GivenUse(i, x)
  BY <1>1, AsksStay DEF Complete, Arriving, ArgsOf
<1>8. yielded' \in Seq(Given) /\ DOMAIN yielded' = 1..m
  <2>1. \A k \in 1..m : yielded'[k] \in Given BY <1>6 DEF Given
  <2>2. yielded' = [k \in 1..m |-> yielded'[k]] BY <1>2, <1>5
  <2>3. QED BY <1>5, <2>1, <2>2
<1>9. cut' <=> \E i \in Calls : ~Complete(i) BY <1>1
<1>10. ASSUME ~cut' PROVE yielded' = WholeUses
  <2>1. \A i \in Calls : Complete(i) BY <1>9, <1>10
  <2>2. D = Calls
    <3>1. D = {i \in Calls : arrived[i].announced} BY <1>1 DEF D, AnswerInv, OpenAISoFar
    <3>2. QED BY <2>1, <3>1 DEF Complete
  <2>3. m = n /\ \A k \in 1..n : order[k] = k BY <1>3, <1>5, <2>2
  <2>4. \A k \in 1..n : yielded'[k] = GivenUse(k, ArgsOf(k)) BY <1>3, <1>6, <2>1, <2>3
  <2>5. yielded' = [k \in 1..n |-> yielded'[k]] BY <1>2, <1>5, <2>3
  <2>6. QED BY <1>3, <2>4, <2>5 DEF WholeUses
<1>11. Assembled'
  <2>1. ASSUME NEW k \in 1..m, cut'
        PROVE  \E i \in Calls : \/ yielded'[k] = WholeUses[i]
                                \/ ~Complete(i) /\ yielded'[k] = GivenUse(i, <<>>)
    BY <1>6 DEF WholeUses
  <2>2. QED BY <1>1, <1>7, <1>8, <1>10, <2>1 DEF Assembled
<1>12. OpenAISoFar' BY <1>1 DEF OpenAISoFar
<1>13. cut' \in BOOLEAN BY <1>1
<1>14. DOMAIN pending' = {} BY <1>1
<1>15. QED BY <1>1, <1>7, <1>8, <1>11, <1>12, <1>13, <1>14 DEF AnswerInv

\* Anthropic's answer comes block by block.
BlockByBlock ==
  /\ Answerable(ask) /\ ask.kind = "tools" /\ ask.api = "anthropic"
  /\ cut \in BOOLEAN /\ yielded \in Seq(Given) /\ AnthropicSoFar

\* The blocks come one after another: what is given of them is assembled.
LEMMA BlocksAssembled == BlockByBlock => Assembled
<1> SUFFICES ASSUME BlockByBlock PROVE Assembled OBVIOUS
<1> DEFINE m == Len(yielded)
           n == Len(ask.calls)
           open == IF DOMAIN pending = {} THEN 0 ELSE 1
<1>1. yielded \in Seq(Given) /\ DOMAIN yielded = 1..m /\ m \in Nat BY DEF BlockByBlock
<1>2. Calls = 1..n /\ n \in Nat BY CallsAre DEF BlockByBlock
<1>3. /\ m + open <= n
      /\ \A i \in Calls : arrived[i].announced <=> i <= m + open
      /\ \A k \in 1..m : \/ yielded[k] = GivenUse(k, ArgsOf(k))
                         \/ cut /\ ~Complete(k) /\ yielded[k] = GivenUse(k, <<>>)
      /\ llmStep = "ended" /\ ~cut => DOMAIN pending = {} /\ \A i \in Calls : Complete(i)
  BY DEF BlockByBlock, AnthropicSoFar
<1>4. open \in {0, 1} OBVIOUS
<1>5. 1..m \subseteq Calls
  <2> HIDE DEF m, n, open
  <2>1. QED BY <1>1, <1>2, <1>3, <1>4
<1>6. \A k \in DOMAIN yielded :
        \/ yielded[k] = WholeUses[k]
        \/ cut /\ \E i \in Calls : \/ yielded[k] = WholeUses[i]
                                   \/ ~Complete(i) /\ yielded[k] = GivenUse(i, <<>>)
  <2> HIDE DEF m, n, open
  <2>1. QED BY <1>1, <1>3, <1>5 DEF WholeUses
<1>7. ASSUME llmStep = "ended", ~cut PROVE yielded = WholeUses
  <2>1. open = 0 /\ \A i \in Calls : arrived[i].announced BY <1>3, <1>7 DEF Complete
  <2>2. m = n
    <3> HIDE DEF m, n, open
    <3>1. \A i \in 1..n : i <= m BY <1>1, <1>2, <1>3, <2>1
    <3>2. n <= m BY <1>1, <1>2, <3>1
    <3>3. QED BY <1>1, <1>2, <1>3, <2>1, <3>2
  <2> HIDE DEF m, n, open
  <2>3. \A k \in 1..n : yielded[k] = GivenUse(k, ArgsOf(k)) BY <1>3, <1>7, <2>2
  <2>4. yielded = [k \in 1..n |-> yielded[k]] BY <1>1, <2>2
  <2>5. QED BY <1>2, <2>3, <2>4 DEF WholeUses
<1>8. QED BY <1>6, <1>7 DEF Assembled, BlockByBlock

\* And so it is after a step.
LEMMA BlocksAssembledNext == BlockByBlock' => Assembled'
BY BlocksAssembled, PTL

\* The block that is open is that of the next call, and no block was cut short.
LEMMA OpenBlock ==
  ASSUME AnswerInv, llmStep = "stream", ask.api = "anthropic", NEW i \in DOMAIN pending
  PROVE  /\ ask.kind = "tools" /\ BlockByBlock /\ ~cut
         /\ DOMAIN pending = {Len(yielded) + 1} /\ i = Len(yielded) + 1
         /\ i \in Calls /\ i <= Len(ask.calls)
<1>1. ask.kind = "tools" BY DEF AnswerInv, TextSoFar
<1>2. BlockByBlock BY <1>1 DEF AnswerInv, BlockByBlock
<1>3. DOMAIN pending = {Len(yielded) + 1} /\ ~cut BY <1>2 DEF BlockByBlock, AnthropicSoFar
<1>4. i \in Calls /\ Calls = 1..Len(ask.calls) BY CallsAre DEF AnswerInv
<1>5. QED BY <1>1, <1>2, <1>3, <1>4

\* The block of the next call starts.
LEMMA AnthropicStarts == AnswerInv /\ AnthropicStart => AnswerInv'
<1> SUFFICES ASSUME AnswerInv, AnthropicStart PROVE AnswerInv' OBVIOUS
<1>1. /\ llmStep = "stream" /\ ask.kind = "tools" /\ ask.api = "anthropic"
      /\ UNCHANGED <<ask, llmStep, yielded, cut>> /\ DOMAIN pending = {} /\ ~cut
  BY DEF AnthropicStart, Streaming, Fixed
<1>2. PICK i \in Calls :
        /\ ~arrived[i].announced /\ \A j \in 1..i - 1 : arrived[j].announced
        /\ Arrives(i, <<>>)
        /\ pending' = [j \in {i} |-> [id |-> ask.calls[i].id, json |-> <<>>]]
  BY DEF AnthropicStart
<1> DEFINE m == Len(yielded)
           n == Len(ask.calls)
<1>3. /\ Answerable(ask) /\ yielded \in Seq(Given) /\ m \in Nat
      /\ Calls = 1..n /\ n \in Nat /\ AnthropicSoFar /\ Arriving(i)
  <2>1. Answerable(ask) /\ yielded \in Seq(Given) /\ AnthropicSoFar /\ Arriving(i) BY <1>1 DEF AnswerInv
  <2>2. Calls = 1..n /\ n \in Nat BY <2>1, CallsAre
  <2>3. m \in Nat BY <2>1
  <2>4. QED BY <2>1, <2>2, <2>3
<1>4. /\ m <= n /\ \A j \in Calls : arrived[j].announced <=> j <= m
      /\ \A k \in 1..m : yielded[k] = GivenUse(k, ArgsOf(k))
  BY <1>1, <1>3 DEF AnthropicSoFar
<1>5. i = m + 1 /\ m + 1 <= n
  <2> HIDE DEF m, n
  <2>1. i \in 1..n /\ ~(i <= m) BY <1>2, <1>3, <1>4
  <2>2. i > m + 1 => m + 1 \in 1..i - 1 /\ m + 1 \in Calls BY <1>3, <2>1
  <2>3. m + 1 \in Calls => ~arrived[m + 1].announced
    <3>1. ~(m + 1 <= m) BY <1>3
    <3>2. QED BY <1>4, <3>1
  <2>4. ~(i > m + 1) BY <1>2, <2>2, <2>3
  <2>5. QED BY <1>3, <2>1, <2>4
<1>6. <<>> \in Chunks(i) /\ Len(<<>>) = 0
  <2>1. ArgsOf(i) \in Seq(STRING) BY <1>2, <1>3, CallsAre
  <2> DEFINE a == ArgsOf(i)
             f == arrived[i].fragments
  <2>2. f \in 0..Len(a) /\ Len(a) \in Nat BY <1>3, <2>1 DEF Arriving
  <2> HIDE DEF a, f
  <2>3. SubSeq(a, f + 1, f) = <<>>
    <3>1. a \in Seq(STRING) BY <2>1 DEF a
    <3>2. f \in Nat /\ f + 1 > f BY <2>2
    <3>3. QED BY <3>1, <3>2
  <2>4. f \in (f + 1) - 1..Len(a) BY <2>2
  <2>5. <<>> \in {SubSeq(a, f + 1, to) : to \in (f + 1) - 1..Len(a)} BY <2>3, <2>4
  <2>6. QED BY <2>5 DEF Chunks, ArgsOf, a, f
<1>7. /\ DOMAIN arrived' = Calls /\ arrived'[i].announced = TRUE
      /\ arrived'[i].fragments = arrived[i].fragments + Len(<<>>)
      /\ \A j \in Calls : j # i => arrived'[j] = arrived[j]
      /\ \A j \in Calls : Arriving(j)'
  BY <1>1, <1>2, <1>6, ChunkArrives
<1>8. arrived'[i].fragments = 0
  <2>1. arrived[i].fragments \in Nat /\ ~(arrived[i].fragments > 0) BY <1>2, <1>3 DEF Arriving
  <2>2. QED BY <1>6, <1>7, <2>1
<1>9. /\ Calls' = Calls /\ Given' = Given /\ Answerable(ask)' = Answerable(ask)
      /\ \A j, x : GivenUse(j, x)' = GivenUse(j, x) /\ ArgsOf(j)' = ArgsOf(j)
  BY <1>1, AsksStay
<1>10. DOMAIN pending' = {i} /\ pending'[i] = [id |-> ask.calls[i].id, json |-> <<>>] BY <1>2
<1>11. Building(i)'
  <2>1. ArgsOf(i) \in Seq(STRING) BY <1>2, <1>3, CallsAre
  <2>2. SubSeq(ArgsOf(i), 1, 0) = <<>> BY <2>1, AllOf
  <2>3. QED BY <1>1, <1>7, <1>8, <1>9, <1>10, <2>2 DEF Building
<1>12. \A j \in Calls : arrived'[j].announced <=> j <= m + 1
  <2> HIDE DEF m, n
  <2>1. \A j \in Calls : j # m + 1 => (j <= m <=> j <= m + 1) BY <1>3
  <2>2. QED BY <1>3, <1>4, <1>5, <1>7, <2>1
<1>13. AnthropicSoFar'
  <2>1. yielded' = yielded /\ llmStep' = "stream" /\ ~cut' BY <1>1
  <2>2. DOMAIN pending' # {} /\ DOMAIN pending' = {Len(yielded') + 1} BY <1>5, <1>10, <2>1
  <2>3. Len(yielded') + 1 <= Len(ask'.calls) BY <1>1, <1>5
  <2>4. \A j \in Calls' : arrived'[j].announced <=> j <= Len(yielded') + 1 BY <1>9, <1>12, <2>1
  <2>5. \A k \in 1..Len(yielded') : yielded'[k] = GivenUse(k, ArgsOf(k))' BY <1>4, <1>9, <2>1
  <2>6. QED BY <2>1, <2>2, <2>3, <2>4, <2>5 DEF AnthropicSoFar
<1>14. BlockByBlock' BY <1>1, <1>3, <1>9, <1>13 DEF BlockByBlock, AnswerInv
<1>15. Assembled' BY <1>14, BlocksAssembledNext
<1>16. QED BY <1>1, <1>2, <1>3, <1>7, <1>9, <1>10, <1>11, <1>13, <1>15 DEF AnswerInv

\* A piece of its arguments.
LEMMA AnthropicGoesOn == AnswerInv /\ AnthropicDelta => AnswerInv'
<1> SUFFICES ASSUME AnswerInv, AnthropicDelta PROVE AnswerInv' OBVIOUS
<1>1. /\ llmStep = "stream" /\ ask.api = "anthropic" /\ UNCHANGED <<ask, llmStep, yielded, cut>>
  BY DEF AnthropicDelta, Streaming, Fixed
<1>0. PICK i \in DOMAIN pending : \E chunk \in Chunks(i) : Arrives(i, chunk) /\ BuildCall(i, chunk)
  BY DEF AnthropicDelta
<1>2. PICK chunk \in Chunks(i) : Arrives(i, chunk) /\ BuildCall(i, chunk) BY <1>0
<1>3. /\ ask.kind = "tools" /\ BlockByBlock /\ ~cut
      /\ DOMAIN pending = {Len(yielded) + 1} /\ i = Len(yielded) + 1 /\ i \in Calls
  BY <1>1, <1>2, OpenBlock
<1>4. /\ DOMAIN arrived' = Calls /\ arrived'[i].announced = TRUE
      /\ \A j \in Calls : j # i => arrived'[j] = arrived[j]
      /\ \A j \in Calls : Arriving(j)'
  BY <1>1, <1>2, <1>3, ChunkArrives
<1>5. DOMAIN pending' = DOMAIN pending \cup {i} /\ \A j \in DOMAIN pending' : Building(j)'
  BY <1>1, <1>2, <1>3, CallBuilds
<1>6. DOMAIN pending' = {Len(yielded) + 1} BY <1>3, <1>5
<1>7. /\ Calls' = Calls /\ Given' = Given /\ Answerable(ask)' = Answerable(ask)
      /\ \A j, x : GivenUse(j, x)' = GivenUse(j, x) /\ ArgsOf(j)' = ArgsOf(j)
  BY <1>1, AsksStay
<1>8. AnthropicSoFar BY <1>3 DEF BlockByBlock
<1>9. \A j \in Calls : arrived'[j].announced <=> arrived[j].announced
  <2>1. arrived[i].announced BY <1>1, <1>2 DEF AnswerInv, Building
  <2>2. QED BY <1>4, <2>1
<1>10. AnthropicSoFar'
  <2>1. yielded' = yielded /\ llmStep' = "stream" /\ cut = FALSE /\ cut' = FALSE
    BY <1>1, <1>3 DEF BlockByBlock
  <2>2. DOMAIN pending' = DOMAIN pending BY <1>3, <1>6
  <2>3. /\ Len(yielded) + 1 <= Len(ask.calls)
        /\ \A j \in Calls : arrived[j].announced <=> j <= Len(yielded) + 1
        /\ \A k \in 1..Len(yielded) : yielded[k] = GivenUse(k, ArgsOf(k))
    BY <1>3, <1>8, <2>1 DEF AnthropicSoFar
  <2>4. DOMAIN pending' # {} /\ DOMAIN pending' = {Len(yielded') + 1} BY <1>6, <2>1
  <2>5. Len(yielded') + 1 <= Len(ask'.calls) BY <1>1, <2>1, <2>3
  <2>6. \A j \in Calls' : arrived'[j].announced <=> j <= Len(yielded') + 1 BY <1>7, <1>9, <2>1, <2>3
  <2>7. \A k \in 1..Len(yielded') : yielded'[k] = GivenUse(k, ArgsOf(k))' BY <1>7, <2>1, <2>3
  <2>8. QED BY <2>1, <2>4, <2>5, <2>6, <2>7 DEF AnthropicSoFar
<1>11. BlockByBlock' BY <1>1, <1>3, <1>7, <1>10 DEF BlockByBlock
<1>12. Assembled' BY <1>11, BlocksAssembledNext
<1>13. DOMAIN pending' \in SUBSET Calls BY <1>3, <1>6
<1>14. QED BY <1>1, <1>3, <1>4, <1>5, <1>7, <1>10, <1>11, <1>12, <1>13 DEF AnswerInv, BlockByBlock

\* What a block that stops gives.
LEMMA StopGives ==
  ASSUME AnswerInv, llmStep = "stream", ask.api = "anthropic", NEW i \in DOMAIN pending,
         pending[i].json = <<>> \/ IsJson(pending[i].json)
  PROVE  LET use == [id |-> <<pending[i].id>>, input |-> pending[i].json]
         IN  /\ use \in Given
             /\ \/ use = GivenUse(i, ArgsOf(i))
                \/ ~Complete(i) /\ use = GivenUse(i, <<>>)
<1> DEFINE use == [id |-> <<pending[i].id>>, input |-> pending[i].json]
           json == pending[i].json
<1>1. ask.kind = "tools" /\ i \in Calls BY OpenBlock
<1>2. ask.calls[i].id # "" BY <1>1, CallsAre DEF AnswerInv
<1>3. /\ pending[i].id = ask.calls[i].id
      /\ IsJson(json) => json = ArgsOf(i)
      /\ ~IsJson(json) /\ Complete(i) => json = <<>> /\ ArgsOf(i) = <<>>
  BY GivesWhole
<1>4. use = GivenUse(i, json)
  <2>1. OrNumbered(ask.calls[i].id, i) = <<ask.calls[i].id>> BY <1>2 DEF OrNumbered
  <2>2. QED BY <1>3, <2>1 DEF GivenUse
<1> HIDE DEF use
<1>5. json = ArgsOf(i) \/ (~Complete(i) /\ json = <<>>)
  <2> HIDE DEF json
  <2>1. QED BY <1>3 DEF json
<1>6. use = GivenUse(i, ArgsOf(i)) \/ (~Complete(i) /\ use = GivenUse(i, <<>>))
  <2> HIDE DEF json
  <2>1. QED BY <1>4, <1>5
<1>7. use \in Given BY <1>1, <1>6 DEF Given
<1>8. QED BY <1>6, <1>7 DEF use

\* A block stops: its call is given, and if it was cut short no other begins.
LEMMA AnthropicStops == AnswerInv /\ AnthropicStop => AnswerInv'
<1> SUFFICES ASSUME AnswerInv, AnthropicStop PROVE AnswerInv' OBVIOUS
<1>1. /\ llmStep = "stream" /\ ask.api = "anthropic" /\ UNCHANGED <<ask, arrived>>
  BY DEF AnthropicStop, Streaming, Fixed
<1>2. PICK i \in DOMAIN pending :
        IF pending[i].json # <<>> /\ ~IsJson(pending[i].json)
        THEN Throw /\ UNCHANGED <<pending, yielded, cut>>
        ELSE /\ yielded' = Append(yielded, [id |-> <<pending[i].id>>, input |-> pending[i].json])
             /\ pending' = <<>>
             /\ cut' = ~Complete(i)
             /\ UNCHANGED llmStep
  BY DEF AnthropicStop
<1>3. CASE pending[i].json # <<>> /\ ~IsJson(pending[i].json)
  BY <1>1, <1>2, <1>3, AnswerStays DEF Throw
<1>4. CASE pending[i].json = <<>> \/ IsJson(pending[i].json)
  <2> DEFINE use == [id |-> <<pending[i].id>>, input |-> pending[i].json]
             m == Len(yielded)
             n == Len(ask.calls)
  <2>1. /\ use \in Given
        /\ use = GivenUse(i, ArgsOf(i)) \/ (~Complete(i) /\ use = GivenUse(i, <<>>))
    BY <1>1, <1>4, StopGives
  <2>2. yielded' = Append(yielded, use) /\ DOMAIN pending' = {} /\ cut' = ~Complete(i) /\ llmStep' = "stream"
    BY <1>1, <1>2, <1>4
  <2> HIDE DEF use
  <2>3. /\ ask.kind = "tools" /\ BlockByBlock /\ ~cut
        /\ DOMAIN pending = {m + 1} /\ i = m + 1 /\ i \in Calls /\ i <= n
    BY <1>1, OpenBlock
  <2>4. /\ yielded \in Seq(Given) /\ AnthropicSoFar /\ Answerable(ask) BY <2>3 DEF BlockByBlock
  <2>5. m \in Nat BY <2>4
  <2>6. /\ yielded' \in Seq(Given) /\ Len(yielded') = m + 1 /\ yielded'[m + 1] = use
        /\ \A k \in 1..m : yielded'[k] = yielded[k]
    BY <2>1, <2>2, <2>4
  <2>7. /\ \A j \in Calls : arrived[j].announced <=> j <= m + 1
        /\ \A k \in 1..m : yielded[k] = GivenUse(k, ArgsOf(k))
    BY <2>3, <2>4 DEF AnthropicSoFar
  <2>8. /\ Calls' = Calls /\ Given' = Given /\ Answerable(ask)' = Answerable(ask)
        /\ \A j, x : GivenUse(j, x)' = GivenUse(j, x) /\ ArgsOf(j)' = ArgsOf(j)
        /\ \A j : Complete(j)' = Complete(j) /\ Arriving(j)' = Arriving(j)
    BY <1>1, AsksStay DEF Complete, Arriving, ArgsOf
  <2>9. AnthropicSoFar'
    <3>1. Len(yielded') <= Len(ask'.calls) BY <1>1, <2>3, <2>6
    <3>2. \A j \in Calls' : arrived'[j].announced <=> j <= Len(yielded') BY <1>1, <2>6, <2>7, <2>8
    <3>3. ASSUME NEW k \in 1..Len(yielded')
          PROVE  \/ yielded'[k] = GivenUse(k, ArgsOf(k))'
                 \/ cut' /\ ~Complete(k)' /\ yielded'[k] = GivenUse(k, <<>>)'
      <4>1. CASE k \in 1..m BY <2>6, <2>7, <2>8, <4>1
      <4>2. CASE k = m + 1 BY <2>1, <2>2, <2>3, <2>6, <2>8, <4>2
      <4>3. k \in 1..m \/ k = m + 1
        <5> HIDE DEF m
        <5>1. QED BY <2>5, <2>6
      <4>4. QED BY <4>1, <4>2, <4>3
    <3>4. Len(yielded') \in Nat /\ Len(yielded') + 0 = Len(yielded') BY <2>5, <2>6
    <3>5. QED BY <2>2, <3>1, <3>2, <3>3, <3>4 DEF AnthropicSoFar
  <2>10. cut' \in BOOLEAN /\ yielded' \in Seq(Given') BY <2>2, <2>6, <2>8
  <2>11. BlockByBlock' BY <1>1, <2>3, <2>4, <2>8, <2>9, <2>10 DEF BlockByBlock
  <2>12. Assembled' BY <2>11, BlocksAssembledNext
  <2>13. DOMAIN arrived = Calls /\ \A j \in Calls : Arriving(j) BY DEF AnswerInv
  <2>14. DOMAIN arrived' = Calls' /\ \A j \in Calls' : Arriving(j)' BY <1>1, <2>8, <2>13
  <2>15. Answerable(ask)' /\ ask'.kind = "tools" /\ ask'.api = "anthropic" BY <1>1, <2>3, <2>4, <2>8
  <2>16. QED BY <2>2, <2>9, <2>10, <2>12, <2>14, <2>15 DEF AnswerInv
<1>5. QED BY <1>3, <1>4

\* The stream of a text, or of Anthropic's blocks, ends.
LEMMA StreamEnds == AnswerInv /\ EndStream => AnswerInv'
<1> SUFFICES ASSUME AnswerInv, EndStream PROVE AnswerInv' OBVIOUS
<1>1. /\ llmStep = "stream" /\ (ask.kind # "tools" \/ ask.api = "anthropic")
      /\ DOMAIN pending = {} /\ UNCHANGED <<ask, arrived, pending, yielded>>
      /\ cut' = \E i \in Calls : ~Complete(i)
      /\ \/ llmStep' = "ended" /\ (ask.kind = "structured" => IsJson(yielded))
         \/ ask.kind = "structured" /\ llmStep' = "thrown"
  BY DEF EndStream, Streaming, Fixed, Throw
<1>2. /\ Calls' = Calls /\ Given' = Given /\ Answerable(ask)' = Answerable(ask)
      /\ \A j, x : GivenUse(j, x)' = GivenUse(j, x) /\ ArgsOf(j)' = ArgsOf(j)
      /\ \A j : Complete(j)' = Complete(j) /\ Arriving(j)' = Arriving(j)
  BY <1>1, AsksStay DEF Complete, Arriving, ArgsOf
<1>3. cut' \in BOOLEAN BY <1>1
<1>4. /\ Answerable(ask) /\ DOMAIN arrived = Calls /\ \A j \in Calls : Arriving(j)
      /\ ask.kind = "tools" => yielded \in Seq(Given)
  BY DEF AnswerInv
<1>5. /\ Answerable(ask)' /\ DOMAIN arrived' = Calls' /\ \A j \in Calls' : Arriving(j)'
      /\ ask'.kind = "tools" => yielded' \in Seq(Given')
      /\ DOMAIN pending' = {} /\ llmStep' \in {"ended", "thrown"}
  BY <1>1, <1>2, <1>4
<1>6. CASE ask.kind # "tools"
  <2>1. TextSoFar BY <1>6 DEF AnswerInv
  <2>2. yielded = SubSeq(ArgsOf(1), 1, arrived[1].fragments) BY <2>1 DEF TextSoFar
  <2>3. yielded' = SubSeq(ArgsOf(1)', 1, arrived'[1].fragments) BY <1>1, <1>2, <2>2
  <2>4. ask'.kind = "structured" /\ llmStep' = "ended" => IsJson(yielded')
    <3>1. yielded' = yielded /\ ask' = ask BY <1>1
    <3>2. ask.kind = "structured" /\ llmStep' = "ended" => IsJson(yielded) BY <1>1
    <3>3. QED BY <3>1, <3>2 DEF IsJson
  <2>5. TextSoFar' BY <1>5, <2>3, <2>4 DEF TextSoFar
  <2>6. ask'.kind # "tools" BY <1>1, <1>6
  <2>7. QED BY <1>3, <1>5, <2>5, <2>6 DEF AnswerInv
<1>7. CASE ask.kind = "tools"
  <2>1. ask.api = "anthropic" /\ AnthropicSoFar BY <1>1, <1>7 DEF AnswerInv
  <2>2. /\ Len(yielded) + 0 <= Len(ask.calls)
        /\ \A i \in Calls : arrived[i].announced <=> i <= Len(yielded) + 0
        /\ \A k \in 1..Len(yielded) : \/ yielded[k] = GivenUse(k, ArgsOf(k))
                                      \/ ~Complete(k) /\ yielded[k] = GivenUse(k, <<>>)
    BY <1>1, <2>1 DEF AnthropicSoFar
  <2>3. /\ Len(yielded) \in Nat /\ Calls = 1..Len(ask.calls) /\ Len(ask.calls) \in Nat
    <3>1. yielded \in Seq(Given) BY <1>4, <1>7
    <3>2. Len(yielded) \in Nat BY <3>1
    <3>3. QED BY <1>4, <3>2, CallsAre
  <2>4. ASSUME NEW k \in 1..Len(yielded')
        PROVE  \/ yielded'[k] = GivenUse(k, ArgsOf(k))'
               \/ cut' /\ ~Complete(k)' /\ yielded'[k] = GivenUse(k, <<>>)'
    <3>1. k \in 1..Len(yielded) BY <1>1
    <3>2. k \in Calls BY <2>2, <2>3, <3>1
    <3>3. ~Complete(k) => cut' BY <1>1, <3>2
    <3>4. QED BY <1>1, <1>2, <2>2, <3>1, <3>3
  <2>5. llmStep' = "ended" /\ ~cut' => \A i \in Calls' : Complete(i)' BY <1>1, <1>2
  <2>6. Len(yielded') + 0 <= Len(ask'.calls) BY <1>1, <2>2
  <2>7. \A i \in Calls' : arrived'[i].announced <=> i <= Len(yielded') + 0 BY <1>1, <1>2, <2>2
  <2>8. AnthropicSoFar' BY <1>5, <2>4, <2>5, <2>6, <2>7 DEF AnthropicSoFar
  <2>9. ask'.kind = "tools" /\ ask'.api = "anthropic" BY <1>1, <1>7, <2>1
  <2>10. BlockByBlock' BY <1>3, <1>5, <2>8, <2>9 DEF BlockByBlock
  <2>11. Assembled' BY <2>10, BlocksAssembledNext
  <2>12. QED BY <1>3, <1>5, <2>8, <2>9, <2>11 DEF AnswerInv
<1>8. QED BY <1>6, <1>7

\* Whatever happens to an ask.
LEMMA CompletionsStep == CompletionsInv /\ CompletionsNext => CompletionsInv'
<1> SUFFICES ASSUME BudgetInv, AnswerInv, CompletionsNext PROVE BudgetInv' /\ AnswerInv'
  BY DEF CompletionsInv
<1>1. CASE CountTokens \/ Guard \/ ForceCompact \/ CheckBudget \/ Rejects \/ Open
  <2>1. BudgetInv' BY <1>1, BudgetStep
  <2>2. /\ UNCHANGED <<ask, arrived, pending, yielded, cut>>
        /\ llmStep \notin {"ended", "thrown"} /\ llmStep' # "ended"
    BY <1>1 DEF CountTokens, Guard, ForceCompact, CheckBudget, Rejects, Open, Answer, Fixed, Throw
  <2>3. AnswerInv' BY <2>2, AnswerStays
  <2>4. QED BY <2>1, <2>3
<1>2. ASSUME TextDelta \/ OpenAIDelta \/ OpenAIEnd \/ AnthropicStart \/ AnthropicDelta
               \/ AnthropicStop \/ EndStream \/ Break
      PROVE  BudgetInv'
  <2>1. /\ UNCHANGED <<ask, size, prompt, usage, attempt>>
        /\ llmStep = "stream" /\ llmStep' \in {"stream", "ended", "thrown"}
    BY <1>2 DEF TextDelta, OpenAIDelta, OpenAIEnd, AnthropicStart, AnthropicDelta, AnthropicStop,
                EndStream, Break, Streaming, Fixed, Throw
  <2>2. QED BY <2>1, BudgetStays
<1>3. CASE TextDelta BY <1>2, <1>3, TextGoesOn
<1>4. CASE OpenAIDelta BY <1>2, <1>4, OpenAIGoesOn
<1>5. CASE OpenAIEnd BY <1>2, <1>5, OpenAIEnds
<1>6. CASE AnthropicStart BY <1>2, <1>6, AnthropicStarts
<1>7. CASE AnthropicDelta BY <1>2, <1>7, AnthropicGoesOn
<1>8. CASE AnthropicStop BY <1>2, <1>8, AnthropicStops
<1>9. CASE EndStream BY <1>2, <1>9, StreamEnds
<1>10. CASE Break
  <2>1. /\ UNCHANGED <<ask, arrived, pending, yielded>> /\ llmStep = "stream"
        /\ llmStep' = "thrown" /\ cut' = TRUE
    BY <1>10 DEF Break, Streaming, Fixed, Throw
  <2>2. AnswerInv' BY <2>1, AnswerStays
  <2>3. QED BY <1>2, <1>10, <2>2
<1>11. QED BY <1>1, <1>3, <1>4, <1>5, <1>6, <1>7, <1>8, <1>9, <1>10 DEF CompletionsNext

\* Nothing was asked yet.
LEMMA CompletionsAtRest == CompletionsInit \/ CompletionsRest => CompletionsInv
<1>1. ASSUME CompletionsInit PROVE BudgetInv
  <2>1. /\ size.whole \in Sizes /\ size.compacted \in Sizes BY <1>1 DEF CompletionsInit
  <2>2. 0 \in 0..MaxLLMRetries BY CompletionBounds
  <2>3. QED BY <1>1, <2>1, <2>2 DEF CompletionsInit, BudgetInv, SentWithinBudget, Sending
<1>2. ASSUME CompletionsRest PROVE BudgetInv
  <2>1. 0 \in 0..MaxLLMRetries BY CompletionBounds
  <2>2. QED BY <1>2, <2>1 DEF CompletionsRest, BudgetInv, SentWithinBudget, Sending
<1>3. ASSUME CompletionsInit PROVE AnswerInv
  <2>1. /\ llmStep = "count" /\ DOMAIN pending = {} /\ yielded = <<>> /\ cut = FALSE
        /\ arrived = [i \in Calls |-> [announced |-> FALSE, fragments |-> 0]]
    BY <1>3 DEF CompletionsInit, Calls
  <2>2. Answerable(ask) BY <1>3, AsksAssumption DEF CompletionsInit
  <2>3. \A i \in Calls : ArgsOf(i) \in Seq(STRING) BY <2>2, CallsAre
  <2>4. \A i \in Calls : Arriving(i)
    <3>1. TAKE i \in Calls
    <3>2. 0 \in 0..Len(ArgsOf(i))
      <4> DEFINE a == ArgsOf(i)
      <4>1. a \in Seq(STRING) BY <2>3, <3>1
      <4> HIDE DEF a
      <4>2. 0 \in 0..Len(a) BY <4>1
      <4>3. QED BY <4>2 DEF a
    <3>3. arrived[i] = [announced |-> FALSE, fragments |-> 0] BY <2>1
    <3>4. arrived[i].announced = FALSE /\ arrived[i].fragments = 0 BY <3>3
    <3>5. ~(0 > 0) OBVIOUS
    <3>6. QED BY <3>2, <3>4, <3>5 DEF Arriving
  <2>5. ask.kind = "tools" /\ ask.api = "anthropic" => AnthropicSoFar
    <3>1. Calls = 1..Len(ask.calls) /\ Len(ask.calls) \in Nat BY <2>2, CallsAre
    <3>2. Len(yielded) = 0 BY <2>1
    <3>3. \A i \in Calls : ~(i <= 0 + 0) BY <3>1
    <3>4. QED BY <2>1, <3>1, <3>2, <3>3 DEF AnthropicSoFar
  <2>6. ask.kind # "tools" => TextSoFar
    <3>1. SUFFICES ASSUME ask.kind # "tools" PROVE TextSoFar OBVIOUS
    <3>2. 1 \in Calls BY <2>2, <3>1, CallsAre
    <3>3. SubSeq(ArgsOf(1), 1, 0) = <<>> BY <2>3, <3>2, AllOf
    <3>4. arrived[1].fragments = 0 BY <2>1, <3>2
    <3>5. QED BY <2>1, <3>3, <3>4 DEF TextSoFar
  <2>7. OpenAISoFar BY <2>1 DEF OpenAISoFar
  <2>8. Assembled BY <2>1 DEF Assembled
  <2>9. yielded \in Seq(Given) BY <2>1
  <2>10. QED BY <2>1, <2>2, <2>4, <2>5, <2>6, <2>7, <2>8, <2>9 DEF AnswerInv
<1>4. ASSUME CompletionsRest PROVE AnswerInv
  <2>1. /\ llmStep = "ended" /\ DOMAIN pending = {} /\ yielded = <<>> /\ cut = TRUE
        /\ arrived = <<>>
        /\ ask = [kind |-> "tools", api |-> "openai", guard |-> FALSE, calls |-> <<>>]
    BY <1>4 DEF CompletionsRest
  <2>2. Calls = {} BY <2>1 DEF Calls
  <2>3. Answerable(ask) BY <2>1 DEF Answerable
  <2>4. DOMAIN arrived = {} BY <2>1
  <2>5. OpenAISoFar BY <2>1 DEF OpenAISoFar
  <2>6. Assembled BY <2>1 DEF Assembled
  <2>7. yielded \in Seq(Given) BY <2>1
  <2>8. QED BY <2>1, <2>2, <2>3, <2>4, <2>5, <2>6, <2>7 DEF AnswerInv
<1>5. QED BY <1>1, <1>2, <1>3, <1>4 DEF CompletionsInv

\* An ask to which nothing happens.
LEMMA CompletionsStay == CompletionsInv /\ UNCHANGED llmVars => CompletionsInv'
<1> SUFFICES ASSUME BudgetInv, AnswerInv, UNCHANGED llmVars PROVE BudgetInv' /\ AnswerInv'
  BY DEF CompletionsInv
<1>1. UNCHANGED <<ask, size, llmStep, prompt, usage, attempt, arrived, pending, yielded, cut>> BY DEF llmVars
<1>2. BudgetInv' BY <1>1, BudgetStays
<1>3. /\ Calls' = Calls /\ Given' = Given /\ WholeUses' = WholeUses
      /\ Answerable(ask)' = Answerable(ask)
      /\ \A i, x : GivenUse(i, x)' = GivenUse(i, x) /\ ArgsOf(i)' = ArgsOf(i)
      /\ \A i : Complete(i)' = Complete(i) /\ Arriving(i)' = Arriving(i) /\ Building(i)' = Building(i)
  BY <1>1, AsksStay DEF Complete, Arriving, Building, ArgsOf
<1>4. OpenAISoFar' = OpenAISoFar BY <1>1, <1>3 DEF OpenAISoFar
<1>5. AnthropicSoFar' = AnthropicSoFar BY <1>1, <1>3 DEF AnthropicSoFar
<1>6. TextSoFar' = TextSoFar BY <1>1, <1>3 DEF TextSoFar, IsJson
<1>7. Assembled' = Assembled BY <1>1, <1>3 DEF Assembled
<1>8. AnswerInv' BY <1>1, <1>3, <1>4, <1>5, <1>6, <1>7 DEF AnswerInv
<1>9. QED BY <1>2, <1>8

\* What the invariant says of an ask is what is promised of it.
LEMMA CompletionsInvTells == CompletionsInv => CompletionsFaithful
<1> SUFFICES ASSUME BudgetInv, AnswerInv PROVE CompletionsFaithful BY DEF CompletionsInv
<1>1. CompletionsTypeOK BY DEF BudgetInv, AnswerInv, CompletionsTypeOK
<1>2. SentWithinBudget BY DEF BudgetInv
<1>3. ASSUME ask.kind # "tools"
      PROVE  /\ IsPrefix(yielded, ask.calls[1].args)
             /\ ask.kind = "structured" /\ llmStep = "ended" => yielded = ask.calls[1].args
  <2> DEFINE a == ArgsOf(1)
             n == arrived[1].fragments
             json == SubSeq(a, 1, n)
  <2>1. Answerable(ask) /\ TextSoFar BY <1>3 DEF AnswerInv
  <2>2. 1 \in Calls /\ a \in Seq(STRING) BY <1>3, <2>1, CallsAre
  <2>3. n \in 0..Len(a) BY <2>2 DEF AnswerInv, Arriving
  <2>4. /\ yielded = json
        /\ ask.kind = "structured" /\ llmStep = "ended" => IsJson(json)
    BY <2>1 DEF TextSoFar
  <2>5. IsJson(json) => n = Len(a) BY <2>1, <2>2, <2>3, WholeOnly
  <2>6. n = Len(a) => json = a BY <2>1, <2>2, <2>3, WholeOnly
  <2>7. json = SubSeq(a, 1, n) OBVIOUS
  <2>8. a = ask.calls[1].args BY DEF ArgsOf
  <2> HIDE DEF a, n, json
  <2>9. IsPrefix(json, a)
    <3>1. json \in Seq(STRING) /\ Len(json) = n BY <2>2, <2>3, <2>7
    <3>2. \A k \in 1..n : json[k] = a[k] BY <2>2, <2>3, <2>7
    <3>3. Len(json) <= Len(a) /\ \A k \in 1..Len(json) : json[k] = a[k] BY <2>2, <2>3, <3>1, <3>2
    <3>4. QED BY <2>2, <3>1, <3>3, PrefixIs
  <2>10. QED BY <2>4, <2>5, <2>6, <2>8, <2>9
<1>4. CallsAssembled
  <2>1. ask.kind = "tools" => Assembled BY DEF AnswerInv
  <2>2. ask.kind = "tools" /\ ask.api = "openai" /\ llmStep # "ended" => yielded = <<>>
    BY DEF AnswerInv, OpenAISoFar
  <2>3. QED BY <1>3, <2>1, <2>2 DEF CallsAssembled, Assembled, WholeUses, GivenUse, ArgsOf
<1>5. QED BY <1>1, <1>2, <1>4 DEF CompletionsFaithful

\* What goes to a model and comes back of it.  Of a completion: a prompt that was counted as
\* it is sent and fits the budget; calls assembled whole, each once and in the model's order,
\* from whatever pieces they came in; a structured answer taken only whole (LLMRouter and the
\* providers).  Of a conversation: what compaction keeps of it (CompactionService).
THEOREM DialogueFaithfulHolds == Spec => []DialogueFaithful
<1>1. Init => CompletionsInv /\ SummariesInv
  BY CompletionsAtRest, SummariesAtRest DEF Init, RestBut, CompactionsInit
<1>2. CompletionsInv /\ SummariesInv /\ [Next]_partsVars => (CompletionsInv /\ SummariesInv)'
  <2> SUFFICES ASSUME CompletionsInv, SummariesInv, [Next]_partsVars
               PROVE  CompletionsInv' /\ SummariesInv'
    OBVIOUS
  <2>1. CompletionsNext \/ UNCHANGED llmVars => CompletionsInv' BY CompletionsStep, CompletionsStay
  <2>2. CompletionsNext \/ UNCHANGED llmVars BY DEF Next, StillBut, partsVars
  <2>3. CompactionsNext \/ UNCHANGED compactionVars BY DEF Next, StillBut, partsVars
  <2>4. SummariesInv' BY <2>3, SummariesStep, SummariesStay
  <2>5. QED BY <2>1, <2>2, <2>4
<1>3. CompletionsInv /\ SummariesInv => DialogueFaithful
  BY CompletionsInvTells, SummariesInvTells DEF DialogueFaithful
<1>4. QED BY <1>1, <1>2, <1>3, PTL DEF Spec
-----------------------------------------------------------------------------
(* The memories. *)

\* What stands in MEMORY.md: separators, blanks, the fields an entry is headed with, and
\* lines of bodies, whose fields may be taken for those of an entry.
BodyLines == UNION {Range(body) : body \in MemoryBodies}
AllNames  == MemoryNames \cup {line.value : line \in BodyLines}
FileLines ==
  {Separator, Blank} \cup BodyLines \cup {Field("id", i) : i \in MemoryIds}
    \cup {Field("name", x) : x \in AllNames} \cup {Field("pinned", YesNo(b)) : b \in BOOLEAN}
Parseds == [id : MemoryIds \cup {NoId}, name : AllNames, body : Seq(FileLines), pinned : BOOLEAN]
MemoryRows == [name : AllNames, body : Seq(FileLines), pinned : BOOLEAN, at : 0..MaxChanges]

\* The least of some of 1..n, or what comes after n.
LEMMA FirstOf ==
  ASSUME NEW n \in Nat, NEW S \in SUBSET (1..n)
  PROVE  /\ Min(S \cup {n + 1}) \in 1..(n + 1)
         /\ Min(S \cup {n + 1}) <= n => Min(S \cup {n + 1}) \in S
         /\ \A k \in S : Min(S \cup {n + 1}) <= k
<1> DEFINE T == S \cup {n + 1}
<1>1. T \in SUBSET Nat /\ T # {} /\ T \in SUBSET (1..(n + 1)) OBVIOUS
<1>2. \A k \in S : k \in T OBVIOUS
<1>3. \A k \in T : k \in S \/ k = n + 1 OBVIOUS
<1> HIDE DEF T
<1>4. Min(T) \in T /\ \A k \in T : Min(T) <= k BY <1>1, HasMin
<1>5. Min(T) \in 1..(n + 1) BY <1>1, <1>4
<1>6. Min(T) <= n => Min(T) \in S BY <1>3, <1>4
<1>7. QED BY <1>2, <1>4, <1>5, <1>6 DEF T

\* The first separator from a line on.
LEMMA SeparatorIs ==
  ASSUME NEW file \in Seq(FileLines), NEW i \in Nat, i # 0
  PROVE  /\ SeparatorFrom(file, i) \in 1..(Len(file) + 1)
         /\ SeparatorFrom(file, i) <= Len(file) =>
              i <= SeparatorFrom(file, i) /\ file[SeparatorFrom(file, i)] = Separator
         /\ \A k \in i..Len(file) : file[k] = Separator => SeparatorFrom(file, i) <= k
<1> DEFINE n == Len(file)
           S == {j \in i..n : file[j] = Separator}
<1>1. n \in Nat OBVIOUS
<1>2. S \in SUBSET (1..n) BY <1>1
<1>3. SeparatorFrom(file, i) = Min(S \cup {n + 1}) BY DEF SeparatorFrom
<1> DEFINE m == Min(S \cup {n + 1})
<1>4. m \in 1..(n + 1) /\ (m <= n => m \in S) /\ \A k \in S : m <= k
  <2> HIDE DEF S, n
  <2>1. QED BY <1>1, <1>2, FirstOf
<1> HIDE DEF m
<1>5. m = SeparatorFrom(file, i) BY <1>3 DEF m
<1>6. m <= n => i <= m /\ file[m] = Separator BY <1>4
<1>7. \A k \in i..n : file[k] = Separator => m <= k BY <1>4
<1>8. QED BY <1>4, <1>5, <1>6, <1>7

\* The first start of an entry from a line on.
LEMMA EntryIs ==
  ASSUME NEW file \in Seq(FileLines), NEW i \in Nat, i # 0
  PROVE  /\ EntryFrom(file, i) \in 1..(Len(file) + 1)
         /\ EntryFrom(file, i) <= Len(file) =>
              i <= EntryFrom(file, i) /\ EntryStart(file, EntryFrom(file, i))
         /\ \A k \in i..Len(file) : EntryStart(file, k) => EntryFrom(file, i) <= k
<1> DEFINE n == Len(file)
           S == {j \in i..n : EntryStart(file, j)}
<1>1. n \in Nat OBVIOUS
<1>2. S \in SUBSET (1..n) BY <1>1
<1>3. EntryFrom(file, i) = Min(S \cup {n + 1}) BY DEF EntryFrom
<1> DEFINE m == Min(S \cup {n + 1})
<1>4. m \in 1..(n + 1) /\ (m <= n => m \in S) /\ \A k \in S : m <= k
  <2> HIDE DEF S, n
  <2>1. QED BY <1>1, <1>2, FirstOf
<1> HIDE DEF m
<1>5. m = EntryFrom(file, i) BY <1>3 DEF m
<1>6. m <= n => i <= m /\ EntryStart(file, m) BY <1>4
<1>7. \A k \in i..n : EntryStart(file, k) => m <= k BY <1>4
<1>8. QED BY <1>4, <1>5, <1>6, <1>7

\* The entry read from a line on: its head, its body and what comes after it.
OpenAt(file, i)  == SeparatorFrom(file, i)
CloseAt(file, i) == SeparatorFrom(file, OpenAt(file, i) + 1)
NextAt(file, i)  == EntryFrom(file, CloseAt(file, i) + 1)
EntryAt(file, i) ==
  parseMemoryEntry(SubSeq(file, OpenAt(file, i) + 1, CloseAt(file, i) - 1),
                   SubSeq(file, CloseAt(file, i) + 1, NextAt(file, i) - 1))

\* It comes after that line, and the next after it.
LEMMA GoesOn ==
  ASSUME NEW file \in Seq(FileLines), NEW i \in 1..(Len(file) + 1)
  PROVE  /\ OpenAt(file, i) \in 1..(Len(file) + 1) /\ CloseAt(file, i) \in 1..(Len(file) + 1)
         /\ NextAt(file, i) \in 1..(Len(file) + 1)
         /\ CloseAt(file, i) <= Len(file) =>
              /\ i <= OpenAt(file, i) /\ OpenAt(file, i) < CloseAt(file, i)
              /\ CloseAt(file, i) < NextAt(file, i)
<1> DEFINE n == Len(file)
           o == OpenAt(file, i)
           c == CloseAt(file, i)
           e == NextAt(file, i)
<1>0. n \in Nat OBVIOUS
<1>1. o \in 1..(n + 1) /\ (o <= n => i <= o) BY SeparatorIs DEF OpenAt
<1>2. o + 1 \in Nat /\ o + 1 # 0 BY <1>0, <1>1
<1>3. c \in 1..(n + 1) /\ (c <= n => o + 1 <= c)
  <2> HIDE DEF o
  <2>1. QED BY <1>2, SeparatorIs DEF CloseAt, o
<1>4. c + 1 \in Nat /\ c + 1 # 0 BY <1>0, <1>3
<1>5. e \in 1..(n + 1) /\ (e <= n => c + 1 <= e)
  <2> HIDE DEF c
  <2>1. QED BY <1>4, EntryIs DEF NextAt, c
<1> HIDE DEF n, o, c, e
<1>6. c <= n => i <= o /\ o < c /\ c < e BY <1>0, <1>1, <1>3, <1>5
<1>7. QED BY <1>1, <1>3, <1>5, <1>6 DEF n, o, c, e

\* Sequences that are put together from the last place to the first, each place followed
\* by what a later one has: such a function is there.
WalkOn(n, X, out, jump) ==
  /\ n \in Nat /\ out \in [1..n -> Seq(X)] /\ jump \in [1..n -> 1..(n + 1)]
  /\ \A i \in 1..n : jump[i] > i
Leads(f, from, n, out, jump) ==
  /\ f[n + 1] = <<>>
  /\ \A i \in from..n : f[i] = out[i] \o f[jump[i]]

\* Such a function is there.
LEMMA WalkThere ==
  ASSUME NEW n, NEW X, NEW out, NEW jump, WalkOn(n, X, out, jump)
  PROVE  \E f \in [1..(n + 1) -> Seq(X)] : Leads(f, 1, n, out, jump)
<1>1. /\ n \in Nat /\ out \in [1..n -> Seq(X)] /\ jump \in [1..n -> 1..(n + 1)]
      /\ \A i \in 1..n : jump[i] > i
  BY DEF WalkOn
<1> DEFINE There(m) == \E f \in [1..(n + 1) -> Seq(X)] : Leads(f, n + 1 - m, n, out, jump)
           Bad == {m \in 0..n : ~There(m)}
<1>2. Bad = {}
  <2>1. SUFFICES ASSUME Bad # {} PROVE FALSE OBVIOUS
  <2>2. PICK m \in Bad : \A k \in Bad : m <= k
    <3>1. Bad \in SUBSET Nat BY <1>1
    <3> HIDE DEF Bad
    <3>2. QED BY <2>1, <3>1, HasMin
  <2>3. m \in 0..n /\ ~There(m) BY <2>2
  <2>4. CASE m = 0
    <3> DEFINE f == [i \in 1..(n + 1) |-> <<>>]
    <3>1. f \in [1..(n + 1) -> Seq(X)] /\ f[n + 1] = <<>> BY <1>1
    <3> HIDE DEF f
    <3>2. Leads(f, n + 1, n, out, jump)
      <4>1. \A i \in (n + 1)..n : FALSE BY <1>1
      <4>2. QED BY <3>1, <4>1 DEF Leads
    <3>3. n + 1 - m = n + 1 BY <1>1, <2>4
    <3>4. There(m) BY <3>1, <3>2, <3>3
    <3>5. QED BY <2>3, <3>4
  <2>5. CASE m # 0
    <3>1. m - 1 \in 0..n /\ ~(m <= m - 1) BY <1>1, <2>3, <2>5
    <3>2. m - 1 \notin Bad
      <4> HIDE DEF Bad
      <4>1. QED BY <2>2, <3>1
    <3>3. There(m - 1) BY <3>1, <3>2
    <3> DEFINE p == n + 1 - m
    <3>4. p \in 1..n /\ n + 1 - (m - 1) = p + 1 BY <1>1, <2>3, <2>5
    <3>5. PICK f \in [1..(n + 1) -> Seq(X)] : Leads(f, p + 1, n, out, jump) BY <3>3, <3>4
    <3> DEFINE g == [f EXCEPT ![p] = out[p] \o f[jump[p]]]
    <3> HIDE DEF p
    <3>6. p # n + 1 /\ p \in 1..(n + 1) /\ n + 1 \in 1..(n + 1) BY <1>1, <3>4
    <3>7. out[p] \o f[jump[p]] \in Seq(X)
      <4>1. out[p] \in Seq(X) /\ f[jump[p]] \in Seq(X) BY <1>1, <3>4
      <4>2. QED BY <4>1
    <3>8. g \in [1..(n + 1) -> Seq(X)] BY <3>6, <3>7
    <3>9. g[p] = out[p] \o f[jump[p]] /\ \A i \in 1..(n + 1) : i # p => g[i] = f[i] BY <3>6
    <3> HIDE DEF g
    <3>10. g[n + 1] = <<>> BY <3>5, <3>6, <3>9 DEF Leads
    <3>11. ASSUME NEW i \in p..n PROVE g[i] = out[i] \o g[jump[i]]
      <4>1. i \in 1..n /\ jump[i] \in 1..(n + 1) /\ jump[i] > i /\ jump[i] # p BY <1>1, <3>4, <3>11
      <4>2. g[jump[i]] = f[jump[i]] BY <3>9, <4>1
      <4>3. CASE i = p BY <3>9, <4>2, <4>3
      <4>4. CASE i # p
        <5>1. i \in (p + 1)..n /\ i \in 1..(n + 1) BY <1>1, <3>4, <4>1, <4>4
        <5>2. g[i] = f[i] /\ f[i] = out[i] \o f[jump[i]] BY <3>5, <3>9, <4>4, <5>1 DEF Leads
        <5>3. QED BY <4>2, <5>2
      <4>5. QED BY <4>3, <4>4
    <3>12. Leads(g, p, n, out, jump) BY <3>10, <3>11 DEF Leads
    <3>13. There(m) BY <3>8, <3>12 DEF p
    <3>14. QED BY <2>3, <3>13
  <2>6. QED BY <2>4, <2>5
<1>3. n \in 0..n /\ n + 1 - n = 1 BY <1>1
<1>4. There(n) BY <1>2, <1>3
<1>5. QED BY <1>3, <1>4

\* It is the only one.
LEMMA WalkAlike ==
  ASSUME NEW n, NEW X, NEW out, NEW jump, WalkOn(n, X, out, jump), NEW f, NEW g,
         Leads(f, 1, n, out, jump), Leads(g, 1, n, out, jump)
  PROVE  \A i \in 1..(n + 1) : f[i] = g[i]
<1>1. /\ n \in Nat /\ jump \in [1..n -> 1..(n + 1)] /\ \A i \in 1..n : jump[i] > i
  BY DEF WalkOn
<1> DEFINE Bad == {i \in 1..(n + 1) : f[i] # g[i]}
<1>2. SUFFICES ASSUME Bad # {} PROVE FALSE OBVIOUS
<1>3. PICK i \in Bad : \A k \in Bad : i >= k
  <2>1. Bad \in SUBSET Int BY <1>1
  <2>2. IsFiniteSet(Bad)
    <3>1. IsFiniteSet(1..(n + 1)) BY <1>1, FS_Interval
    <3>2. Bad \in SUBSET (1..(n + 1)) OBVIOUS
    <3> HIDE DEF Bad
    <3>3. QED BY <3>1, <3>2, FS_Subset
  <2> HIDE DEF Bad
  <2>3. QED BY <1>2, <2>1, <2>2, HasMax
<1>4. i \in 1..(n + 1) /\ f[i] # g[i] BY <1>3
<1>5. CASE i = n + 1 BY <1>4, <1>5 DEF Leads
<1>6. CASE i # n + 1
  <2>1. i \in 1..n BY <1>1, <1>4, <1>6
  <2>2. jump[i] \in 1..(n + 1) /\ ~(i >= jump[i]) BY <1>1, <2>1
  <2>3. jump[i] \notin Bad
    <3> HIDE DEF Bad
    <3>1. QED BY <1>3, <2>2
  <2>4. f[jump[i]] = g[jump[i]] BY <2>2, <2>3
  <2>5. f[i] = out[i] \o f[jump[i]] /\ g[i] = out[i] \o g[jump[i]] BY <2>1 DEF Leads
  <2>6. QED BY <1>4, <2>4, <2>5
<1>7. QED BY <1>5, <1>6

\* What is read of the fields of a head: of each key the last.
LEMMA FieldIs ==
  ASSUME NEW file \in Seq(FileLines), NEW k \in DOMAIN Fields(file)
  PROVE  \E i \in 1..Len(file) :
           /\ file[i].kind = "field" /\ file[i].key = k /\ Fields(file)[k] = file[i].value
           /\ \A j \in 1..Len(file) : file[j].kind = "field" /\ file[j].key = k => j <= i
<1> DEFINE n == Len(file)
           S == {i \in DOMAIN file : file[i].kind = "field" /\ file[i].key = k}
<1>1. n \in Nat /\ DOMAIN file = 1..n OBVIOUS
<1>2. S # {} /\ Fields(file)[k] = file[Max(S)].value BY DEF Fields
<1>3. S \in SUBSET (1..n) BY <1>1
<1> HIDE DEF S
<1>4. S \in SUBSET Int /\ IsFiniteSet(S)
  <2>1. IsFiniteSet(1..n) BY <1>1, FS_Interval
  <2> HIDE DEF n
  <2>2. S \in SUBSET Int BY <1>1, <1>3
  <2>3. QED BY <1>3, <2>1, <2>2, FS_Subset
<1>5. Max(S) \in S /\ \A j \in S : Max(S) >= j BY <1>2, <1>4, HasMax
<1> DEFINE m == Max(S)
<1> HIDE DEF m
<1>6. m \in S /\ Fields(file)[k] = file[m].value /\ \A j \in S : m >= j BY <1>2, <1>5 DEF m
<1>7. m \in 1..n /\ file[m].kind = "field" /\ file[m].key = k BY <1>3, <1>6 DEF S
<1>8. ASSUME NEW j \in 1..n, file[j].kind = "field", file[j].key = k PROVE j <= m
  <2>1. j \in S BY <1>1, <1>8 DEF S
  <2>2. QED BY <1>6, <1>7, <1>8, <2>1
<1>9. QED BY <1>6, <1>7, <1>8

\* The fields of lines of the file hold ids and names.
LEMMA LineHolds ==
  ASSUME NEW line \in FileLines, line.kind = "field"
  PROVE  /\ line.key = "id" => line.value \in MemoryIds
         /\ line.key = "name" => line.value \in AllNames
<1>1. CASE line \in BodyLines
  <2>1. PICK body \in MemoryBodies : line \in Range(body) BY <1>1 DEF BodyLines
  <2>2. line.key = "id" => line.value \in MemoryIds BY <2>1, MemoryBounds
  <2>3. line.value \in AllNames BY <1>1 DEF AllNames
  <2>4. QED BY <2>2, <2>3
<1>2. CASE line = Separator \/ line = Blank
  <2>1. line.kind = "---" \/ line.kind = "blank" BY <1>2 DEF Separator, Blank
  <2>2. QED BY <2>1
<1>3. CASE \E i \in MemoryIds : line = Field("id", i) BY <1>3 DEF Field
<1>4. CASE \E x \in AllNames : line = Field("name", x) BY <1>4 DEF Field
<1>5. CASE \E b \in BOOLEAN : line = Field("pinned", YesNo(b))
  <2>1. \A x : Field("pinned", x).key = "pinned" BY DEF Field
  <2>2. line.key = "pinned"
    <3>1. PICK b : line = Field("pinned", YesNo(b)) BY <1>5
    <3>2. QED BY <2>1, <3>1
  <2>3. QED BY <2>2
<1>6. QED BY <1>1, <1>2, <1>3, <1>4, <1>5 DEF FileLines

\* Without the blank lines around it a text is a part of itself, and stays so.
LEMMA TrimIs ==
  ASSUME NEW S, NEW file \in Seq(S)
  PROVE  \/ Trim(file) = <<>> /\ \A i \in 1..Len(file) : file[i] = Blank
         \/ \E a, b \in 1..Len(file) :
              /\ a <= b /\ file[a] # Blank /\ file[b] # Blank
              /\ \A i \in 1..Len(file) : file[i] # Blank => a <= i /\ i <= b
              /\ Trim(file) = SubSeq(file, a, b)
<1> DEFINE n == Len(file)
           T == {i \in DOMAIN file : file[i] # Blank}
<1>1. n \in Nat /\ DOMAIN file = 1..n OBVIOUS
<1>2. Trim(file) = IF T = {} THEN <<>> ELSE SubSeq(file, Min(T), Max(T)) BY DEF Trim
<1>3. CASE T = {} BY <1>1, <1>2, <1>3
<1>4. CASE T # {}
  <2>1. T \in SUBSET (1..n) BY <1>1
  <2>2. IsFiniteSet(1..n) BY <1>1, FS_Interval
  <2>3. \A i \in 1..n : file[i] # Blank <=> i \in T BY <1>1
  <2> HIDE DEF T, n
  <2>4. T \in SUBSET Nat /\ T \in SUBSET Int /\ IsFiniteSet(T)
    <3>1. 1..n \in SUBSET Nat /\ 1..n \in SUBSET Int BY <1>1
    <3> DEFINE U == 1..n
    <3> HIDE DEF U
    <3>2. IsFiniteSet(U) /\ T \in SUBSET U BY <2>1, <2>2 DEF U
    <3>3. IsFiniteSet(T) BY <3>2, FS_Subset
    <3>4. QED BY <2>1, <3>1, <3>3
  <2>5. Min(T) \in T /\ \A i \in T : Min(T) <= i BY <1>4, <2>4, HasMin
  <2>6. Max(T) \in T /\ \A i \in T : Max(T) >= i BY <1>4, <2>4, HasMax
  <2> DEFINE a == Min(T)
             b == Max(T)
  <2>7. Trim(file) = SubSeq(file, a, b) BY <1>2, <1>4
  <2> HIDE DEF a, b
  <2>8. a \in T /\ b \in T /\ \A i \in T : a <= i /\ i <= b BY <2>1, <2>5, <2>6 DEF a, b
  <2>9. a \in 1..n /\ b \in 1..n /\ a <= b /\ file[a] # Blank /\ file[b] # Blank
    BY <2>1, <2>3, <2>8
  <2>10. \A i \in 1..n : file[i] # Blank => a <= i /\ i <= b BY <2>3, <2>8
  <2>11. QED BY <2>7, <2>9, <2>10 DEF n
<1>5. QED BY <1>3, <1>4

\* What is trimmed is lines of the same.
LEMMA TrimStays == ASSUME NEW S, NEW file \in Seq(S) PROVE Trim(file) \in Seq(S)
<1>1. CASE Trim(file) = <<>> BY <1>1
<1>2. CASE \E a, b \in 1..Len(file) : Trim(file) = SubSeq(file, a, b)
  <2>1. PICK a, b \in 1..Len(file) : Trim(file) = SubSeq(file, a, b) BY <1>2
  <2>2. SubSeq(file, a, b) \in Seq(S) BY SubSeqProperties
  <2>3. QED BY <2>1, <2>2
<1>3. QED BY <1>1, <1>2, TrimIs

\* What the bounds of a trimmed text are is all there is to know.
LEMMA TrimmedTo ==
  ASSUME NEW S, NEW file \in Seq(S), NEW a \in 1..Len(file), NEW b \in 1..Len(file),
         file[a] # Blank, file[b] # Blank,
         \A i \in 1..Len(file) : file[i] # Blank => a <= i /\ i <= b
  PROVE  Trim(file) = SubSeq(file, a, b)
<1>1. ~(\A i \in 1..Len(file) : file[i] = Blank) OBVIOUS
<1>2. PICK c, d \in 1..Len(file) :
        /\ c <= d /\ file[c] # Blank /\ file[d] # Blank
        /\ \A i \in 1..Len(file) : file[i] # Blank => c <= i /\ i <= d
        /\ Trim(file) = SubSeq(file, c, d)
  BY <1>1, TrimIs
<1>3. a <= c /\ c <= a /\ d <= b /\ b <= d BY <1>2
<1>4. a = c /\ b = d BY <1>3
<1>5. QED BY <1>2, <1>4

\* Blanks alone are trimmed to nothing.
LEMMA TrimEmpty ==
  ASSUME NEW S, NEW file \in Seq(S), \A i \in 1..Len(file) : file[i] = Blank
  PROVE  Trim(file) = <<>>
BY TrimIs

\* Trimmed once is trimmed.
LEMMA TrimTrim == ASSUME NEW S, NEW file \in Seq(S) PROVE Trim(Trim(file)) = Trim(file)
<1>1. CASE Trim(file) = <<>>
  <2>1. <<>> \in Seq(S) /\ \A i \in 1..Len(<<>>) : <<>>[i] = Blank OBVIOUS
  <2> DEFINE e == <<>>
  <2>2. e \in Seq(S) /\ \A i \in 1..Len(e) : e[i] = Blank BY <2>1
  <2> HIDE DEF e
  <2>3. Trim(e) = <<>> BY <2>2, TrimEmpty
  <2>4. QED BY <1>1, <2>3 DEF e
<1>2. CASE \E a, b \in 1..Len(file) :
              /\ a <= b /\ file[a] # Blank /\ file[b] # Blank
              /\ Trim(file) = SubSeq(file, a, b)
  <2>1. PICK a, b \in 1..Len(file) :
          a <= b /\ file[a] # Blank /\ file[b] # Blank /\ Trim(file) = SubSeq(file, a, b)
    BY <1>2
  <2> DEFINE t == SubSeq(file, a, b)
             m == b - a + 1
  <2>2. t \in Seq(S) /\ Len(t) = m /\ \A i \in 1..m : t[i] = file[a + i - 1]
    BY <2>1, SubSeqProperties
  <2>3. m \in Nat /\ 1 \in 1..m /\ m \in 1..m /\ a + 1 - 1 = a /\ a + m - 1 = b BY <2>1
  <2> HIDE DEF m
  <2>4. t[1] # Blank /\ t[m] # Blank BY <2>1, <2>2, <2>3
  <2> HIDE DEF t
  <2>5. Trim(t) = SubSeq(t, 1, m)
    <3>1. t \in Seq(S) /\ 1 \in 1..Len(t) /\ m \in 1..Len(t) BY <2>2, <2>3
    <3>2. \A i \in 1..Len(t) : t[i] # Blank => 1 <= i /\ i <= m BY <2>2, <2>3
    <3>3. QED BY <2>4, <3>1, <3>2, TrimmedTo
  <2>6. SubSeq(t, 1, m) = t BY <2>2, AllOf
  <2>7. QED BY <2>1, <2>5, <2>6 DEF t
<1>3. QED BY <1>1, <1>2, TrimIs

\* A blank line at the end makes no difference.
LEMMA TrimBlank ==
  ASSUME NEW S, Blank \in S, NEW file \in Seq(S)
  PROVE  Trim(file \o <<Blank>>) = Trim(file)
<1> DEFINE n == Len(file)
           more == file \o <<Blank>>
<1>1. n \in Nat OBVIOUS
<1>2. more \in Seq(S) /\ Len(more) = n + 1 /\ more[n + 1] = Blank /\ \A i \in 1..n : more[i] = file[i]
  OBVIOUS
<1> HIDE DEF more
<1>3. CASE \A i \in 1..n : file[i] = Blank
  <2>1. \A i \in 1..Len(more) : more[i] = Blank BY <1>1, <1>2, <1>3
  <2>2. Trim(file) = <<>> BY <1>3, TrimEmpty
  <2>3. Trim(more) = <<>> BY <1>2, <2>1, TrimEmpty
  <2>4. QED BY <2>2, <2>3 DEF more
<1>4. CASE \E a, b \in 1..n :
              /\ a <= b /\ file[a] # Blank /\ file[b] # Blank
              /\ \A i \in 1..n : file[i] # Blank => a <= i /\ i <= b
              /\ Trim(file) = SubSeq(file, a, b)
  <2>1. PICK a, b \in 1..n :
          /\ a <= b /\ file[a] # Blank /\ file[b] # Blank
          /\ \A i \in 1..n : file[i] # Blank => a <= i /\ i <= b
          /\ Trim(file) = SubSeq(file, a, b)
    BY <1>4
  <2>2. a \in 1..Len(more) /\ b \in 1..Len(more) /\ more[a] # Blank /\ more[b] # Blank
    BY <1>1, <1>2, <2>1
  <2>3. \A i \in 1..Len(more) : more[i] # Blank => a <= i /\ i <= b
    <3>1. ASSUME NEW i \in 1..Len(more), more[i] # Blank PROVE a <= i /\ i <= b
      <4>1. i \in 1..n BY <1>1, <1>2, <3>1
      <4>2. QED BY <1>2, <2>1, <3>1, <4>1
    <3>2. QED BY <3>1
  <2>4. Trim(more) = SubSeq(more, a, b) BY <1>2, <2>2, <2>3, TrimmedTo
  <2> DEFINE u == SubSeq(file, a, b)
             v == SubSeq(more, a, b)
             m == b - a + 1
  <2>5. u \in Seq(S) /\ Len(u) = m /\ \A i \in 1..m : u[i] = file[a + i - 1]
    BY <2>1, SubSeqProperties
  <2>6. v \in Seq(S) /\ Len(v) = m /\ \A i \in 1..m : v[i] = more[a + i - 1]
    BY <1>2, <2>1, <2>2, SubSeqProperties
  <2>7. \A i \in 1..m : a + i - 1 \in 1..n BY <1>1, <2>1
  <2> HIDE DEF u, v, m
  <2>8. \A i \in 1..m : u[i] = v[i] BY <1>2, <2>5, <2>6, <2>7
  <2>9. u = v BY <2>5, <2>6, <2>8, SeqEqual
  <2>10. QED BY <2>1, <2>4, <2>9 DEF u, v, more
<1>5. QED BY <1>3, <1>4, TrimIs

\* An entry of the file holds what the lines of the file hold.
LEMMA EntryParsed ==
  ASSUME NEW front \in Seq(FileLines), NEW body \in Seq(FileLines)
  PROVE  parseMemoryEntry(front, body) \in Seq(Parseds)
<1> DEFINE fields == Fields(front)
           Value(k, default) == IF k \in DOMAIN fields THEN fields[k] ELSE default
           id == Value("id", NoId)
           name == fields["name"]
           text == Trim(body)
           pin == (Value("pinned", "false") = "true")
           entry == [id |-> id, name |-> name, body |-> text, pinned |-> pin]
<1>1. parseMemoryEntry(front, body) = IF "name" \notin DOMAIN fields THEN <<>> ELSE <<entry>>
  BY DEF parseMemoryEntry
<1>2. text \in Seq(FileLines) BY TrimStays
<1>3. ASSUME NEW k \in DOMAIN fields
      PROVE  /\ k = "id" => fields[k] \in MemoryIds
             /\ k = "name" => fields[k] \in AllNames
  <2>1. PICK i \in 1..Len(front) :
          front[i].kind = "field" /\ front[i].key = k /\ fields[k] = front[i].value
    BY <1>3, FieldIs
  <2>2. front[i] \in FileLines OBVIOUS
  <2>3. QED BY <2>1, <2>2, LineHolds
<1> HIDE DEF fields, text
<1>4. id \in MemoryIds \cup {NoId} BY <1>3
<1>5. pin \in BOOLEAN OBVIOUS
<1>6. CASE "name" \in DOMAIN fields
  <2>1. name \in AllNames BY <1>3, <1>6
  <2> HIDE DEF id, name, pin
  <2>2. entry \in Parseds BY <1>2, <1>4, <1>5, <2>1 DEF Parseds
  <2> HIDE DEF entry
  <2>3. <<entry>> \in Seq(Parseds) BY <2>2
  <2>4. QED BY <1>1, <1>6, <2>3
<1>7. CASE "name" \notin DOMAIN fields
  <2>1. <<>> \in Seq(Parseds) OBVIOUS
  <2> HIDE DEF entry
  <2>2. QED BY <1>1, <1>7, <2>1
<1>8. QED BY <1>6, <1>7

\* So is the entry read at a place of a file.
LEMMA EntryAtParsed ==
  ASSUME NEW file \in Seq(FileLines), NEW i \in 1..(Len(file) + 1), CloseAt(file, i) <= Len(file)
  PROVE  EntryAt(file, i) \in Seq(Parseds)
<1> DEFINE n == Len(file)
           o == OpenAt(file, i)
           c == CloseAt(file, i)
           e == NextAt(file, i)
           front == SubSeq(file, o + 1, c - 1)
           body == SubSeq(file, c + 1, e - 1)
<1>1. n \in Nat /\ \A k \in 1..n : file[k] \in FileLines OBVIOUS
<1>2. /\ o \in 1..(n + 1) /\ c \in 1..(n + 1) /\ e \in 1..(n + 1)
      /\ c <= n /\ i <= o /\ o < c /\ c < e
  BY GoesOn
<1>3. EntryAt(file, i) = parseMemoryEntry(front, body) BY DEF EntryAt
<1> HIDE DEF n, o, c, e
<1>4. o + 1 \in Int /\ c - 1 \in Int /\ c + 1 \in Int /\ e - 1 \in Int BY <1>1, <1>2
<1>5. /\ \A k \in (o + 1)..(c - 1) : file[k] \in FileLines
      /\ \A k \in (c + 1)..(e - 1) : file[k] \in FileLines
  BY <1>1, <1>2
<1>6. front \in Seq(FileLines) BY <1>4, <1>5, SubSeqProperties
<1>7. body \in Seq(FileLines) BY <1>4, <1>5, SubSeqProperties
<1> HIDE DEF front, body
<1>8. QED BY <1>3, <1>6, <1>7, EntryParsed

\* The function that parseMemoryFile is the first value of.
Parses(f, file) ==
  f = [i \in 1..(Len(file) + 1) |->
         IF CloseAt(file, i) > Len(file) THEN <<>>
         ELSE EntryAt(file, i) \o f[NextAt(file, i)]]

\* What parseMemoryFile gives, by where it is read from.
LEMMA ParseIs ==
  ASSUME NEW file \in Seq(FileLines)
  PROVE  \E f \in [1..(Len(file) + 1) -> Seq(Parseds)] :
           /\ parseMemoryFile(file) = f[1]
           /\ \A i \in 1..(Len(file) + 1) :
                f[i] = IF CloseAt(file, i) > Len(file) THEN <<>>
                       ELSE EntryAt(file, i) \o f[NextAt(file, i)]
<1> DEFINE n == Len(file)
           D == 1..(n + 1)
           stop(i) == CloseAt(file, i) > n
           out == [i \in 1..n |-> IF stop(i) THEN <<>> ELSE EntryAt(file, i)]
           jump == [i \in 1..n |-> IF stop(i) THEN n + 1 ELSE NextAt(file, i)]
<1>1. n \in Nat OBVIOUS
<1>2. ASSUME NEW i \in D
      PROVE  /\ NextAt(file, i) \in D /\ CloseAt(file, i) \in D
             /\ ~stop(i) => i < NextAt(file, i) /\ i <= n
             /\ ~stop(i) => EntryAt(file, i) \in Seq(Parseds)
  <2>1. CloseAt(file, i) \in D /\ NextAt(file, i) \in D BY GoesOn
  <2>2. ~stop(i) => CloseAt(file, i) <= n BY <1>1, <2>1
  <2>3. ~stop(i) => i < NextAt(file, i) /\ i <= n
    <3> DEFINE o == OpenAt(file, i)
               c == CloseAt(file, i)
               e == NextAt(file, i)
    <3>1. o \in D /\ c \in D /\ e \in D /\ (c <= n => i <= o /\ o < c /\ c < e) BY GoesOn
    <3>2. ~stop(i) => c <= n BY <2>2
    <3> HIDE DEF o, c, e, n
    <3>3. c <= n => i < e /\ i <= n BY <1>1, <3>1
    <3> HIDE DEF stop
    <3>4. QED BY <3>2, <3>3 DEF e, n
  <2>4. ~stop(i) => EntryAt(file, i) \in Seq(Parseds) BY <2>2, EntryAtParsed
  <2>5. QED BY <2>1, <2>3, <2>4
<1>3. WalkOn(n, Parseds, out, jump)
  <2>1. \A i \in 1..n : i \in D /\ i < n + 1 /\ n + 1 \in D BY <1>1
  <2>2. <<>> \in Seq(Parseds) OBVIOUS
  <2> HIDE DEF D, stop
  <2>3. out \in [1..n -> Seq(Parseds)] BY <1>2, <2>1, <2>2
  <2>4. \A i \in 1..n : (IF stop(i) THEN n + 1 ELSE NextAt(file, i)) \in D BY <1>2, <2>1
  <2>5. jump \in [1..n -> D] BY <2>4
  <2>6. ASSUME NEW i \in 1..n PROVE jump[i] > i
    <3>1. CASE stop(i)
      <4>1. jump[i] = n + 1 BY <3>1
      <4>2. QED BY <1>1, <2>1, <4>1
    <3>2. CASE ~stop(i)
      <4>1. jump[i] = NextAt(file, i) BY <3>2
      <4>2. i < NextAt(file, i) /\ NextAt(file, i) \in D BY <1>2, <2>1, <3>2
      <4>3. D \in SUBSET Nat BY <1>1 DEF D
      <4>4. QED BY <1>1, <4>1, <4>2, <4>3
    <3>3. QED BY <3>1, <3>2
  <2> HIDE DEF out, jump
  <2>7. QED BY <1>1, <2>3, <2>5, <2>6 DEF WalkOn, D
<1>4. stop(n + 1)
  <2>1. n + 1 \in D BY <1>1
  <2>2. ~(n + 1 <= n) BY <1>1
  <2> HIDE DEF stop, D
  <2>3. QED BY <1>2, <2>1, <2>2
<1>5. \A i \in D : i = n + 1 \/ i \in 1..n BY <1>1
<1>6. \A i \in 1..n : /\ stop(i) => out[i] = <<>> /\ jump[i] = n + 1
                      /\ ~stop(i) => out[i] = EntryAt(file, i) /\ jump[i] = NextAt(file, i)
  OBVIOUS
<1>7. \A f : Parses(f, file) => f = [i \in D |-> IF stop(i) THEN <<>> ELSE EntryAt(file, i) \o f[NextAt(file, i)]]
  BY DEF Parses
<1>8. \A f : f = [i \in D |-> IF stop(i) THEN <<>> ELSE EntryAt(file, i) \o f[NextAt(file, i)]] => Parses(f, file)
  BY DEF Parses
<1>9. parseMemoryFile(file) = (CHOOSE f : Parses(f, file))[1]
  BY DEF parseMemoryFile, Parses, EntryAt, NextAt, CloseAt, OpenAt
<1> HIDE DEF stop, out, jump, D
<1>10. PICK f \in [1..(n + 1) -> Seq(Parseds)] : Leads(f, 1, n, out, jump) BY <1>3, WalkThere
<1>11. f \in [D -> Seq(Parseds)] BY <1>10 DEF D
<1>12. ASSUME NEW i \in D
       PROVE  f[i] = IF stop(i) THEN <<>> ELSE EntryAt(file, i) \o f[NextAt(file, i)]
  <2>1. CASE i = n + 1 BY <1>4, <1>10, <2>1 DEF Leads
  <2>2. CASE i \in 1..n
    <3>1. f[i] = out[i] \o f[jump[i]] /\ f[n + 1] = <<>> BY <1>10, <2>2 DEF Leads
    <3>2. CASE stop(i)
      <4>1. f[i] = <<>> \o <<>> BY <1>6, <2>2, <3>1, <3>2
      <4>2. QED BY <3>2, <4>1
    <3>3. CASE ~stop(i) BY <1>6, <2>2, <3>1, <3>3
    <3>4. QED BY <3>2, <3>3
  <2>3. QED BY <1>5, <2>1, <2>2
<1>13. Parses(f, file)
  <2>1. f = [i \in D |-> IF stop(i) THEN <<>> ELSE EntryAt(file, i) \o f[NextAt(file, i)]]
    BY <1>11, <1>12
  <2>2. QED BY <1>8, <2>1
<1> DEFINE g == CHOOSE f1 : Parses(f1, file)
<1>14. Parses(g, file) BY <1>13
<1> HIDE DEF g
<1>15. g = [i \in D |-> IF stop(i) THEN <<>> ELSE EntryAt(file, i) \o g[NextAt(file, i)]]
  BY <1>7, <1>14
<1>16. \A i \in D : g[i] = IF stop(i) THEN <<>> ELSE EntryAt(file, i) \o g[NextAt(file, i)] BY <1>15
<1>17. DOMAIN g = D BY <1>15
<1>18. Leads(g, 1, n, out, jump)
  <2>1. n + 1 \in D /\ \A i \in 1..n : i \in D BY <1>1 DEF D
  <2>2. g[n + 1] = <<>> BY <1>4, <1>16, <2>1
  <2>3. ASSUME NEW i \in 1..n PROVE g[i] = out[i] \o g[jump[i]]
    <3>1. CASE stop(i)
      <4>1. g[i] = <<>> BY <1>16, <2>1, <3>1
      <4>2. out[i] = <<>> /\ g[jump[i]] = <<>> BY <1>6, <2>2, <3>1
      <4>3. QED BY <4>1, <4>2
    <3>2. CASE ~stop(i) BY <1>6, <1>16, <2>1, <3>2
    <3>3. QED BY <3>1, <3>2
  <2>4. QED BY <2>2, <2>3 DEF Leads
<1>19. \A i \in 1..(n + 1) : f[i] = g[i] BY <1>3, <1>10, <1>18, WalkAlike
<1>20. 1 \in 1..(n + 1) BY <1>1
<1>21. parseMemoryFile(file) = f[1] BY <1>9, <1>19, <1>20 DEF g
<1>22. \A i \in 1..(n + 1) : f[i] = IF CloseAt(file, i) > n THEN <<>> ELSE EntryAt(file, i) \o f[NextAt(file, i)]
  BY <1>12 DEF D, stop
<1>23. QED BY <1>10, <1>21, <1>22

\* A file is parsed to entries.
LEMMA ParseStays ==
  ASSUME NEW file \in Seq(FileLines)
  PROVE  parseMemoryFile(file) \in Seq(Parseds)
<1>1. PICK f \in [1..(Len(file) + 1) -> Seq(Parseds)] : parseMemoryFile(file) = f[1] BY ParseIs
<1>2. 1 \in 1..(Len(file) + 1)
  <2>1. Len(file) \in Nat OBVIOUS
  <2>2. QED BY <2>1
<1>3. QED BY <1>1, <1>2

\* The head that formatMemoryEntry writes is read back.
LEMMA HeadRead ==
  ASSUME NEW i \in MemoryIds, NEW x \in AllNames, NEW p \in BOOLEAN, NEW body \in Seq(FileLines)
  PROVE  parseMemoryEntry(<<Field("id", i), Field("name", x), Field("pinned", YesNo(p))>>, body)
           = <<[id |-> i, name |-> x, body |-> Trim(body), pinned |-> p]>>
<1> DEFINE a == Field("id", i)
           b == Field("name", x)
           c == Field("pinned", YesNo(p))
           front == <<a, b, c>>
           fields == Fields(front)
<1>1. a.kind = "field" /\ a.key = "id" /\ a.value = i BY DEF Field
<1>2. b.kind = "field" /\ b.key = "name" /\ b.value = x BY DEF Field
<1>3. c.kind = "field" /\ c.key = "pinned" /\ c.value = YesNo(p) BY DEF Field
<1>4. a \in FileLines /\ b \in FileLines /\ c \in FileLines BY DEF FileLines
<1> HIDE DEF a, b, c
<1>5. front \in Seq(FileLines) /\ Len(front) = 3 /\ DOMAIN front = 1..3 BY <1>4
<1>6. front[1] = a /\ front[2] = b /\ front[3] = c OBVIOUS
<1> HIDE DEF front
<1>7. DOMAIN fields = {front[j].key : j \in {k \in DOMAIN front : front[k].kind = "field"}} BY DEF Fields
<1>8. {"id", "name", "pinned"} \in SUBSET DOMAIN fields
  <2>1. 1 \in DOMAIN front /\ 2 \in DOMAIN front /\ 3 \in DOMAIN front BY <1>5
  <2>2. "id" \in DOMAIN fields BY <1>1, <1>6, <1>7, <2>1
  <2>3. "name" \in DOMAIN fields BY <1>2, <1>6, <1>7, <2>1
  <2>4. "pinned" \in DOMAIN fields BY <1>3, <1>6, <1>7, <2>1
  <2> HIDE DEF fields
  <2>5. QED BY <2>2, <2>3, <2>4
<1>9. ASSUME NEW k \in DOMAIN fields
      PROVE  \E j \in 1..3 : front[j].kind = "field" /\ front[j].key = k /\ fields[k] = front[j].value
  BY <1>5, <1>9, FieldIs
<1> HIDE DEF fields
<1>10. \A j \in 1..3 : j = 1 \/ j = 2 \/ j = 3 OBVIOUS
<1>11. fields["id"] = i
  <2>1. PICK j \in 1..3 : front[j].key = "id" /\ fields["id"] = front[j].value BY <1>8, <1>9
  <2>2. j # 2 /\ j # 3 BY <1>2, <1>3, <1>6, <2>1
  <2>3. QED BY <1>1, <1>6, <1>10, <2>1, <2>2
<1>12. fields["name"] = x
  <2>1. PICK j \in 1..3 : front[j].key = "name" /\ fields["name"] = front[j].value BY <1>8, <1>9
  <2>2. j # 1 /\ j # 3 BY <1>1, <1>3, <1>6, <2>1
  <2>3. QED BY <1>2, <1>6, <1>10, <2>1, <2>2
<1>13. fields["pinned"] = YesNo(p)
  <2>1. PICK j \in 1..3 : front[j].key = "pinned" /\ fields["pinned"] = front[j].value BY <1>8, <1>9
  <2>2. j # 1 /\ j # 2 BY <1>1, <1>2, <1>6, <2>1
  <2>3. QED BY <1>3, <1>6, <1>10, <2>1, <2>2
<1>14. (YesNo(p) = "true") = p BY DEF YesNo
<1>15. parseMemoryEntry(front, body) = <<[id |-> i, name |-> x, body |-> Trim(body), pinned |-> p]>>
  <2>1. "id" \in DOMAIN fields /\ "name" \in DOMAIN fields /\ "pinned" \in DOMAIN fields BY <1>8
  <2>2. parseMemoryEntry(front, body) =
          << [id |-> fields["id"], name |-> fields["name"], body |-> Trim(body),
              pinned |-> fields["pinned"] = "true"] >>
    BY <2>1 DEF parseMemoryEntry, fields
  <2>3. QED BY <1>11, <1>12, <1>13, <1>14, <2>2
<1>16. QED BY <1>15 DEF front, a, b, c

\* The lines of a memory in the file.
BodyText(text) == (IF text = <<>> THEN <<Blank>> ELSE text) \o <<Blank>>
EntryLines(i, row) == formatMemoryEntry(i, row) \o <<Blank>>

\* The lines of a body in the file are trimmed to what the body is trimmed to, end with a
\* blank, and start no entry when the body can be carried.
LEMMA BodyTextIs ==
  ASSUME NEW text \in Seq(FileLines)
  PROVE  /\ BodyText(text) \in Seq(FileLines) /\ Len(BodyText(text)) \in Nat
         /\ Len(BodyText(text)) > 1 /\ BodyText(text)[Len(BodyText(text))] = Blank
         /\ Trim(BodyText(text)) = Trim(text)
         /\ Carried(text) => \A t \in 1..(Len(BodyText(text)) - 1) :
              ~(BodyText(text)[t] = Separator /\ BodyText(text)[t + 1].kind = "field")
<1>1. Blank \in FileLines /\ Blank # Separator /\ Blank.kind # "field"
  BY DEF FileLines, Blank, Separator
<1> DEFINE base == IF text = <<>> THEN <<Blank>> ELSE text
           m == Len(base)
           all == base \o <<Blank>>
<1>2. base \in Seq(FileLines)
  <2>1. <<Blank>> \in Seq(FileLines) BY <1>1
  <2>2. QED BY <2>1
<1>3. m \in Nat /\ m > 0
  <2>1. Len(<<Blank>>) = 1 OBVIOUS
  <2>2. text # <<>> => Len(text) # 0 /\ Len(text) \in Nat
    <3>1. Len(text) \in Nat OBVIOUS
    <3>2. Len(text) = 0 => text = <<>> OBVIOUS
    <3>3. QED BY <3>1, <3>2
  <2>3. QED BY <2>1, <2>2
<1>4. Trim(base) = Trim(text)
  <2>1. CASE text = <<>>
    <3> DEFINE e == <<>>
               b == <<Blank>>
    <3>1. e \in Seq(FileLines) /\ \A i \in 1..Len(e) : e[i] = Blank OBVIOUS
    <3>2. b \in Seq(FileLines) /\ \A i \in 1..Len(b) : b[i] = Blank BY <1>1
    <3>3. base = b BY <2>1
    <3> HIDE DEF e, b, base
    <3>4. Trim(e) = <<>> BY <3>1, TrimEmpty
    <3>5. Trim(b) = <<>> BY <3>2, TrimEmpty
    <3>6. QED BY <2>1, <3>3, <3>4, <3>5 DEF e
  <2>2. CASE text # <<>> BY <2>2
  <2>3. QED BY <2>1, <2>2
<1>5. Carried(text) => \A t \in 1..(m - 1) : ~(base[t] = Separator /\ base[t + 1].kind = "field")
  <2>1. CASE text = <<>>
    <3>1. m = 1 BY <2>1
    <3> HIDE DEF base, m
    <3>2. QED BY <3>1
  <2>2. CASE text # <<>> BY <2>2 DEF Carried
  <2>3. QED BY <2>1, <2>2
<1> HIDE DEF base
<1>6. all \in Seq(FileLines) /\ Len(all) = m + 1 /\ all[m + 1] = Blank /\ \A i \in 1..m : all[i] = base[i]
  BY <1>1, <1>2
<1>7. Trim(all) = Trim(base) BY <1>1, <1>2, TrimBlank
<1>8. BodyText(text) = all BY DEF BodyText, base
<1> HIDE DEF all, m
<1>9. ASSUME Carried(text), NEW t \in 1..m PROVE ~(all[t] = Separator /\ all[t + 1].kind = "field")
  <2>1. CASE t = m BY <1>1, <1>6, <2>1
  <2>2. CASE t # m
    <3>1. t \in 1..(m - 1) /\ t + 1 \in 1..m BY <1>3, <2>2
    <3>2. all[t] = base[t] /\ all[t + 1] = base[t + 1] BY <1>6, <3>1
    <3>3. QED BY <1>5, <1>9, <3>1, <3>2
  <2>3. QED BY <2>1, <2>2
<1>10. m + 1 \in Nat /\ m + 1 > 1 /\ m + 1 - 1 = m BY <1>3
<1>11. Len(all) \in Nat /\ Len(all) > 1 /\ all[Len(all)] = Blank /\ Len(all) - 1 = m BY <1>3, <1>6, <1>10
<1>12. Carried(text) => \A t \in 1..(Len(all) - 1) : ~(all[t] = Separator /\ all[t + 1].kind = "field")
  BY <1>9, <1>11
<1>13. Trim(all) = Trim(text) /\ all \in Seq(FileLines) BY <1>4, <1>6, <1>7
<1> HIDE DEF Carried
<1>14. QED BY <1>8, <1>11, <1>12, <1>13

\* The lines of an entry one by one.
LEMMA EntryLinesAre ==
  ASSUME NEW i \in MemoryIds, NEW row \in MemoryRows
  PROVE  /\ EntryLines(i, row) \in Seq(FileLines)
         /\ Len(EntryLines(i, row)) = 5 + Len(BodyText(row.body))
         /\ EntryLines(i, row)[1] = Separator /\ EntryLines(i, row)[2] = Field("id", i)
         /\ EntryLines(i, row)[3] = Field("name", row.name)
         /\ EntryLines(i, row)[4] = Field("pinned", YesNo(row.pinned))
         /\ EntryLines(i, row)[5] = Separator
         /\ \A t \in 1..Len(BodyText(row.body)) : EntryLines(i, row)[5 + t] = BodyText(row.body)[t]
<1> DEFINE a == Field("id", i)
           b == Field("name", row.name)
           c == Field("pinned", YesNo(row.pinned))
           head == <<Separator, a, b, c, Separator>>
           base == IF row.body = <<>> THEN <<Blank>> ELSE row.body
           text == BodyText(row.body)
<1>1. row.name \in AllNames /\ row.body \in Seq(FileLines) /\ row.pinned \in BOOLEAN BY DEF MemoryRows
<1>2. Separator \in FileLines /\ Blank \in FileLines /\ a \in FileLines /\ b \in FileLines /\ c \in FileLines
  BY <1>1 DEF FileLines
<1>3. base \in Seq(FileLines)
  <2>1. <<Blank>> \in Seq(FileLines) BY <1>2
  <2>2. QED BY <1>1, <2>1
<1> HIDE DEF a, b, c
<1>4. head \in Seq(FileLines) /\ Len(head) = 5 BY <1>2
<1>5. head[1] = Separator /\ head[2] = a /\ head[3] = b /\ head[4] = c /\ head[5] = Separator OBVIOUS
<1>6. EntryLines(i, row) = (head \o base) \o <<Blank>>
  BY DEF EntryLines, formatMemoryEntry, a, b, c
<1>7. text = base \o <<Blank>> BY DEF BodyText
<1> HIDE DEF head, base, text
<1>8. text \in Seq(FileLines) /\ Len(text) = Len(base) + 1 /\ Len(base) \in Nat
      /\ text[Len(base) + 1] = Blank /\ \A t \in 1..Len(base) : text[t] = base[t]
  BY <1>2, <1>3, <1>7
<1> DEFINE hb == head \o base
<1>9. hb \in Seq(FileLines) /\ Len(hb) = 5 + Len(base)
      /\ (\A t \in 1..5 : hb[t] = head[t]) /\ \A t \in 1..Len(base) : hb[5 + t] = base[t]
  <2>1. hb \in Seq(FileLines) /\ Len(hb) = Len(head) + Len(base)
    BY <1>3, <1>4, ConcatProperties
  <2>2. \A x \in 1..(Len(head) + Len(base)) :
          hb[x] = IF x <= Len(head) THEN head[x] ELSE base[x - Len(head)]
    BY <1>3, <1>4, ConcatProperties
  <2>3. Len(base) \in Nat BY <1>3
  <2> HIDE DEF hb
  <2>4. ASSUME NEW t \in 1..5 PROVE hb[t] = head[t]
    <3>1. t \in 1..(Len(head) + Len(base)) /\ t <= Len(head) BY <1>4, <2>3
    <3>2. QED BY <2>2, <3>1
  <2>5. ASSUME NEW t \in 1..Len(base) PROVE hb[5 + t] = base[t]
    <3>1. 5 + t \in 1..(Len(head) + Len(base)) /\ ~(5 + t <= Len(head)) /\ 5 + t - Len(head) = t
      BY <1>4, <2>3
    <3> DEFINE x == 5 + t
    <3> HIDE DEF x
    <3>2. x \in 1..(Len(head) + Len(base)) /\ ~(x <= Len(head)) /\ x - Len(head) = t BY <3>1 DEF x
    <3>3. hb[x] = base[t] BY <2>2, <3>2
    <3>4. QED BY <3>3 DEF x
  <2>6. QED BY <1>4, <2>1, <2>4, <2>5
<1>10. EntryLines(i, row) = hb \o <<Blank>> BY <1>6
<1> HIDE DEF hb
<1> DEFINE all == hb \o <<Blank>>
           n == Len(base)
<1>11. all \in Seq(FileLines) /\ Len(all) = Len(hb) + 1 /\ all[Len(hb) + 1] = Blank
       /\ \A t \in 1..Len(hb) : all[t] = hb[t]
  BY <1>2, <1>9
<1> HIDE DEF all
<1>12. n \in Nat /\ Len(hb) = 5 + n /\ Len(text) = n + 1 BY <1>8, <1>9
<1> HIDE DEF n
<1>13. \A t \in 1..5 : all[t] = head[t]
  <2>1. \A t \in 1..5 : t \in 1..Len(hb) BY <1>12
  <2>2. QED BY <1>9, <1>11, <2>1
<1>14. ASSUME NEW t \in 1..Len(text) PROVE all[5 + t] = text[t]
  <2>1. CASE t = n + 1
    <3>1. 5 + t = Len(hb) + 1 BY <1>12, <2>1
    <3>2. QED BY <1>8, <1>11, <2>1, <3>1 DEF n
  <2>2. CASE t # n + 1
    <3>1. t \in 1..n /\ 5 + t \in 1..Len(hb) BY <1>12, <2>2
    <3>2. QED BY <1>8, <1>9, <1>11, <3>1 DEF n
  <2>3. QED BY <2>1, <2>2
<1>15. Len(all) = 5 + Len(text) BY <1>11, <1>12
<1>16. EntryLines(i, row) = all BY <1>10 DEF all
<1>17. 1 \in 1..5 /\ 2 \in 1..5 /\ 3 \in 1..5 /\ 4 \in 1..5 /\ 5 \in 1..5 OBVIOUS
<1>18. all[1] = Separator /\ all[2] = a /\ all[3] = b /\ all[4] = c /\ all[5] = Separator
  BY <1>5, <1>13, <1>17
<1>19. QED BY <1>11, <1>14, <1>15, <1>16, <1>18 DEF text, a, b, c

\* A row as the file tells it.
EntryTold(i, row) == [id |-> i, name |-> row.name, body |-> Trim(row.body), pinned |-> row.pinned]

\* An entry of the file is read whole, from its first line to where the next one starts.
LEMMA EntryRead ==
  ASSUME NEW file \in Seq(FileLines), NEW p \in Nat, NEW q \in Nat,
         NEW i \in MemoryIds, NEW row \in MemoryRows, Carried(row.body),
         q = p + Len(EntryLines(i, row)), q <= Len(file),
         \A t \in 1..Len(EntryLines(i, row)) : file[p + t] = EntryLines(i, row)[t],
         q = Len(file) \/ EntryStart(file, q + 1)
  PROVE  /\ CloseAt(file, p + 1) <= Len(file) /\ NextAt(file, p + 1) = q + 1
         /\ EntryAt(file, p + 1) = <<EntryTold(i, row)>>
<1> DEFINE n == Len(file)
           text == BodyText(row.body)
           m == Len(text)
           a == Field("id", i)
           b == Field("name", row.name)
           c == Field("pinned", YesNo(row.pinned))
<1>1. row.name \in AllNames /\ row.body \in Seq(FileLines) /\ row.pinned \in BOOLEAN BY DEF MemoryRows
<1>2. /\ text \in Seq(FileLines) /\ m \in Nat /\ m > 1 /\ text[m] = Blank
      /\ Trim(text) = Trim(row.body)
      /\ \A t \in 1..(m - 1) : ~(text[t] = Separator /\ text[t + 1].kind = "field")
  BY <1>1, BodyTextIs
<1>3. Separator # Blank /\ Separator.kind = "---" /\ a.kind = "field" /\ b.kind = "field" /\ c.kind = "field"
  BY DEF Separator, Blank, Field
<1>4. Separator # a /\ Separator # b /\ Separator # c BY <1>3
<1> HIDE DEF text, m, a, b, c
<1>5. Len(EntryLines(i, row)) = 5 + m /\ q = p + 5 + m
  <2>1. Len(EntryLines(i, row)) = 5 + m BY EntryLinesAre DEF m, text
  <2>2. QED BY <1>2, <2>1
<1>6. \A t \in 1..(5 + m) : file[p + t] = EntryLines(i, row)[t] BY <1>5
<1>7. /\ file[p + 1] = Separator /\ file[p + 2] = a /\ file[p + 3] = b
      /\ file[p + 4] = c /\ file[p + 5] = Separator
  <2>1. 1 \in 1..(5 + m) /\ 2 \in 1..(5 + m) /\ 3 \in 1..(5 + m) /\ 4 \in 1..(5 + m) /\ 5 \in 1..(5 + m)
    BY <1>2
  <2>2. /\ EntryLines(i, row)[1] = Separator /\ EntryLines(i, row)[2] = a
        /\ EntryLines(i, row)[3] = b /\ EntryLines(i, row)[4] = c
        /\ EntryLines(i, row)[5] = Separator
    BY EntryLinesAre DEF a, b, c
  <2> DEFINE e == EntryLines(i, row)
  <2> HIDE DEF e
  <2>3. \A t \in 1..(5 + m) : file[p + t] = e[t] BY <1>6 DEF e
  <2>4. /\ file[p + 1] = e[1] /\ file[p + 2] = e[2] /\ file[p + 3] = e[3]
        /\ file[p + 4] = e[4] /\ file[p + 5] = e[5]
    BY <2>1, <2>3
  <2>5. QED BY <2>2, <2>4 DEF e
<1>8. ASSUME NEW t \in 1..m PROVE file[p + 5 + t] = text[t]
  <2>1. 5 + t \in 1..(5 + m) /\ p + (5 + t) = p + 5 + t BY <1>2
  <2>2. file[p + (5 + t)] = EntryLines(i, row)[5 + t] BY <1>6, <2>1
  <2>3. EntryLines(i, row)[5 + t] = text[t] BY EntryLinesAre DEF m, text
  <2>4. QED BY <2>1, <2>2, <2>3
<1>9. n \in Nat /\ q <= n /\ p + 5 < q
  <2>1. n \in Nat /\ q <= n OBVIOUS
  <2>2. QED BY <1>2, <1>5, <2>1
<1>10. OpenAt(file, p + 1) = p + 1
  <2> DEFINE o == SeparatorFrom(file, p + 1)
             p1 == p + 1
  <2>1. p1 \in Nat /\ p1 # 0 /\ p1 \in p1..n BY <1>2, <1>5, <1>9
  <2> HIDE DEF p1
  <2>2. SeparatorFrom(file, p1) <= p1 BY <1>7, <2>1, SeparatorIs DEF p1
  <2>3. SeparatorFrom(file, p1) \in 1..(n + 1) BY <2>1, SeparatorIs
  <2>4. SeparatorFrom(file, p1) <= n BY <1>9, <2>1, <2>2, <2>3
  <2>5. p1 <= SeparatorFrom(file, p1) BY <2>1, <2>4, SeparatorIs
  <2>6. SeparatorFrom(file, p1) = p1 BY <2>1, <2>2, <2>3, <2>5
  <2>7. QED BY <2>6 DEF OpenAt, p1
<1>11. CloseAt(file, p + 1) = p + 5
  <2> DEFINE p2 == p + 2
             p5 == p + 5
             s == SeparatorFrom(file, p2)
  <2>1. p2 \in Nat /\ p2 # 0 /\ p5 \in p2..n /\ p5 \in Nat BY <1>9
  <2>2. file[p5] = Separator /\ file[p2] # Separator BY <1>4, <1>7
  <2>3. p + 1 + 1 = p2 OBVIOUS
  <2>4. \A k \in p2..p5 : k = p5 \/ k = p + 2 \/ k = p + 3 \/ k = p + 4 OBVIOUS
  <2> HIDE DEF p2, p5
  <2>5. s <= p5 /\ s \in 1..(n + 1) BY <2>1, <2>2, SeparatorIs
  <2>6. s <= n BY <1>9, <2>1, <2>5
  <2>7. p2 <= s /\ file[s] = Separator BY <2>1, <2>6, SeparatorIs
  <2>8. s \in p2..p5 BY <2>1, <2>5, <2>7
  <2> HIDE DEF s
  <2>9. s = p5 BY <1>4, <1>7, <2>4, <2>7, <2>8
  <2>10. QED BY <1>10, <2>3, <2>9 DEF CloseAt, s, p5
<1>12. NextAt(file, p + 1) = q + 1
  <2> DEFINE p6 == p + 6
             e == EntryFrom(file, p6)
  <2>1. p6 \in Nat /\ p6 # 0 /\ p + 5 + 1 = p6 OBVIOUS
  <2>2. NextAt(file, p + 1) = e BY <1>11, <2>1 DEF NextAt
  <2>3. ASSUME NEW k \in p6..q PROVE ~EntryStart(file, k)
    <3> DEFINE t == k - (p + 5)
    <3>1. t \in 1..m /\ p + 5 + t = k BY <1>2, <1>5
    <3> HIDE DEF t, p6
    <3>2. file[k] = text[t] BY <1>8, <3>1
    <3>3. CASE t = m BY <1>2, <1>3, <3>2, <3>3 DEF EntryStart
    <3>4. CASE t # m
      <4>1. t \in 1..(m - 1) /\ t + 1 \in 1..m /\ p + 5 + (t + 1) = k + 1 BY <1>2, <3>1, <3>4
      <4>2. file[k + 1] = text[t + 1]
        <5> DEFINE u == t + 1
        <5> HIDE DEF u
        <5>1. u \in 1..m /\ p + 5 + u = k + 1 BY <4>1 DEF u
        <5>2. file[p + 5 + u] = text[u] BY <1>8, <5>1
        <5>3. QED BY <5>1, <5>2 DEF u
      <4>3. QED BY <1>2, <3>2, <4>1, <4>2 DEF EntryStart
    <3>5. QED BY <3>3, <3>4
  <2> HIDE DEF p6
  <2>4. e \in 1..(n + 1) /\ (e <= n => p6 <= e /\ EntryStart(file, e)) BY <2>1, EntryIs
  <2>5. \A k \in p6..n : EntryStart(file, k) => e <= k BY <2>1, EntryIs
  <2> HIDE DEF e
  <2>6. CASE q = n
    <3>1. e <= n => e \in p6..q BY <1>9, <2>1, <2>4, <2>6
    <3>2. ~(e <= n) BY <2>3, <2>4, <3>1
    <3>3. e \in 1..(n + 1) /\ n \in Nat BY <1>9, <2>4
    <3>4. e = n + 1 BY <3>2, <3>3
    <3>5. QED BY <2>2, <2>6, <3>4
  <2>7. CASE q # n /\ EntryStart(file, q + 1)
    <3>1. q + 1 \in p6..n BY <1>9, <2>1, <2>7 DEF p6
    <3>2. e <= q + 1 BY <2>5, <2>7, <3>1
    <3>3. e <= n /\ p6 <= e /\ EntryStart(file, e) BY <1>9, <2>1, <2>4, <3>1, <3>2
    <3>4. e \notin p6..q BY <2>3, <3>3
    <3>5. QED BY <1>9, <2>1, <2>2, <2>4, <3>2, <3>3, <3>4
  <2>8. QED BY <2>6, <2>7
<1>13. EntryAt(file, p + 1) = parseMemoryEntry(SubSeq(file, p + 2, p + 4), SubSeq(file, p + 6, q))
  <2>1. p + 1 + 1 = p + 2 /\ p + 5 - 1 = p + 4 /\ p + 5 + 1 = p + 6 /\ q + 1 - 1 = q OBVIOUS
  <2>2. QED BY <1>10, <1>11, <1>12, <2>1 DEF EntryAt
<1>14. \A k \in 1..n : file[k] \in FileLines OBVIOUS
<1>15. SubSeq(file, p + 2, p + 4) = <<a, b, c>>
  <2> DEFINE u == SubSeq(file, p + 2, p + 4)
             v == <<a, b, c>>
  <2>1. \A k \in (p + 2)..(p + 4) : file[k] \in FileLines BY <1>9, <1>14
  <2>2. u \in Seq(FileLines) /\ Len(u) = 3 /\ \A k \in 1..3 : u[k] = file[p + 2 + k - 1]
    <3>1. p + 2 \in Int /\ p + 4 \in Int /\ p + 2 <= p + 4 /\ p + 4 - (p + 2) + 1 = 3 OBVIOUS
    <3>2. QED BY <2>1, <3>1, SubSeqProperties
  <2>3. a \in FileLines /\ b \in FileLines /\ c \in FileLines BY <1>1 DEF FileLines, a, b, c
  <2>4. v \in Seq(FileLines) /\ Len(v) = 3 /\ v[1] = a /\ v[2] = b /\ v[3] = c BY <2>3
  <2>5. p + 2 + 1 - 1 = p + 2 /\ p + 2 + 2 - 1 = p + 3 /\ p + 2 + 3 - 1 = p + 4 OBVIOUS
  <2> HIDE DEF u, v
  <2>6. u[1] = a /\ u[2] = b /\ u[3] = c BY <1>7, <2>2, <2>5
  <2>7. \A k \in 1..3 : k = 1 \/ k = 2 \/ k = 3 OBVIOUS
  <2>8. \A k \in 1..3 : u[k] = v[k] BY <2>4, <2>6, <2>7
  <2>9. u = v BY <2>2, <2>4, <2>8, SeqEqual
  <2>10. QED BY <2>9 DEF u, v
<1>16. SubSeq(file, p + 6, q) = text
  <2> DEFINE u == SubSeq(file, p + 6, q)
  <2>1. \A k \in (p + 6)..q : file[k] \in FileLines BY <1>9, <1>14
  <2>2. p + 6 \in Int /\ q \in Int /\ p + 6 <= q /\ q - (p + 6) + 1 = m BY <1>2, <1>5
  <2>3. u \in Seq(FileLines) /\ Len(u) = m /\ \A k \in 1..m : u[k] = file[p + 6 + k - 1]
    BY <2>1, <2>2, SubSeqProperties
  <2> HIDE DEF u
  <2>4. ASSUME NEW k \in 1..m PROVE u[k] = text[k]
    <3>1. p + 6 + k - 1 = p + 5 + k BY <1>2
    <3>2. QED BY <1>8, <2>3, <3>1
  <2>5. u = text BY <1>2, <2>3, <2>4, SeqEqual DEF m
  <2>6. QED BY <2>5 DEF u
<1>17. EntryAt(file, p + 1) = <<EntryTold(i, row)>>
  <2>1. EntryAt(file, p + 1) = parseMemoryEntry(<<a, b, c>>, text) BY <1>13, <1>15, <1>16
  <2>2. parseMemoryEntry(<<a, b, c>>, text)
          = <<[id |-> i, name |-> row.name, body |-> Trim(text), pinned |-> row.pinned]>>
    BY <1>1, <1>2, HeadRead DEF a, b, c
  <2>3. QED BY <1>2, <2>1, <2>2 DEF EntryTold
<1>18. CloseAt(file, p + 1) <= n BY <1>9, <1>11
<1>19. QED BY <1>12, <1>17, <1>18

\* The parts of a text each have their place, one after the other.
PlacedIn(o, n, ss, text) ==
  /\ o[0] = 0 /\ o[n] = Len(text)
  /\ \A k \in 1..n :
       /\ o[k] = o[k - 1] + Len(ss[k]) /\ o[k] <= o[n]
       /\ \A j \in 1..Len(ss[k]) : text[o[k - 1] + j] = ss[k][j]

\* So they have in a sequence flattened.
LEMMA FlattenPlaces ==
  ASSUME NEW S, NEW n \in Nat, NEW ss \in [1..n -> Seq(S)]
  PROVE  /\ FlattenSeq(ss) \in Seq(S)
         /\ \E o \in [0..n -> Nat] : PlacedIn(o, n, ss, FlattenSeq(ss))
<1> DEFINE pre(m) == [k \in 1..m |-> ss[k]]
           flat(m) == FlattenSeq(pre(m))
           o == [m \in 0..n |-> Len(flat(m))]
<1>1. ASSUME NEW m \in 0..n PROVE pre(m) \in Seq(Seq(S)) /\ Len(pre(m)) = m /\ flat(m) \in Seq(S)
  <2>1. m \in Nat /\ \A k \in 1..m : k \in 1..n OBVIOUS
  <2>2. pre(m) \in Seq(Seq(S)) /\ Len(pre(m)) = m BY <2>1
  <2> HIDE DEF pre
  <2>3. <<>> \in Seq(S) OBVIOUS
  <2>4. flat(m) \in Seq(S) BY <2>2, <2>3, FlattenAppended
  <2>5. QED BY <2>2, <2>4
<1>2. ASSUME NEW m \in 0..n, m # 0 PROVE flat(m) = flat(m - 1) \o ss[m]
  <2>1. m - 1 \in 0..n /\ m \in 1..n BY <1>2
  <2>2. pre(m - 1) \in Seq(Seq(S)) /\ Len(pre(m - 1)) = m - 1 BY <1>1, <2>1
  <2>3. ss[m] \in Seq(S) BY <2>1
  <2> DEFINE u == Append(pre(m - 1), ss[m])
             v == pre(m)
  <2>4. u \in Seq(Seq(S)) /\ Len(u) = m /\ u[m] = ss[m] /\ \A k \in 1..(m - 1) : u[k] = pre(m - 1)[k]
    <3> HIDE DEF pre
    <3>1. QED BY <1>2, <2>2, <2>3
  <2>5. \A k \in 1..(m - 1) : pre(m - 1)[k] = ss[k] OBVIOUS
  <2>6. v \in Seq(Seq(S)) /\ Len(v) = m BY <1>1
  <2>7. \A k \in 1..m : v[k] = ss[k] OBVIOUS
  <2>8. \A k \in 1..m : k = m \/ k \in 1..(m - 1) OBVIOUS
  <2> HIDE DEF u, v, pre
  <2>9. \A k \in 1..m : u[k] = v[k] BY <2>4, <2>5, <2>7, <2>8
  <2>10. u = v BY <2>4, <2>6, <2>9, SeqEqual
  <2>11. FlattenSeq(u) = flat(m - 1) \o ss[m] BY <2>2, <2>3, FlattenAppended DEF u
  <2>12. QED BY <2>10, <2>11 DEF v
<1>3. flat(0) = <<>>
  <2>1. Len(pre(0)) = 0 /\ pre(0) \in Seq(Seq(S)) BY <1>1
  <2> HIDE DEF pre
  <2>2. pre(0) = <<>> BY <2>1
  <2>3. QED BY <2>1, <2>2 DEF FlattenSeq
<1>4. pre(n) = ss OBVIOUS
<1>5. \A k \in 1..n : ss[k] \in Seq(S) OBVIOUS
<1> HIDE DEF pre, flat
<1>6. o \in [0..n -> Nat]
  <2>1. \A m \in 0..n : Len(flat(m)) \in Nat BY <1>1
  <2>2. QED BY <2>1
<1>7. o[0] = 0 /\ \A m \in 0..n : o[m] = Len(flat(m))
  <2>1. 0 \in 0..n /\ Len(<<>>) = 0 OBVIOUS
  <2>2. QED BY <1>3, <2>1
<1> HIDE DEF o
<1>8. ASSUME NEW k \in 1..n
      PROVE  /\ k - 1 \in 0..n /\ k \in 0..n /\ Len(ss[k]) \in Nat /\ o[k] = o[k - 1] + Len(ss[k])
             /\ \A x \in 1..o[k - 1] : flat(k)[x] = flat(k - 1)[x]
             /\ \A j \in 1..Len(ss[k]) : flat(k)[o[k - 1] + j] = ss[k][j]
  <2>1. k - 1 \in 0..n /\ k \in 0..n /\ k # 0 OBVIOUS
  <2> DEFINE a == flat(k - 1)
             b == ss[k]
             c == flat(k)
             m == o[k - 1]
  <2>2. a \in Seq(S) /\ b \in Seq(S) BY <1>1, <1>5, <2>1
  <2>3. c = a \o b /\ m = Len(a) /\ o[k] = Len(c) BY <1>2, <1>7, <2>1
  <2> HIDE DEF a, b, c, m
  <2>4. Len(a) \in Nat /\ Len(b) \in Nat BY <2>2
  <2>5. Len(c) = Len(a) + Len(b) /\ \A x \in 1..(Len(a) + Len(b)) :
          c[x] = IF x <= Len(a) THEN a[x] ELSE b[x - Len(a)]
    BY <2>2, <2>3, ConcatProperties
  <2>6. \A x \in 1..m : c[x] = a[x] BY <2>3, <2>4, <2>5
  <2>7. ASSUME NEW j \in 1..Len(b) PROVE c[m + j] = b[j]
    <3> DEFINE x == m + j
    <3>1. x \in 1..(Len(a) + Len(b)) /\ ~(x <= Len(a)) /\ x - Len(a) = j BY <2>3, <2>4
    <3> HIDE DEF x
    <3>2. c[x] = b[j] BY <2>5, <3>1
    <3>3. QED BY <3>2 DEF x
  <2>8. QED BY <2>1, <2>3, <2>4, <2>5, <2>6, <2>7 DEF a, b, c, m
<1> DEFINE InPlace(m) == \A k \in 1..m : /\ o[k] <= o[m]
                                      /\ \A j \in 1..Len(ss[k]) : flat(m)[o[k - 1] + j] = ss[k][j]
           Bad == {m \in 0..n : ~InPlace(m)}
<1>9. Bad = {}
  <2>1. SUFFICES ASSUME Bad # {} PROVE FALSE OBVIOUS
  <2>2. PICK m \in Bad : \A k \in Bad : m <= k
    <3>1. Bad \in SUBSET Nat OBVIOUS
    <3> HIDE DEF Bad
    <3>2. QED BY <2>1, <3>1, HasMin
  <2>3. m \in 0..n /\ ~InPlace(m) BY <2>2
  <2>4. CASE m = 0
    <3>1. \A k \in 1..m : FALSE BY <2>4
    <3>2. InPlace(m) BY <3>1
    <3>3. QED BY <2>3, <3>2
  <2>5. CASE m # 0
    <3>1. m \in 1..n /\ m - 1 \in 0..n /\ ~(m <= m - 1) BY <2>3, <2>5
    <3>2. m - 1 \notin Bad
      <4> HIDE DEF Bad
      <4>1. QED BY <2>2, <3>1
    <3>3. InPlace(m - 1) BY <3>1, <3>2
    <3>4. /\ o[m] \in Nat /\ o[m - 1] \in Nat /\ Len(ss[m]) \in Nat /\ o[m] = o[m - 1] + Len(ss[m])
          /\ \A x \in 1..o[m - 1] : flat(m)[x] = flat(m - 1)[x]
          /\ \A j \in 1..Len(ss[m]) : flat(m)[o[m - 1] + j] = ss[m][j]
      BY <1>6, <1>8, <2>3, <3>1
    <3>5. ASSUME NEW k \in 1..m
          PROVE  o[k] <= o[m] /\ \A j \in 1..Len(ss[k]) : flat(m)[o[k - 1] + j] = ss[k][j]
      <4>1. CASE k = m BY <3>4, <4>1
      <4>2. CASE k # m
        <5>1. k \in 1..(m - 1) /\ k \in 1..n /\ k - 1 \in 0..n BY <3>1, <4>2
        <5>2. o[k] <= o[m - 1] /\ \A j \in 1..Len(ss[k]) : flat(m - 1)[o[k - 1] + j] = ss[k][j]
          BY <3>3, <5>1
        <5>3. o[k] \in Nat /\ o[k - 1] \in Nat /\ Len(ss[k]) \in Nat /\ o[k] = o[k - 1] + Len(ss[k])
          BY <1>6, <1>8, <5>1
        <5>4. o[k] <= o[m] BY <3>4, <5>2, <5>3
        <5>5. ASSUME NEW j \in 1..Len(ss[k]) PROVE flat(m)[o[k - 1] + j] = ss[k][j]
          <6> DEFINE x == o[k - 1] + j
          <6>1. x \in 1..o[m - 1]
            <7> DEFINE a == o[k - 1]
                       b == Len(ss[k])
                       c == o[k]
                       d == o[m - 1]
            <7>1. a \in Nat /\ b \in Nat /\ c = a + b /\ d \in Nat /\ c <= d /\ j \in 1..b
              BY <3>4, <5>2, <5>3
            <7> HIDE DEF a, b, c, d
            <7>2. a + j \in 1..d BY <7>1
            <7>3. QED BY <7>2 DEF a, d
          <6>2. flat(m - 1)[x] = ss[k][j] BY <5>2
          <6> HIDE DEF x
          <6>3. flat(m)[x] = flat(m - 1)[x] BY <3>4, <6>1
          <6>4. QED BY <6>2, <6>3 DEF x
        <5>6. QED BY <5>4, <5>5
      <4>3. QED BY <4>1, <4>2
    <3>6. InPlace(m) BY <3>5
    <3>7. QED BY <2>3, <3>6
  <2>6. QED BY <2>4, <2>5
<1>10. n \in 0..n OBVIOUS
<1>11. InPlace(n) BY <1>9, <1>10
<1>12. flat(n) = FlattenSeq(ss) BY <1>4 DEF flat
<1>13. ASSUME NEW k \in 1..n
       PROVE  /\ o[k] = o[k - 1] + Len(ss[k]) /\ o[k] <= o[n]
              /\ \A j \in 1..Len(ss[k]) : FlattenSeq(ss)[o[k - 1] + j] = ss[k][j]
  BY <1>8, <1>11, <1>12
<1>14. FlattenSeq(ss) \in Seq(S) BY <1>1, <1>10, <1>12
<1>15. o[n] = Len(FlattenSeq(ss)) BY <1>7, <1>10, <1>12
<1>16. PlacedIn(o, n, ss, FlattenSeq(ss)) BY <1>7, <1>13, <1>15 DEF PlacedIn
<1>17. QED BY <1>6, <1>14, <1>16

\* The members of a sequence that is another with one put before it.
LEMMA RangePut ==
  ASSUME NEW S, NEW x \in S, NEW s \in Seq(S)
  PROVE  Range(<<x>> \o s) = {x} \cup Range(s)
<1> DEFINE a == <<x>>
           c == a \o s
           n == Len(s)
<1>1. a \in Seq(S) /\ Len(a) = 1 /\ a[1] = x /\ n \in Nat OBVIOUS
<1> HIDE DEF a
<1>2. c \in Seq(S) /\ Len(c) = 1 + n /\ \A k \in 1..(1 + n) : c[k] = IF k <= 1 THEN a[k] ELSE s[k - 1]
  <2>1. /\ c \in Seq(S) /\ Len(c) = Len(a) + Len(s)
        /\ \A k \in 1..(Len(a) + Len(s)) : c[k] = IF k <= Len(a) THEN a[k] ELSE s[k - Len(a)]
    BY <1>1, ConcatProperties
  <2> HIDE DEF c
  <2>2. QED BY <1>1, <2>1
<1>3. DOMAIN c = 1..(1 + n) /\ DOMAIN s = 1..n BY <1>1, <1>2
<1> HIDE DEF c, n
<1>4. ASSUME NEW y \in Range(c) PROVE y = x \/ y \in Range(s)
  <2>1. PICK k \in 1..(1 + n) : y = c[k] BY <1>3, <1>4 DEF Range
  <2>2. CASE k = 1 BY <1>1, <1>2, <2>1, <2>2
  <2>3. CASE k # 1
    <3>1. k - 1 \in 1..n /\ ~(k <= 1) BY <1>1, <2>3
    <3>2. y = s[k - 1] BY <1>2, <2>1, <3>1
    <3>3. QED BY <1>3, <3>1, <3>2 DEF Range
  <2>4. QED BY <2>2, <2>3
<1>5. x \in Range(c)
  <2>1. 1 \in 1..(1 + n) /\ 1 <= 1 BY <1>1
  <2>2. c[1] = x BY <1>1, <1>2, <2>1
  <2>3. QED BY <1>3, <2>1, <2>2 DEF Range
<1>6. ASSUME NEW y \in Range(s) PROVE y \in Range(c)
  <2>1. PICK k \in 1..n : y = s[k] BY <1>3, <1>6 DEF Range
  <2> DEFINE m == k + 1
  <2>2. m \in 1..(1 + n) /\ ~(m <= 1) /\ m - 1 = k BY <1>1
  <2> HIDE DEF m
  <2>3. c[m] = y BY <1>2, <2>1, <2>2
  <2>4. QED BY <1>3, <2>2, <2>3 DEF Range
<1>7. QED BY <1>4, <1>5, <1>6 DEF c, a

\* The file that is written of rows is read back as these rows.
LEMMA FileRead ==
  ASSUME NEW n \in Nat, NEW ids \in [1..n -> MemoryIds], NEW recs \in [1..n -> MemoryRows],
         NEW file, file = FlattenSeq([k \in 1..n |-> EntryLines(ids[k], recs[k])])
  PROVE  /\ file \in Seq(FileLines)
         /\ (\A k \in 1..n : Carried(recs[k].body)) =>
              Range(parseMemoryFile(file)) = {EntryTold(ids[k], recs[k]) : k \in 1..n}
<1> DEFINE ss == [k \in 1..n |-> EntryLines(ids[k], recs[k])]
<1>1. \A k \in 1..n : ids[k] \in MemoryIds /\ recs[k] \in MemoryRows OBVIOUS
<1>2. \A k \in 1..n : EntryLines(ids[k], recs[k]) \in Seq(FileLines) BY <1>1, EntryLinesAre
<1>3. ss \in [1..n -> Seq(FileLines)] /\ \A k \in 1..n : ss[k] = EntryLines(ids[k], recs[k]) BY <1>2
<1>4. file = FlattenSeq(ss) OBVIOUS
<1> HIDE DEF ss
<1>5. file \in Seq(FileLines) BY <1>3, <1>4, FlattenPlaces
<1>6. PICK o \in [0..n -> Nat] :
        /\ o[0] = 0 /\ o[n] = Len(file)
        /\ \A k \in 1..n : /\ o[k] = o[k - 1] + Len(ss[k]) /\ o[k] <= o[n]
                           /\ \A j \in 1..Len(ss[k]) : file[o[k - 1] + j] = ss[k][j]
  <2>1. PICK o \in [0..n -> Nat] : PlacedIn(o, n, ss, file) BY <1>3, <1>4, FlattenPlaces
  <2>2. QED BY <2>1 DEF PlacedIn
<1> SUFFICES ASSUME \A k \in 1..n : Carried(recs[k].body)
             PROVE  Range(parseMemoryFile(file)) = {EntryTold(ids[k], recs[k]) : k \in 1..n}
  BY <1>5
<1> DEFINE N == Len(file)
<1>7. PICK f \in [1..(N + 1) -> Seq(Parseds)] :
        /\ parseMemoryFile(file) = f[1]
        /\ \A i \in 1..(N + 1) :
             f[i] = IF CloseAt(file, i) > N THEN <<>> ELSE EntryAt(file, i) \o f[NextAt(file, i)]
  BY <1>5, ParseIs
<1>8. N \in Nat BY <1>5
<1>9. \A m \in 0..n : o[m] \in Nat /\ o[m] <= N /\ o[m] + 1 \in 1..(N + 1)
  <2>1. ASSUME NEW m \in 0..n PROVE o[m] \in Nat /\ o[m] <= N
    <3>1. CASE m = 0 BY <1>6, <1>8, <3>1
    <3>2. CASE m # 0
      <4>1. m \in 1..n BY <3>2
      <4>2. QED BY <1>6, <4>1
    <3>3. QED BY <3>1, <3>2
  <2>2. QED BY <1>8, <2>1
<1>10. ASSUME NEW k \in 1..n
       PROVE  /\ Len(ss[k]) \in Nat /\ Len(ss[k]) > 6 /\ ss[k][1] = Separator
              /\ ss[k][2].kind = "field"
  <2>1. ids[k] \in MemoryIds /\ recs[k] \in MemoryRows /\ recs[k].body \in Seq(FileLines)
    BY <1>1 DEF MemoryRows
  <2>2. Len(BodyText(recs[k].body)) \in Nat /\ Len(BodyText(recs[k].body)) > 1 BY <2>1, BodyTextIs
  <2>3. /\ Len(ss[k]) = 5 + Len(BodyText(recs[k].body)) /\ ss[k][1] = Separator
        /\ ss[k][2] = Field("id", ids[k])
    BY <1>3, <2>1, EntryLinesAre
  <2>4. Field("id", ids[k]).kind = "field" BY DEF Field
  <2>5. QED BY <2>2, <2>3, <2>4
<1>11. ASSUME NEW k \in 1..n
       PROVE  f[o[k - 1] + 1] = <<EntryTold(ids[k], recs[k])>> \o f[o[k] + 1]
  <2> DEFINE p == o[k - 1]
             q == o[k]
  <2>1. k - 1 \in 0..n /\ k \in 0..n OBVIOUS
  <2>2. p \in Nat /\ q \in Nat /\ q <= N /\ p + 1 \in 1..(N + 1) BY <1>9, <2>1
  <2>3. q = p + Len(ss[k]) /\ \A j \in 1..Len(ss[k]) : file[p + j] = ss[k][j] BY <1>6
  <2>4. q = N \/ EntryStart(file, q + 1)
    <3>1. CASE k = n BY <1>6, <3>1
    <3>2. CASE k # n
      <4> DEFINE l == k + 1
      <4>1. l \in 1..n /\ l \in 0..n /\ l - 1 = k BY <3>2
      <4> HIDE DEF l
      <4>2. o[l] = q + Len(ss[l]) /\ o[l] <= N /\ \A j \in 1..Len(ss[l]) : file[q + j] = ss[l][j]
        BY <1>6, <4>1
      <4>3. Len(ss[l]) \in Nat /\ Len(ss[l]) > 6 /\ ss[l][1] = Separator /\ ss[l][2].kind = "field"
        BY <1>10, <4>1
      <4> HIDE DEF q
      <4>4. 1 \in 1..Len(ss[l]) /\ 2 \in 1..Len(ss[l]) BY <4>3
      <4>5. file[q + 1] = Separator /\ file[q + 2].kind = "field" BY <4>2, <4>3, <4>4
      <4>6. q + 1 < N /\ q + 1 + 1 = q + 2 BY <1>8, <2>2, <4>2, <4>3
      <4>7. QED BY <4>5, <4>6 DEF EntryStart
    <3>3. QED BY <3>1, <3>2
  <2>5. ids[k] \in MemoryIds /\ recs[k] \in MemoryRows /\ Carried(recs[k].body)
        /\ ss[k] = EntryLines(ids[k], recs[k])
    BY <1>1, <1>3
  <2> HIDE DEF p, q
  <2>6. /\ CloseAt(file, p + 1) <= N /\ NextAt(file, p + 1) = q + 1
        /\ EntryAt(file, p + 1) = <<EntryTold(ids[k], recs[k])>>
    BY <1>5, <2>2, <2>3, <2>4, <2>5, EntryRead
  <2>7. CloseAt(file, p + 1) \in 1..(N + 1) BY <1>5, <2>2, GoesOn
  <2> DEFINE x == p + 1
             C == CloseAt(file, x)
  <2>8. ~(C > N)
    <3> HIDE DEF N
    <3>1. C <= N /\ C \in 1..(N + 1) BY <2>6, <2>7
    <3> HIDE DEF C
    <3>2. QED BY <1>8, <3>1
  <2>9. x \in 1..(N + 1) BY <2>2
  <2> HIDE DEF x, C
  <2>10. f[x] = EntryAt(file, x) \o f[NextAt(file, x)] BY <1>7, <2>8, <2>9 DEF C
  <2>11. QED BY <2>6, <2>10 DEF x, p, q
<1>12. f[o[n] + 1] = <<>>
  <2> DEFINE x == N + 1
             C == CloseAt(file, x)
             O == OpenAt(file, x)
  <2>1. x \in 1..(N + 1) BY <1>8
  <2>2. O \in 1..(N + 1) /\ C \in 1..(N + 1) /\ (C <= N => x <= O /\ O < C) BY <1>5, <2>1, GoesOn
  <2> HIDE DEF N, O, C
  <2>3. C > N BY <1>8, <2>1, <2>2
  <2>4. f[x] = <<>>
    <3> HIDE DEF x
    <3>1. QED BY <1>7, <2>1, <2>3 DEF C
  <2>5. o[n] + 1 = x BY <1>6 DEF N
  <2>6. QED BY <2>4, <2>5
<1>13. \A m \in 0..n : f[o[m] + 1] \in Seq(Parseds) BY <1>7, <1>9
<1> HIDE DEF N
<1> DEFINE Rest(m) == {EntryTold(ids[k], recs[k]) : k \in (m + 1)..n}
           G(m) == Range(f[o[m] + 1]) = Rest(m)
           Bad == {d \in 0..n : ~G(n - d)}
<1>14. G(n)
  <2>1. (n + 1)..n = {} OBVIOUS
  <2>2. Rest(n) = {} BY <2>1
  <2>3. Range(<<>>) = {} BY DEF Range
  <2>4. QED BY <1>12, <2>2, <2>3
<1>15. ASSUME NEW k \in 1..n, G(k) PROVE G(k - 1)
  <2> DEFINE t == EntryTold(ids[k], recs[k])
             s == f[o[k] + 1]
  <2>1. k \in 0..n /\ k - 1 \in 0..n /\ k - 1 + 1 = k OBVIOUS
  <2>2. s \in Seq(Parseds) BY <1>13, <2>1
  <2>3. t \in Parseds
    <3>1. ids[k] \in MemoryIds /\ recs[k].name \in AllNames /\ recs[k].pinned \in BOOLEAN
          /\ recs[k].body \in Seq(FileLines)
      BY <1>1 DEF MemoryRows
    <3>2. Trim(recs[k].body) \in Seq(FileLines) BY <3>1, TrimStays
    <3>3. QED BY <3>1, <3>2 DEF EntryTold, Parseds
  <2>4. f[o[k - 1] + 1] = <<t>> \o s BY <1>11
  <2>5. Rest(k - 1) = {t} \cup Rest(k)
    <3>1. \A l \in k..n : l = k \/ l \in (k + 1)..n OBVIOUS
    <3>2. \A l \in (k + 1)..n : l \in k..n OBVIOUS
    <3>3. k \in k..n OBVIOUS
    <3>4. Rest(k - 1) = {EntryTold(ids[l], recs[l]) : l \in k..n} BY <2>1
    <3>5. QED BY <3>1, <3>2, <3>3, <3>4
  <2> HIDE DEF t, s, Rest
  <2>6. Range(<<t>> \o s) = {t} \cup Range(s) BY <2>2, <2>3, RangePut
  <2>7. Range(s) = Rest(k) BY <1>15 DEF s
  <2>8. QED BY <2>4, <2>5, <2>6, <2>7
<1>16. Bad = {}
  <2> HIDE DEF G
  <2>1. SUFFICES ASSUME Bad # {} PROVE FALSE OBVIOUS
  <2>2. PICK d \in Bad : \A e \in Bad : d <= e
    <3>1. Bad \in SUBSET Nat OBVIOUS
    <3> HIDE DEF Bad
    <3>2. QED BY <2>1, <3>1, HasMin
  <2>3. d \in 0..n /\ ~G(n - d) BY <2>2
  <2>4. d # 0
    <3>1. d = 0 => n - d = n OBVIOUS
    <3>2. QED BY <1>14, <2>3, <3>1
  <2> DEFINE k == n - (d - 1)
  <2>5. d - 1 \in 0..n /\ ~(d <= d - 1) /\ k \in 1..n /\ k - 1 = n - d BY <2>3, <2>4
  <2>6. d - 1 \notin Bad
    <3> HIDE DEF Bad
    <3>1. QED BY <2>2, <2>5
  <2>7. G(k) BY <2>5, <2>6
  <2> HIDE DEF k
  <2>8. G(k - 1) BY <1>15, <2>5, <2>7
  <2>9. QED BY <2>3, <2>5, <2>8
<1>17. G(0)
  <2> HIDE DEF G
  <2>1. n \in 0..n /\ n - n = 0 OBVIOUS
  <2>2. G(n - n) BY <1>16, <2>1
  <2>3. QED BY <2>1, <2>2
<1>18. o[0] + 1 = 1 /\ Rest(0) = {EntryTold(ids[k], recs[k]) : k \in 1..n} BY <1>6
<1>19. QED BY <1>7, <1>17, <1>18

\* The rows there are.
RowsTyped ==
  /\ IsFiniteSet(DOMAIN memories) /\ DOMAIN memories \in SUBSET MemoryIds
  /\ memories \in [DOMAIN memories -> MemoryRows]

\* What buildBlock has made of some of the memories.
Blocks == [ids : Seq(DOMAIN memories), tokens : Nat, full : BOOLEAN]

\* One memory more in a block.
LEMMA PutStays ==
  ASSUME RowsTyped, NEW block \in Blocks, NEW i \in DOMAIN memories
  PROVE  PutInBlock(block, i) \in Blocks /\ Tokens(i) \in Nat /\ memories[i].pinned \in BOOLEAN
<1>1. memories[i] \in MemoryRows BY DEF RowsTyped
<1>2. memories[i].body \in Seq(FileLines) /\ memories[i].pinned \in BOOLEAN BY <1>1 DEF MemoryRows
<1>3. Len(memories[i].body) \in Nat BY <1>2
<1>4. Tokens(i) \in Nat BY <1>3 DEF Tokens
<1>5. block.ids \in Seq(DOMAIN memories) /\ block.tokens \in Nat /\ block.full \in BOOLEAN BY DEF Blocks
<1>6. Append(block.ids, i) \in Seq(DOMAIN memories) BY <1>5
<1>7. block.tokens + Tokens(i) \in Nat BY <1>4, <1>5
<1>8. PutInBlock(block, i) \in Blocks BY <1>5, <1>6, <1>7 DEF PutInBlock, Blocks
<1>9. QED BY <1>2, <1>4, <1>8

\* buildBlock by its steps.
LEMMA BlockInSteps ==
  ASSUME RowsTyped, NEW order \in Seq(DOMAIN memories)
  PROVE  \E h \in [0..Len(order) -> Blocks] :
           /\ h[0] = [ids |-> <<>>, tokens |-> 0, full |-> FALSE]
           /\ \A i \in 1..Len(order) : h[i] = PutInBlock(h[i - 1], order[i])
           /\ buildBlock(order) = h[Len(order)]
<1> DEFINE n == Len(order)
           base == [ids |-> <<>>, tokens |-> 0, full |-> FALSE]
           f == [x \in Blocks \X (1..n) |-> PutInBlock(x[1], order[x[2]])]
           Body(g, s) == IF s = {} THEN base ELSE PutInBlock(g[s \ {Max(s)}], order[Max(s)])
           Recurs(g) == g = [s \in SUBSET (1..n) |-> Body(g, s)]
           iter == CHOOSE g : Recurs(g)
<1>1. n \in Nat /\ DOMAIN order = 1..n /\ \A i \in 1..n : order[i] \in DOMAIN memories OBVIOUS
<1>2. buildBlock(order) = iter[1..n]
  <2>1. DOMAIN order = 1..n BY <1>1
  <2> HIDE DEF n
  <2>2. buildBlock(order) = FoldLeft(PutInBlock, base, order) BY DEF buildBlock
  <2>3. FoldLeft(PutInBlock, base, order) = iter[DOMAIN order]
    <3> HIDE DEF base
    <3>1. QED BY <2>1 DEF FoldLeft, MapThenFoldSet
  <2>4. QED BY <2>1, <2>2, <2>3
<1>3. base \in Blocks
  <2>1. <<>> \in Seq(DOMAIN memories) OBVIOUS
  <2>2. QED BY <2>1 DEF Blocks
<1>4. \A a \in Blocks, i \in 1..n : PutInBlock(a, order[i]) \in Blocks BY <1>1, PutStays
<1>5. f \in [Blocks \X (1..n) -> Blocks] BY <1>4
<1> HIDE DEF n, base
<1>6. PICK g : g \in [SUBSET (1..n) -> Blocks] /\ \A s \in SUBSET (1..n) : g[s] = FoldStep(g, f, base, s)
  <2>1. Folding(n, Blocks, f, base) BY <1>1, <1>3, <1>5 DEF Folding
  <2>2. PICK g : Folds(n, Blocks, f, base, g)
    <3> HIDE DEF f
    <3>1. QED BY <2>1, FoldThere, Zenon
  <2>3. QED BY <2>2 DEF Folds
<1>7. ASSUME NEW s \in SUBSET (1..n), s # {} PROVE Max(s) \in 1..n /\ s \ {Max(s)} \in SUBSET (1..n)
  <2>1. IsFiniteSet(1..n) BY <1>1, FS_Interval
  <2>2. IsFiniteSet(s)
    <3> DEFINE N == 1..n
    <3>1. s \in SUBSET N /\ IsFiniteSet(N) BY <2>1
    <3> HIDE DEF N
    <3>2. QED BY <3>1, FS_Subset
  <2>3. s \in SUBSET Int OBVIOUS
  <2>4. Max(s) \in s BY <1>7, <2>2, <2>3, HasMax
  <2>5. QED BY <2>4
<1>8. Recurs(g)
  <2>1. ASSUME NEW s \in SUBSET (1..n) PROVE g[s] = Body(g, s)
    <3>1. CASE s = {} BY <1>6, <3>1 DEF FoldStep
    <3>2. CASE s # {}
      <4>1. g[s \ {Max(s)}] \in Blocks /\ Max(s) \in 1..n BY <1>6, <1>7, <3>2
      <4>2. f[<<g[s \ {Max(s)}], Max(s)>>] = PutInBlock(g[s \ {Max(s)}], order[Max(s)]) BY <4>1
      <4>3. QED BY <1>6, <3>2, <4>2 DEF FoldStep
    <3>3. QED BY <3>1, <3>2
  <2> DEFINE k == [s \in SUBSET (1..n) |-> Body(g, s)]
  <2>2. \A s \in SUBSET (1..n) : k[s] = g[s] BY <2>1
  <2>3. g = [s \in SUBSET (1..n) |-> g[s]] /\ k = [s \in SUBSET (1..n) |-> k[s]] BY <1>6
  <2>4. g = k
    <3> HIDE DEF k
    <3>1. QED BY <2>2, <2>3
  <2>5. QED BY <2>4
<1>9. Recurs(iter)
  <2> HIDE DEF Body
  <2>1. QED BY <1>8
<1>10. \A s \in SUBSET (1..n) : iter[s] = Body(iter, s)
  <2> HIDE DEF iter, Body
  <2>1. QED BY <1>9
<1> HIDE DEF iter
<1>11. iter[{}] = base BY <1>10
<1>12. ASSUME NEW i \in 1..n PROVE iter[1..i] = PutInBlock(iter[1..(i - 1)], order[i])
  <2>1. i \in Nat /\ i # 0 /\ 1..i \in SUBSET (1..n) BY <1>1
  <2>2. Max(1..i) = i /\ (1..i) \ {i} = 1..(i - 1) /\ 1..i # {} BY <2>1, MaxOfRange
  <2>3. iter[1..i] = Body(iter, 1..i) BY <1>10, <2>1
  <2>4. QED BY <2>2, <2>3
<1> DEFINE h == [i \in 0..n |-> iter[1..i]]
<1>13. h[0] = base /\ \A i \in 1..n : h[i] = PutInBlock(h[i - 1], order[i])
  <2>1. 1..0 = {} /\ 0 \in 0..n BY <1>1
  <2>2. h[0] = base BY <1>11, <2>1
  <2>3. ASSUME NEW i \in 1..n PROVE h[i] = PutInBlock(h[i - 1], order[i])
    <3>1. i \in 0..n /\ i - 1 \in 0..n BY <1>1
    <3>2. QED BY <1>12, <3>1
  <2>4. QED BY <2>2, <2>3
<1>14. buildBlock(order) = h[n]
  <2>1. n \in 0..n BY <1>1
  <2>2. QED BY <1>2, <2>1
<1> HIDE DEF h
<1>15. \A i \in 0..n : h[i] \in Blocks
  <2> DEFINE Bad == {i \in 0..n : h[i] \notin Blocks}
  <2>1. SUFFICES ASSUME Bad # {} PROVE FALSE OBVIOUS
  <2>2. PICK i \in Bad : \A k \in Bad : i <= k
    <3>1. Bad \in SUBSET Nat BY <1>1
    <3> HIDE DEF Bad
    <3>2. QED BY <2>1, <3>1, HasMin
  <2>3. i \in 0..n /\ h[i] \notin Blocks BY <2>2
  <2>4. i # 0 BY <1>3, <1>13, <2>3
  <2>5. i \in 1..n /\ i - 1 \in 0..n /\ ~(i <= i - 1) BY <1>1, <2>3, <2>4
  <2>6. h[i - 1] \in Blocks BY <2>2, <2>5
  <2>7. h[i] \in Blocks BY <1>4, <1>13, <2>5, <2>6
  <2>8. QED BY <2>3, <2>7
<1>16. h \in [0..n -> Blocks]
  <2>1. h = [i \in 0..n |-> h[i]] BY DEF h
  <2>2. QED BY <1>15, <2>1
<1>17. QED BY <1>13, <1>14, <1>16 DEF n, base

\* An order of the rows has each once, the pinned first and then the latest.
RowsInOrder(order, n) ==
  /\ n \in Nat /\ order \in [1..n -> DOMAIN memories]
  /\ order \in Seq(DOMAIN memories) /\ Len(order) = n
  /\ \A i \in DOMAIN memories : \E k \in 1..n : order[k] = i
  /\ \A k, l \in 1..n : k < l =>
       /\ memories[order[l]].pinned => memories[order[k]].pinned
       /\ memories[order[l]].pinned = memories[order[k]].pinned =>
            memories[order[k]].at >= memories[order[l]].at

\* Such are the orders of listByUser.
LEMMA ListInOrder ==
  ASSUME RowsTyped, NEW order \in listByUser
  PROVE  RowsInOrder(order, Cardinality(DOMAIN memories))
<1> DEFINE D == DOMAIN memories
           n == Cardinality(D)
<1>1. n \in Nat BY FS_CardinalityType DEF RowsTyped
<1>2. order \in [1..n -> D] /\ IsInjective(order) /\ \A k, l \in 1..n : k < l => ~Precedes(order[l], order[k])
  BY DEF listByUser
<1>3. order \in Seq(D) /\ Len(order) = n BY <1>1, <1>2
<1>4. \A i \in D : \E k \in 1..n : order[k] = i
  <2> DEFINE N == 1..n
  <2>1. IsFiniteSet(N) /\ Cardinality(N) = n BY <1>1, FS_Interval
  <2>2. order \in [N -> D] /\ IsInjective(order) /\ IsFiniteSet(D) BY <1>2 DEF RowsTyped
  <2>3. Cardinality(N) = Cardinality(D) BY <2>1
  <2> HIDE DEF N, D, n
  <2>4. order \in Injection(N, D) BY <2>2 DEF Injection
  <2>5. order \in Surjection(N, D) BY <2>2, <2>3, <2>4, FS_Injection
  <2>6. \A i \in D : \E k \in N : order[k] = i BY <2>5 DEF Surjection
  <2>7. QED BY <2>6 DEF N
<1>5. ASSUME NEW k \in 1..n, NEW l \in 1..n, k < l
      PROVE  /\ memories[order[l]].pinned => memories[order[k]].pinned
             /\ memories[order[l]].pinned = memories[order[k]].pinned =>
                  memories[order[k]].at >= memories[order[l]].at
  <2>1. order[k] \in D /\ order[l] \in D BY <1>2
  <2>2. memories[order[k]] \in MemoryRows /\ memories[order[l]] \in MemoryRows BY <2>1 DEF RowsTyped
  <2>3. /\ memories[order[k]].pinned \in BOOLEAN /\ memories[order[k]].at \in 0..MaxChanges
        /\ memories[order[l]].pinned \in BOOLEAN /\ memories[order[l]].at \in 0..MaxChanges
    BY <2>2 DEF MemoryRows
  <2>4. memories[order[k]].at \in Int /\ memories[order[l]].at \in Int BY <2>3
  <2>5. ~Precedes(order[l], order[k]) BY <1>2, <1>5
  <2> DEFINE a == memories[order[l]]
             b == memories[order[k]]
  <2> HIDE DEF a, b
  <2>6. ~(IF a.pinned # b.pinned THEN a.pinned ELSE a.at > b.at) BY <2>5 DEF Precedes, a, b
  <2>7. a.pinned => b.pinned
    <3>1. a.pinned \in BOOLEAN /\ b.pinned \in BOOLEAN BY <2>3 DEF a, b
    <3>2. QED BY <2>6, <3>1
  <2>8. a.pinned = b.pinned => ~(a.at > b.at) BY <2>6
  <2>9. a.pinned = b.pinned => b.at >= a.at
    <3>1. a.at \in Int /\ b.at \in Int BY <2>4 DEF a, b
    <3>2. QED BY <2>8, <3>1
  <2>10. QED BY <2>7, <2>9 DEF a, b
<1>6. QED BY <1>1, <1>2, <1>3, <1>4, <1>5 DEF RowsInOrder

\* The first i memories of an order make a block of the first t of them, where a memory
\* without a pin may have ended it; one without a pin is held within the budget only.
FirstHeld(order, block, i) ==
  /\ \E t \in 0..i :
       /\ Range(block.ids) = {order[k] : k \in 1..t}
       /\ ~block.full => t = i
       /\ block.full => t < i /\ ~memories[order[t + 1]].pinned
  /\ (\E k \in Range(block.ids) : ~memories[k].pinned) => block.tokens <= MemoryTokens

\* The members of a sequence with one appended.
LEMMA RangeAppended ==
  ASSUME NEW S, NEW s \in Seq(S), NEW x \in S
  PROVE  Range(Append(s, x)) = Range(s) \cup {x}
<1> DEFINE c == Append(s, x)
           n == Len(s)
<1>1. n \in Nat /\ DOMAIN s = 1..n /\ DOMAIN c = 1..(n + 1) OBVIOUS
<1>2. c[n + 1] = x /\ \A k \in 1..n : c[k] = s[k] OBVIOUS
<1> HIDE DEF c, n
<1>3. \A k \in 1..(n + 1) : k = n + 1 \/ k \in 1..n BY <1>1
<1>4. n + 1 \in 1..(n + 1) /\ \A k \in 1..n : k \in 1..(n + 1) BY <1>1
<1>5. QED BY <1>1, <1>2, <1>3, <1>4 DEF Range, c

\* One memory of the order more.
LEMMA PutHeld ==
  ASSUME RowsTyped, NEW n, NEW order, RowsInOrder(order, n), NEW i \in 1..n, NEW block \in Blocks,
         FirstHeld(order, block, i - 1)
  PROVE  FirstHeld(order, PutInBlock(block, order[i]), i)
<1> DEFINE x == order[i]
           new == PutInBlock(block, x)
           D == DOMAIN memories
<1>1. n \in Nat /\ i \in Nat /\ i # 0 /\ x \in D BY DEF RowsInOrder
<1>2. block.ids \in Seq(D) /\ block.tokens \in Nat /\ block.full \in BOOLEAN BY DEF Blocks
<1>3. Tokens(x) \in Nat /\ memories[x].pinned \in BOOLEAN BY <1>1, PutStays
<1>4. PICK t \in 0..(i - 1) :
        /\ Range(block.ids) = {order[k] : k \in 1..t}
        /\ ~block.full => t = i - 1
        /\ block.full => t < i - 1 /\ ~memories[order[t + 1]].pinned
  BY DEF FirstHeld
<1>5. (\E k \in Range(block.ids) : ~memories[k].pinned) => block.tokens <= MemoryTokens BY DEF FirstHeld
<1>6. t \in 0..i /\ t < i BY <1>1
<1> DEFINE stops == block.full \/ (~memories[x].pinned /\ block.tokens + Tokens(x) > MemoryTokens)
<1>7. CASE stops
  <2>1. new = [block EXCEPT !.full = TRUE] BY <1>7 DEF PutInBlock
  <2>2. new.ids = block.ids /\ new.tokens = block.tokens /\ new.full BY <1>2, <2>1 DEF Blocks
  <2>3. ~memories[order[t + 1]].pinned
    <3>1. CASE block.full BY <1>4, <3>1
    <3>2. CASE ~block.full
      <4>1. t + 1 = i BY <1>1, <1>4, <3>2
      <4>2. QED BY <1>7, <3>2, <4>1
    <3>3. QED BY <3>1, <3>2
  <2> HIDE DEF new
  <2>4. QED BY <1>4, <1>5, <1>6, <2>2, <2>3 DEF FirstHeld, new
<1>8. CASE ~stops
  <2>1. new = [block EXCEPT !.ids = Append(@, x), !.tokens = @ + Tokens(x)] BY <1>8 DEF PutInBlock
  <2>2. new.ids = Append(block.ids, x) /\ new.tokens = block.tokens + Tokens(x) /\ ~new.full
    BY <1>2, <1>8, <2>1 DEF Blocks
  <2>3. ~block.full /\ t = i - 1 BY <1>4, <1>8
  <2>4. Range(new.ids) = Range(block.ids) \cup {x}
    <3> HIDE DEF D, x
    <3>1. QED BY <1>1, <1>2, <2>2, RangeAppended
  <2>5. \A k \in 1..i : k = i \/ k \in 1..t BY <1>1, <2>3
  <2>6. i \in 1..i /\ \A k \in 1..t : k \in 1..i BY <1>1, <2>3
  <2>7. Range(new.ids) = {order[k] : k \in 1..i}
    <3> HIDE DEF new
    <3>1. QED BY <1>4, <2>4, <2>5, <2>6 DEF x
  <2>8. ASSUME NEW y \in Range(new.ids), ~memories[y].pinned PROVE new.tokens <= MemoryTokens
    <3>1. PICK k \in 1..i : y = order[k] BY <2>7, <2>8
    <3>2. ~memories[x].pinned
      <4>1. CASE k = i BY <2>8, <3>1, <4>1
      <4>2. CASE k # i
        <5>1. k \in 1..n /\ k < i BY <1>1, <4>2
        <5>2. memories[order[i]].pinned => memories[order[k]].pinned BY <5>1 DEF RowsInOrder
        <5>3. QED BY <2>8, <3>1, <5>2
      <4>3. QED BY <4>1, <4>2
    <3>3. ~(block.tokens + Tokens(x) > MemoryTokens) BY <1>8, <3>2
    <3> DEFINE s == block.tokens + Tokens(x)
    <3>4. s \in Nat /\ MemoryTokens \in Nat BY <1>2, <1>3, MemoryBounds
    <3> HIDE DEF s
    <3>5. s <= MemoryTokens BY <3>3, <3>4 DEF s
    <3>6. QED BY <2>2, <3>5 DEF s
  <2>9. i \in 0..i BY <1>1
  <2> HIDE DEF new
  <2>10. QED BY <2>2, <2>7, <2>8, <2>9 DEF FirstHeld, new
<1>9. QED BY <1>7, <1>8

\* The block is by rank.
LEMMA BlockRanked ==
  ASSUME RowsTyped
  PROVE  BlockByRank
<1> SUFFICES ASSUME NEW order \in listByUser
             PROVE  LET block == buildBlock(order)
                        held  == Range(block.ids)
                    IN /\ \A i \in DOMAIN memories : memories[i].pinned => i \in held
                       /\ (\E i \in held : ~memories[i].pinned) => block.tokens <= MemoryTokens
                       /\ \A i \in held, j \in DOMAIN memories \ held :
                            memories[i].pinned = memories[j].pinned => memories[i].at >= memories[j].at
  BY DEF BlockByRank
<1> DEFINE block == buildBlock(order)
           held == Range(block.ids)
           n == Cardinality(DOMAIN memories)
<1>1. RowsInOrder(order, n) BY ListInOrder
<1> HIDE DEF n
<1>2. n \in Nat /\ Len(order) = n /\ order \in Seq(DOMAIN memories) BY <1>1 DEF RowsInOrder
<1>3. PICK h \in [0..n -> Blocks] :
        /\ h[0] = [ids |-> <<>>, tokens |-> 0, full |-> FALSE]
        /\ \A i \in 1..n : h[i] = PutInBlock(h[i - 1], order[i])
        /\ block = h[n]
  BY <1>2, BlockInSteps
<1> HIDE DEF block
<1>4. \A i \in 0..n : FirstHeld(order, h[i], i)
  <2> DEFINE Bad == {i \in 0..n : ~FirstHeld(order, h[i], i)}
  <2>1. SUFFICES ASSUME Bad # {} PROVE FALSE OBVIOUS
  <2>2. PICK i \in Bad : \A k \in Bad : i <= k
    <3>1. Bad \in SUBSET Nat BY <1>2
    <3> HIDE DEF Bad
    <3>2. QED BY <2>1, <3>1, HasMin
  <2>3. i \in 0..n /\ ~FirstHeld(order, h[i], i) BY <2>2
  <2>4. i # 0
    <3>1. h[0].ids = <<>> /\ ~h[0].full BY <1>3
    <3>2. Range(<<>>) = {} BY DEF Range
    <3>3. 1..0 = {} /\ 0 \in 0..0 OBVIOUS
    <3>4. {order[k] : k \in 1..0} = {} BY <3>3
    <3>5. FirstHeld(order, h[0], 0) BY <3>1, <3>2, <3>3, <3>4 DEF FirstHeld
    <3>6. QED BY <2>3, <3>5
  <2>5. i \in 1..n /\ i - 1 \in 0..n /\ ~(i <= i - 1) BY <1>2, <2>3, <2>4
  <2>6. FirstHeld(order, h[i - 1], i - 1) /\ h[i - 1] \in Blocks BY <2>2, <2>5
  <2>7. FirstHeld(order, PutInBlock(h[i - 1], order[i]), i) BY <1>1, <2>5, <2>6, PutHeld
  <2>8. QED BY <1>3, <2>3, <2>5, <2>7
<1>5. FirstHeld(order, block, n)
  <2>1. n \in 0..n BY <1>2
  <2>2. QED BY <1>3, <1>4, <2>1
<1>6. PICK t \in 0..n :
        /\ held = {order[k] : k \in 1..t}
        /\ ~block.full => t = n
        /\ block.full => t < n /\ ~memories[order[t + 1]].pinned
  BY <1>5 DEF FirstHeld
<1>7. (\E i \in held : ~memories[i].pinned) => block.tokens <= MemoryTokens BY <1>5 DEF FirstHeld
<1>8. \A i \in DOMAIN memories : \E k \in 1..n : order[k] = i BY <1>1 DEF RowsInOrder
<1>9. \A k, l \in 1..n : k < l =>
       /\ memories[order[l]].pinned => memories[order[k]].pinned
       /\ memories[order[l]].pinned = memories[order[k]].pinned =>
            memories[order[k]].at >= memories[order[l]].at
  BY <1>1 DEF RowsInOrder
<1> HIDE DEF held
<1>10. ASSUME NEW i \in DOMAIN memories, memories[i].pinned PROVE i \in held
  <2>1. PICK k \in 1..n : order[k] = i BY <1>8
  <2>2. CASE k \in 1..t BY <1>6, <2>1, <2>2
  <2>3. CASE k \notin 1..t
    <3>1. t # n /\ t < k BY <1>2, <2>1, <2>3
    <3>2. ~memories[order[t + 1]].pinned /\ t + 1 \in 1..n BY <1>2, <1>6, <3>1
    <3>3. t + 1 = k \/ t + 1 < k BY <1>2, <3>1
    <3>4. CASE t + 1 = k BY <1>10, <2>1, <3>2, <3>4
    <3>5. CASE t + 1 < k
      <4>1. memories[order[k]].pinned => memories[order[t + 1]].pinned BY <1>9, <3>2, <3>5
      <4>2. QED BY <1>10, <2>1, <3>2, <4>1
    <3>6. QED BY <3>3, <3>4, <3>5
  <2>4. QED BY <2>2, <2>3
<1>11. ASSUME NEW i \in held, NEW j \in DOMAIN memories \ held, memories[i].pinned = memories[j].pinned
       PROVE  memories[i].at >= memories[j].at
  <2>1. PICK k \in 1..t : order[k] = i BY <1>6
  <2>2. PICK l \in 1..n : order[l] = j BY <1>8
  <2>3. l \notin 1..t BY <1>6, <2>2
  <2>4. k \in 1..n /\ k < l BY <1>2, <2>3
  <2>5. QED BY <1>9, <1>11, <2>1, <2>2, <2>4
<1>12. QED BY <1>7, <1>10, <1>11 DEF held, block

\* What a request is at: one that writes the file, one that reads it, or none.
WriterSteps == {"change", "getByName", "get", "delete", "list", "write"}
MemoryRequests ==
  [op : {"none", "post", "patch", "delete", "sync"}, step : WriterSteps \cup {"none", "readFile", "entry"},
   id : MemoryIds \cup {NoId}, name : AllNames \cup {NoId}, body : Seq(FileLines),
   pinned : BOOLEAN, todo : Seq(Parseds), lines : Seq(FileLines)]
Underway(req) ==
  /\ req \in MemoryRequests
  /\ \/ req = NoChange
     \/ req.op \in {"post", "patch", "delete"} /\ req.step \in WriterSteps
     \/ req.op = "sync" /\ req.step \in {"readFile", "entry"}
  /\ req.op \in {"post", "patch"} => req.name \in AllNames
  /\ req.op = "post" => req.id \in MemoryIds

MemoriesTyped ==
  /\ RowsTyped
  /\ memoryFile \in Seq(FileLines)
  /\ changes \in [Changers -> MemoryRequests] /\ \A c \in Changers : Underway(changes[c])
  /\ made \in 0..MaxChanges /\ stale \in BOOLEAN

NamesApart ==
  \A i, j \in DOMAIN memories : memories[i].name = memories[j].name => i = j

\* The rows as the file tells them.
RowsTold == {EntryTold(i, memories[i]) : i \in DOMAIN memories}

\* While the file can be expected to be as the rows are, one request is at work at most:
\* unless it is one that writes the file, the file is as the rows are, and what is to be
\* written or upserted is the rows.
FileTrue ==
  ~stale =>
    /\ \A c, d \in Busy : c = d
    /\ (\A c \in Busy : changes[c].op = "sync") => Range(parseMemoryFile(memoryFile)) = RowsTold
    /\ \A c \in Busy : changes[c].step = "write" =>
         \E order \in listByUser : changes[c].lines = fileText(order)
    /\ \A c \in Busy : At(c, "sync", "entry") => Range(changes[c].todo) \in SUBSET RowsTold

MemoriesInv == MemoriesTyped /\ NamesApart /\ FileTrue

\* It is what is claimed.
LEMMA MemoriesInvTells == MemoriesInv => MemoriesReachReaders
<1> SUFFICES ASSUME MemoriesInv PROVE MemoriesReachReaders OBVIOUS
<1>1. MemoriesTyped /\ RowsTyped BY DEF MemoriesInv, MemoriesTyped
<1>2. MemoriesTypeOK
  <2>1. \A i \in DOMAIN memories : memories[i].at \in 0..MaxChanges BY <1>1 DEF RowsTyped, MemoryRows
  <2>2. \A c \in Changers : changes[c].op \in {"none", "post", "patch", "delete", "sync"}
    BY <1>1 DEF MemoriesTyped, MemoryRequests
  <2>3. QED BY <1>1, <2>1, <2>2 DEF MemoriesTypeOK, MemoriesTyped, RowsTyped
<1>3. FileHoldsMemories
  <2>1. SUFFICES ASSUME Busy = {}, ~stale PROVE FileHoldsMemories BY DEF FileHoldsMemories
  <2>2. Range(parseMemoryFile(memoryFile)) = RowsTold BY <2>1 DEF MemoriesInv, FileTrue
  <2>3. QED BY <2>2 DEF FileHoldsMemories, RowsTold, EntryTold
<1>4. BlockByRank BY <1>1, BlockRanked
<1>5. QED BY <1>2, <1>3, <1>4 DEF MemoriesReachReaders

\* No request.
LEMMA NoChangeIs == Underway(NoChange) /\ NoChange.op = "none" /\ NoChange.step = "none"
<1>1. <<>> \in Seq(FileLines) /\ <<>> \in Seq(Parseds) OBVIOUS
<1>2. NoChange \in MemoryRequests BY <1>1 DEF NoChange, MemoryRequests
<1>3. NoChange.op = "none" /\ NoChange.step = "none" BY DEF NoChange
<1>4. QED BY <1>2, <1>3 DEF Underway

\* A step of one request leaves the others where they are.
LEMMA OneChanges ==
  ASSUME MemoriesTyped, NEW c \in Changers, NEW r, Underway(r), changes' = [changes EXCEPT ![c] = r]
  PROVE  /\ changes' \in [Changers -> MemoryRequests] /\ \A d \in Changers : Underway(changes'[d])
         /\ changes'[c] = r /\ \A d \in Changers : d # c => changes'[d] = changes[d]
         /\ Busy' = (Busy \ {c}) \cup (IF r = NoChange THEN {} ELSE {c})
<1>1. changes \in [Changers -> MemoryRequests] /\ \A d \in Changers : Underway(changes[d]) BY DEF MemoriesTyped
<1>2. r \in MemoryRequests BY DEF Underway
<1>3. changes' \in [Changers -> MemoryRequests] BY <1>1, <1>2
<1>4. changes'[c] = r /\ \A d \in Changers : d # c => changes'[d] = changes[d] BY <1>1
<1>5. \A d \in Changers : Underway(changes'[d])
  <2> HIDE DEF Underway
  <2>1. QED BY <1>1, <1>4
<1>6. Busy' = {d \in Changers : changes'[d] # NoChange} BY DEF Busy
<1> HIDE DEF NoChange
<1>7. \A d \in Changers : d \in Busy <=> changes[d] # NoChange BY DEF Busy
<1>8. \A d \in Changers : d \in Busy' <=> changes'[d] # NoChange BY <1>6
<1>9. \A d \in Changers : d \in Busy' <=> (d \in Busy /\ d # c) \/ (d = c /\ r # NoChange)
  BY <1>4, <1>7, <1>8
<1>10. Busy \in SUBSET Changers /\ Busy' \in SUBSET Changers BY <1>6 DEF Busy
<1> HIDE DEF Busy
<1>11. Busy' = (Busy \ {c}) \cup (IF r = NoChange THEN {} ELSE {c}) BY <1>9, <1>10
<1>12. QED BY <1>3, <1>4, <1>5, <1>11

\* While a request changes rows, to write the file after, nothing is said of the file.
LEMMA Changing ==
  ASSUME MemoriesTyped, NEW c \in Changers, NEW r, Underway(r), changes' = [changes EXCEPT ![c] = r],
         r.op \in {"post", "patch", "delete"}, r.step # "write", ~stale' => Busy \in SUBSET {c}
  PROVE  FileTrue'
<1>1. /\ changes'[c] = r
      /\ Busy' = (Busy \ {c}) \cup (IF r = NoChange THEN {} ELSE {c})
  BY OneChanges
<1>2. r # NoChange BY NoChangeIs
<1> SUFFICES ASSUME ~stale' PROVE FileTrue' BY DEF FileTrue
<1>3. Busy' = {c} BY <1>1, <1>2
<1>4. r.op # "sync" OBVIOUS
<1>5. \A d \in Busy' : ~At(d, "sync", "entry")' BY <1>1, <1>3, <1>4 DEF At
<1> HIDE DEF Busy
<1>6. QED BY <1>1, <1>3, <1>4, <1>5 DEF FileTrue

\* What a request upserts is a row.
Upsertable(r) ==
  r.name \in AllNames /\ r.id \in MemoryIds /\ r.body \in Seq(FileLines) /\ r.pinned \in BOOLEAN

\* The row it is.
LEMMA RowIs ==
  ASSUME MemoriesTyped, NEW r, r.name \in AllNames, r.body \in Seq(FileLines), r.pinned \in BOOLEAN
  PROVE  Row(r) \in MemoryRows /\ Row(r).name = r.name
<1>1. made \in 0..MaxChanges BY DEF MemoriesTyped
<1>2. QED BY <1>1 DEF Row, MemoryRows

\* An upsert leaves no two rows of one name.
LEMMA UpsertKeeps ==
  ASSUME MemoriesTyped, NamesApart, NEW r, Upsertable(r), Upsert(r)
  PROVE  RowsTyped' /\ NamesApart'
<1> DEFINE D == DOMAIN memories
           new == Row(r)
<1>1. IsFiniteSet(D) /\ D \in SUBSET MemoryIds /\ memories \in [D -> MemoryRows]
  BY DEF MemoriesTyped, RowsTyped
<1>2. new \in MemoryRows /\ new.name = r.name BY RowIs DEF Upsertable
<1>3. \A i \in D : i \in Named(r.name) <=> memories[i].name = r.name BY DEF Named
<1>4. \A i, j \in D : memories[i].name = memories[j].name => i = j BY DEF NamesApart
<1>5. r.id \in MemoryIds BY DEF Upsertable
<1> HIDE DEF new
<1>6. CASE Named(r.name) # {}
  <2>1. memories' = [i \in D |-> IF i \in Named(r.name) THEN new ELSE memories[i]]
    BY <1>6 DEF Upsert, new
  <2> DEFINE E == DOMAIN memories'
  <2>2. E = D /\ memories' \in [D -> MemoryRows] BY <1>1, <1>2, <2>1
  <2>3. \A i \in D : memories'[i] = IF i \in Named(r.name) THEN new ELSE memories[i] BY <2>1
  <2> HIDE DEF D, E
  <2>4. \A i, j \in D : memories'[i].name = memories'[j].name => i = j BY <1>2, <1>3, <1>4, <2>3
  <2>5. RowsTyped' BY <1>1, <2>2 DEF RowsTyped, E
  <2>6. NamesApart' BY <2>2, <2>4 DEF NamesApart, E
  <2>7. QED BY <2>5, <2>6
<1>7. CASE Named(r.name) = {}
  <2> DEFINE F == D \cup {r.id}
             E == DOMAIN memories'
  <2>1. memories' = [i \in F |-> IF i = r.id THEN new ELSE memories[i]] BY <1>7 DEF Upsert, new
  <2>2. E = F /\ memories' \in [F -> MemoryRows] BY <1>1, <1>2, <2>1
  <2>3. \A i \in F : memories'[i] = IF i = r.id THEN new ELSE memories[i] BY <2>1
  <2>4. \A i \in F : i # r.id => i \in D OBVIOUS
  <2>5. F \in SUBSET MemoryIds BY <1>1, <1>5
  <2>6. IsFiniteSet(F)
    <3> HIDE DEF D
    <3>1. QED BY <1>1, FS_AddElement
  <2> HIDE DEF D, E, F
  <2>7. \A i \in D : memories[i].name # r.name BY <1>3, <1>7
  <2>8. \A i, j \in F : memories'[i].name = memories'[j].name => i = j BY <1>2, <1>4, <2>3, <2>4, <2>7
  <2>9. RowsTyped' BY <2>2, <2>5, <2>6 DEF RowsTyped, E
  <2>10. NamesApart' BY <2>2, <2>8 DEF NamesApart, E
  <2>11. QED BY <2>9, <2>10
<1>8. QED BY <1>6, <1>7

\* An upsert of a row as the file tells it leaves the rows as the file tells them.
LEMMA UpsertTold ==
  ASSUME MemoriesTyped, NamesApart, NEW i \in DOMAIN memories, Upsert(EntryTold(i, memories[i]))
  PROVE  RowsTold' = RowsTold
<1> DEFINE D == DOMAIN memories
           E == DOMAIN memories'
           r == EntryTold(i, memories[i])
           new == Row(r)
<1>1. memories \in [D -> MemoryRows] /\ i \in D BY DEF MemoriesTyped, RowsTyped
<1>2. /\ memories[i].name \in AllNames /\ memories[i].body \in Seq(FileLines)
      /\ memories[i].pinned \in BOOLEAN
  BY <1>1 DEF MemoryRows
<1>3. r.name = memories[i].name /\ r.body = Trim(memories[i].body) /\ r.pinned = memories[i].pinned
  BY DEF EntryTold
<1>4. Trim(Trim(memories[i].body)) = Trim(memories[i].body) BY <1>2, TrimTrim
<1>5. new.name = r.name /\ new.body = r.body /\ new.pinned = r.pinned BY DEF Row
<1>6. \A k \in D : k \in Named(r.name) <=> k = i
  <2>1. \A k \in D : k \in Named(r.name) <=> memories[k].name = r.name BY DEF Named
  <2>2. \A k, l \in D : memories[k].name = memories[l].name => k = l BY DEF NamesApart
  <2>3. QED BY <1>1, <1>3, <2>1, <2>2
<1> HIDE DEF r, new
<1>7. memories' = [k \in D |-> IF k \in Named(r.name) THEN new ELSE memories[k]]
  <2>1. Named(r.name) # {} BY <1>1, <1>6
  <2>2. QED BY <2>1 DEF Upsert, new, r
<1>8. E = D /\ \A k \in D : memories'[k] = IF k = i THEN new ELSE memories[k] BY <1>6, <1>7
<1>9. EntryTold(i, new) = EntryTold(i, memories[i]) BY <1>3, <1>4, <1>5 DEF EntryTold
<1>10. \A k \in D : EntryTold(k, memories'[k]) = EntryTold(k, memories[k]) BY <1>8, <1>9
<1> HIDE DEF D
<1>11. RowsTold' = {EntryTold(k, memories'[k]) : k \in E} BY DEF RowsTold, EntryTold, Trim
<1>12. RowsTold = {EntryTold(k, memories[k]) : k \in D} BY DEF RowsTold, D
<1> HIDE DEF E
<1>13. QED BY <1>8, <1>10, <1>11, <1>12

\* An entry parsed is one to upsert, but for the id it may lack.
LEMMA EntryIsRow ==
  ASSUME NEW todo \in Seq(Parseds), todo # <<>>
  PROVE  /\ Head(todo) \in Parseds /\ Tail(todo) \in Seq(Parseds) /\ Head(todo) \in Range(todo)
         /\ Range(Tail(todo)) \in SUBSET Range(todo)
<1> DEFINE n == Len(todo)
           t == Tail(todo)
<1>1. n \in Nat /\ n # 0 /\ DOMAIN todo = 1..n OBVIOUS
<1>2. 1 \in 1..n BY <1>1
<1>3. Head(todo) = todo[1] /\ todo[1] \in Parseds BY <1>1, <1>2
<1>4. t \in Seq(Parseds) /\ Len(t) = n - 1 /\ \A k \in 1..(n - 1) : t[k] = todo[k + 1]
  BY <1>1, HeadTailProperties
<1>5. DOMAIN t = 1..(n - 1) BY <1>4
<1> HIDE DEF t, n
<1>6. \A k \in 1..(n - 1) : k + 1 \in 1..n BY <1>1
<1>7. Head(todo) \in Range(todo) BY <1>1, <1>2, <1>3 DEF Range
<1>8. Range(t) \in SUBSET Range(todo) BY <1>1, <1>4, <1>5, <1>6 DEF Range
<1>9. QED BY <1>3, <1>4, <1>7, <1>8 DEF t

\* Rows left alone.
LEMMA RowsKept ==
  ASSUME MemoriesInv, UNCHANGED memories
  PROVE  RowsTyped' /\ NamesApart' /\ RowsTold' = RowsTold /\ listByUser' = listByUser
         /\ \A order : fileText(order)' = fileText(order)
<1>1. RowsTyped /\ NamesApart BY DEF MemoriesInv, MemoriesTyped
<1>2. RowsTyped' BY <1>1 DEF RowsTyped
<1>3. NamesApart' BY <1>1 DEF NamesApart
<1>4. RowsTold' = RowsTold BY DEF RowsTold, EntryTold
<1>5. listByUser' = listByUser BY DEF listByUser, Precedes
<1>6. \A order : fileText(order)' = fileText(order) BY DEF fileText, formatMemoryEntry
<1>7. QED BY <1>2, <1>3, <1>4, <1>5, <1>6

\* The parts of the invariant.
LEMMA InvParts ==
  ASSUME MemoriesInv
  PROVE  /\ MemoriesTyped /\ RowsTyped /\ NamesApart /\ FileTrue
         /\ memoryFile \in Seq(FileLines) /\ made \in 0..MaxChanges /\ stale \in BOOLEAN
         /\ changes \in [Changers -> MemoryRequests] /\ \A c \in Changers : Underway(changes[c])
<1>1. MemoriesTyped /\ NamesApart /\ FileTrue BY DEF MemoriesInv
<1>2. QED BY <1>1 DEF MemoriesTyped

\* A request at a step is at work, and the only one while the file can be expected to be
\* as the rows are.
LEMMA Sole ==
  ASSUME MemoriesInv, NEW c \in Changers, changes[c].op # "none"
  PROVE  c \in Busy /\ (~stale => Busy = {c})
<1>1. c \in Busy BY NoChangeIs DEF Busy
<1>2. ~stale => \A d, e \in Busy : d = e BY InvParts DEF FileTrue
<1> HIDE DEF Busy
<1>3. QED BY <1>1, <1>2

\* A request starts.
LEMMA StartKeeps ==
  ASSUME MemoriesInv, NEW c \in Changers, NEW r, Underway(r), Start(c, r),
         \/ r.op \in {"post", "patch", "delete"} /\ r.step # "write"
         \/ r.op = "sync" /\ r.step = "readFile"
  PROVE  MemoriesInv'
<1>1. /\ MemoriesTyped /\ RowsTyped /\ NamesApart /\ FileTrue
      /\ memoryFile \in Seq(FileLines) /\ made \in 0..MaxChanges /\ stale \in BOOLEAN
  BY InvParts
<1>2. /\ changes[c] = NoChange /\ made < MaxChanges /\ made' = made + 1
      /\ changes' = [changes EXCEPT ![c] = r]
      /\ stale' = IF r.op = "sync" /\ Busy = {} THEN stale ELSE Busy # {}
      /\ memories' = memories /\ memoryFile' = memoryFile
  BY DEF Start, MayStart
<1>3. RowsTyped' /\ NamesApart' /\ RowsTold' = RowsTold BY <1>2, RowsKept
<1>4. /\ changes' \in [Changers -> MemoryRequests] /\ \A d \in Changers : Underway(changes'[d])
      /\ changes'[c] = r
      /\ Busy' = (Busy \ {c}) \cup (IF r = NoChange THEN {} ELSE {c})
  BY <1>1, <1>2, OneChanges
<1>5. made' \in 0..MaxChanges
  <2>1. MaxChanges \in Nat BY MemoryBounds
  <2>2. QED BY <1>1, <1>2, <2>1
<1>6. stale' \in BOOLEAN BY <1>1, <1>2
<1>7. MemoriesTyped'
  <2> HIDE DEF Underway
  <2>1. QED BY <1>1, <1>2, <1>3, <1>4, <1>5, <1>6 DEF MemoriesTyped
<1>8. FileTrue'
  <2>1. CASE r.op \in {"post", "patch", "delete"} /\ r.step # "write"
    <3>1. ~stale' => Busy \in SUBSET {c} BY <1>2, <2>1
    <3>2. QED BY <1>1, <1>2, <2>1, <3>1, Changing
  <2>2. CASE r.op = "sync" /\ r.step = "readFile"
    <3>1. SUFFICES ASSUME ~stale' PROVE FileTrue' BY DEF FileTrue
    <3>2. Busy = {} /\ ~stale BY <1>2, <2>2, <3>1
    <3>3. Range(parseMemoryFile(memoryFile)) = RowsTold BY <1>1, <3>2 DEF FileTrue
    <3>4. \A d \in Busy' : d = c BY <1>4, <3>2
    <3>5. parseMemoryFile(memoryFile)' = parseMemoryFile(memoryFile)
      BY <1>2 DEF parseMemoryFile, parseMemoryEntry, SeparatorFrom, EntryFrom, EntryStart, Fields, Trim
    <3>6. \A d \in Busy' : changes'[d].step = "readFile" BY <1>4, <2>2, <3>4
    <3>7. \A d \in Busy' : changes'[d].step # "write" /\ ~At(d, "sync", "entry")' BY <3>6 DEF At
    <3>8. Range(parseMemoryFile(memoryFile))' = RowsTold' BY <1>3, <3>3, <3>5 DEF Range
    <3> HIDE DEF Busy
    <3>9. QED BY <3>4, <3>7, <3>8 DEF FileTrue
  <2>3. QED BY <2>1, <2>2
<1>9. QED BY <1>3, <1>7, <1>8 DEF MemoriesInv

\* The bodies there are.
LEMMA BodyIsLines == ASSUME NEW body \in MemoryBodies PROVE body \in Seq(FileLines)
<1>1. body \in Seq(Range(body)) BY MemoryBounds
<1>2. Range(body) \in SUBSET FileLines BY DEF FileLines, BodyLines
<1> DEFINE S == Range(body)
<1> HIDE DEF S
<1>3. body \in Seq(S) /\ S \in SUBSET FileLines BY <1>1, <1>2 DEF S
<1>4. Len(body) \in Nat /\ body \in [1..Len(body) -> S] BY <1>3
<1>5. \A i \in 1..Len(body) : body[i] \in FileLines BY <1>3, <1>4
<1>6. QED BY <1>3, <1>4, <1>5

\* A post of a memory.
LEMMA PostStarts ==
  ASSUME MemoriesInv, NEW c \in Changers, NEW name \in MemoryNames, NEW body \in MemoryBodies,
         NEW pinned \in BOOLEAN, PostMemory(c, name, body, pinned)
  PROVE  MemoriesInv'
<1> DEFINE i == CHOOSE i \in FreshId : TRUE
           r == [NoChange EXCEPT !.op = "post", !.step = "change", !.name = name,
                   !.id = i, !.body = body, !.pinned = pinned]
<1>1. FreshId # {} /\ Start(c, r) BY DEF PostMemory
<1>2. i \in MemoryIds
  <2>1. FreshId \in SUBSET MemoryIds BY DEF FreshId
  <2>2. QED BY <1>1, <2>1
<1>3. body \in Seq(FileLines) /\ name \in AllNames BY BodyIsLines DEF AllNames
<1>4. NoChange \in MemoryRequests BY NoChangeIs DEF Underway
<1> HIDE DEF i
<1>6. r \in MemoryRequests BY <1>2, <1>3, <1>4 DEF MemoryRequests, WriterSteps
<1>7. r.op = "post" /\ r.step = "change" /\ r.id = i /\ r.name = name BY <1>4 DEF MemoryRequests
<1> HIDE DEF r
<1>8. Underway(r) BY <1>2, <1>3, <1>6, <1>7 DEF Underway, WriterSteps
<1>9. QED BY <1>1, <1>7, <1>8, StartKeeps

\* A patch.
LEMMA PatchStarts ==
  ASSUME MemoriesInv, NEW c \in Changers, NEW id \in MemoryIds, NEW name \in MemoryNames,
         NEW body \in MemoryBodies, NEW pinned \in BOOLEAN, PatchMemory(c, id, name, body, pinned)
  PROVE  MemoriesInv'
<1> DEFINE r == [NoChange EXCEPT !.op = "patch", !.step = "change", !.id = id,
                   !.name = name, !.body = body, !.pinned = pinned]
<1>1. Start(c, r) BY DEF PatchMemory
<1>2. body \in Seq(FileLines) /\ name \in AllNames BY BodyIsLines DEF AllNames
<1>3. NoChange \in MemoryRequests BY NoChangeIs DEF Underway
<1>5. r \in MemoryRequests BY <1>2, <1>3 DEF MemoryRequests, WriterSteps
<1>6. r.op = "patch" /\ r.step = "change" /\ r.name = name BY <1>3 DEF MemoryRequests
<1> HIDE DEF r
<1>7. Underway(r) BY <1>2, <1>5, <1>6 DEF Underway, WriterSteps
<1>8. QED BY <1>1, <1>6, <1>7, StartKeeps

\* A deletion.
LEMMA DeleteStarts ==
  ASSUME MemoriesInv, NEW c \in Changers, NEW id \in MemoryIds, DeleteMemory(c, id)
  PROVE  MemoriesInv'
<1> DEFINE r == [NoChange EXCEPT !.op = "delete", !.step = "get", !.id = id]
<1>1. Start(c, r) BY DEF DeleteMemory
<1>2. NoChange \in MemoryRequests BY NoChangeIs DEF Underway
<1>4. r \in MemoryRequests BY <1>2 DEF MemoryRequests, WriterSteps
<1>5. r.op = "delete" /\ r.step = "get" BY <1>2 DEF MemoryRequests
<1> HIDE DEF r
<1>6. Underway(r) BY <1>4, <1>5 DEF Underway, WriterSteps
<1>7. QED BY <1>1, <1>5, <1>6, StartKeeps

\* A sync from the file.
LEMMA SyncStarts ==
  ASSUME MemoriesInv, NEW c \in Changers, SyncMemory(c)
  PROVE  MemoriesInv'
<1> DEFINE r == [NoChange EXCEPT !.op = "sync", !.step = "readFile"]
<1>1. Start(c, r) BY DEF SyncMemory
<1>2. NoChange \in MemoryRequests BY NoChangeIs DEF Underway
<1>4. r \in MemoryRequests BY <1>2 DEF MemoryRequests, WriterSteps
<1>5. r.op = "sync" /\ r.step = "readFile" BY <1>2 DEF MemoryRequests
<1> HIDE DEF r
<1>6. Underway(r) BY <1>4, <1>5 DEF Underway, WriterSteps
<1>7. QED BY <1>1, <1>5, <1>6, StartKeeps

\* A request goes on to a step.
LEMMA StepIs ==
  ASSUME MemoriesInv, NEW c \in Changers, NEW s, Step(c, s), s \in WriterSteps,
         changes[c].op \in {"post", "patch", "delete"}
  PROVE  \E r : /\ Underway(r) /\ r.op = changes[c].op /\ r.step = s
                /\ changes' = [changes EXCEPT ![c] = r]
<1> DEFINE q == changes[c]
           r == [q EXCEPT !.step = s]
<1>1. Underway(q) /\ q \in MemoryRequests /\ changes \in [Changers -> MemoryRequests]
  BY InvParts DEF Underway
<1>2. changes' = [changes EXCEPT ![c] = r] BY DEF Step
<1> HIDE DEF q
<1>3. r \in MemoryRequests BY <1>1 DEF MemoryRequests
<1>4. r.op = q.op /\ r.step = s /\ r.name = q.name /\ r.id = q.id BY <1>1 DEF MemoryRequests
<1> HIDE DEF r
<1>5. q.op \in {"post", "patch", "delete"} BY DEF q
<1>6. Underway(r) BY <1>1, <1>3, <1>4, <1>5 DEF Underway
<1>7. QED BY <1>2, <1>4, <1>6 DEF q

\* A request that fails.
LEMMA FailsHalfway ==
  ASSUME MemoriesInv, NEW c \in Changers, Fail(c), UNCHANGED <<memories, memoryFile, made>>
  PROVE  MemoriesInv'
<1>1. MemoriesTyped /\ made \in 0..MaxChanges /\ memoryFile \in Seq(FileLines) BY InvParts
<1>2. changes' = [changes EXCEPT ![c] = NoChange] /\ stale' = TRUE BY DEF Fail, End
<1>3. changes' \in [Changers -> MemoryRequests] /\ \A d \in Changers : Underway(changes'[d])
  BY <1>1, <1>2, NoChangeIs, OneChanges
<1>4. RowsTyped' /\ NamesApart' BY RowsKept
<1>5. FileTrue' BY <1>2 DEF FileTrue
<1>6. MemoriesTyped'
  <2> HIDE DEF Underway
  <2>1. QED BY <1>1, <1>2, <1>3, <1>4 DEF MemoriesTyped
<1>7. QED BY <1>4, <1>5, <1>6 DEF MemoriesInv

\* A request that changes rows, or is about to, goes on.
LEMMA WriterKeeps ==
  ASSUME MemoriesInv, NEW c \in Changers, NEW s, Step(c, s), s \in WriterSteps, s # "write",
         changes[c].op \in {"post", "patch", "delete"}, RowsTyped', NamesApart',
         UNCHANGED <<memoryFile, made, stale>>
  PROVE  MemoriesInv'
<1>1. PICK r : /\ Underway(r) /\ r.op = changes[c].op /\ r.step = s
               /\ changes' = [changes EXCEPT ![c] = r]
  BY StepIs
<1>2. MemoriesTyped /\ made \in 0..MaxChanges /\ memoryFile \in Seq(FileLines) /\ stale \in BOOLEAN
  BY InvParts
<1>3. changes' \in [Changers -> MemoryRequests] /\ \A d \in Changers : Underway(changes'[d])
  BY <1>1, <1>2, OneChanges
<1>4. ~stale' => Busy \in SUBSET {c} BY Sole
<1>5. FileTrue'
  <2> HIDE DEF Busy
  <2>1. QED BY <1>1, <1>2, <1>4, Changing
<1>6. MemoriesTyped'
  <2> HIDE DEF Underway
  <2>1. QED BY <1>2, <1>3 DEF MemoriesTyped
<1>7. QED BY <1>5, <1>6 DEF MemoriesInv

\* A post upserts its row.
LEMMA PostChanges ==
  ASSUME MemoriesInv, NEW c \in Changers, ChangeByPost(c)
  PROVE  MemoriesInv'
<1>1. changes[c].op = "post" /\ Upsert(changes[c]) /\ Step(c, "getByName")
      /\ UNCHANGED <<memoryFile, made, stale>>
  BY DEF ChangeByPost, At
<1>2. MemoriesTyped /\ NamesApart BY InvParts
<1>3. Upsertable(changes[c])
  <2>1. Underway(changes[c]) BY InvParts
  <2>2. QED BY <1>1, <2>1 DEF Underway, Upsertable, MemoryRequests
<1>4. RowsTyped' /\ NamesApart' BY <1>1, <1>2, <1>3, UpsertKeeps
<1>5. QED BY <1>1, <1>4, WriterKeeps DEF WriterSteps

\* The row written is read back.
LEMMA ReadsBack ==
  ASSUME MemoriesInv, NEW c \in Changers, ReadBack(c)
  PROVE  MemoriesInv'
<1>1. changes[c].op = "post" /\ UNCHANGED <<memories, memoryFile, made>> BY DEF ReadBack, At, Store
<1>2. CASE Fail(c) BY <1>1, <1>2, FailsHalfway
<1>3. CASE Step(c, "list") /\ UNCHANGED stale
  <2>1. RowsTyped' /\ NamesApart' BY <1>1, RowsKept
  <2>2. QED BY <1>1, <1>3, <2>1, WriterKeeps DEF WriterSteps
<1>4. QED BY <1>2, <1>3 DEF ReadBack

\* A patch changes its row, or finds the name taken.
LEMMA PatchChanges ==
  ASSUME MemoriesInv, NEW c \in Changers, ChangeByPatch(c)
  PROVE  MemoriesInv'
<1> DEFINE q == changes[c]
           id == q.id
           D == DOMAIN memories
<1>1. q.op = "patch" /\ UNCHANGED <<memoryFile, made>> BY DEF ChangeByPatch, At
<1>2. MemoriesTyped /\ NamesApart /\ RowsTyped BY InvParts
<1>3. q.name \in AllNames /\ q.body \in Seq(FileLines) /\ q.pinned \in BOOLEAN
  <2>1. Underway(q) BY InvParts
  <2>2. QED BY <1>1, <2>1 DEF Underway, MemoryRequests
<1>4. CASE id \in D /\ Named(q.name) \ {id} # {}
  <2>1. Fail(c) /\ UNCHANGED memories BY <1>4 DEF ChangeByPatch
  <2>2. QED BY <1>1, <2>1, FailsHalfway
<1>5. CASE ~(id \in D /\ Named(q.name) \ {id} # {})
  <2> DEFINE new == Row(q)
             E == DOMAIN memories'
  <2>1. /\ memories' = [i \in D |-> IF i = id THEN new ELSE memories[i]]
        /\ Step(c, "get") /\ UNCHANGED stale
    BY <1>5 DEF ChangeByPatch
  <2>2. new \in MemoryRows /\ new.name = q.name BY <1>2, <1>3, RowIs
  <2>3. IsFiniteSet(D) /\ D \in SUBSET MemoryIds /\ memories \in [D -> MemoryRows]
    BY <1>2 DEF RowsTyped
  <2> HIDE DEF new
  <2>4. E = D /\ memories' \in [D -> MemoryRows] BY <2>1, <2>2, <2>3
  <2>5. \A i \in D : memories'[i] = IF i = id THEN new ELSE memories[i] BY <2>1
  <2>6. \A i, j \in D : memories[i].name = memories[j].name => i = j BY <1>2 DEF NamesApart
  <2>7. id \in D => \A i \in D : i # id => memories[i].name # q.name BY <1>5 DEF Named
  <2> HIDE DEF D, E, id, q
  <2>8. \A i, j \in D : memories'[i].name = memories'[j].name => i = j BY <2>2, <2>5, <2>6, <2>7
  <2>9. RowsTyped' BY <2>3, <2>4 DEF RowsTyped, E
  <2>10. NamesApart' BY <2>4, <2>8 DEF NamesApart, E
  <2>11. changes[c].op = "patch" BY <1>1 DEF q
  <2>12. QED BY <1>1, <2>1, <2>9, <2>10, <2>11, WriterKeeps DEF WriterSteps
<1>6. QED BY <1>4, <1>5

\* The row is read, to answer with it or to delete it.
LEMMA ReadsRow ==
  ASSUME MemoriesInv, NEW c \in Changers, ReadRow(c)
  PROVE  MemoriesInv'
<1>1. changes[c].op \in {"patch", "delete"} /\ UNCHANGED <<memories, memoryFile, made>>
  BY DEF ReadRow, At, Store
<1>2. CASE Fail(c) BY <1>1, <1>2, FailsHalfway
<1>3. CASE Step(c, IF changes[c].op = "patch" THEN "list" ELSE "delete") /\ UNCHANGED stale
  <2>1. RowsTyped' /\ NamesApart' BY <1>1, RowsKept
  <2> DEFINE s == IF changes[c].op = "patch" THEN "list" ELSE "delete"
  <2>2. s \in WriterSteps /\ s # "write" BY DEF WriterSteps
  <2>3. Step(c, s) /\ UNCHANGED stale BY <1>3
  <2> HIDE DEF s
  <2>4. QED BY <1>1, <2>1, <2>2, <2>3, WriterKeeps
<1>4. QED BY <1>2, <1>3 DEF ReadRow

\* The row is deleted.
LEMMA DeletesRow ==
  ASSUME MemoriesInv, NEW c \in Changers, DeleteRow(c)
  PROVE  MemoriesInv'
<1> DEFINE D == DOMAIN memories
           F == D \ {changes[c].id}
           E == DOMAIN memories'
<1>1. /\ changes[c].op = "delete" /\ Step(c, "list") /\ UNCHANGED <<memoryFile, made, stale>>
      /\ memories' = Restrict(memories, F)
  BY DEF DeleteRow, At
<1>2. memories' = [i \in F |-> memories[i]] BY <1>1 DEF Restrict
<1>3. NamesApart /\ IsFiniteSet(D) /\ D \in SUBSET MemoryIds /\ memories \in [D -> MemoryRows]
  BY InvParts DEF RowsTyped
<1>4. F \in SUBSET D /\ F \in SUBSET MemoryIds BY <1>3
<1>5. IsFiniteSet(F)
  <2> HIDE DEF D, F
  <2>1. QED BY <1>3, <1>4, FS_Subset
<1>6. E = F /\ memories' \in [F -> MemoryRows] /\ \A i \in F : memories'[i] = memories[i]
  BY <1>2, <1>3
<1>7. \A i, j \in D : memories[i].name = memories[j].name => i = j BY <1>3 DEF NamesApart
<1> HIDE DEF D, F, E
<1>8. \A i, j \in F : memories'[i].name = memories'[j].name => i = j BY <1>4, <1>6, <1>7
<1>9. RowsTyped' BY <1>4, <1>5, <1>6 DEF RowsTyped, E
<1>10. NamesApart' BY <1>6, <1>8 DEF NamesApart, E
<1>11. QED BY <1>1, <1>9, <1>10, WriterKeeps DEF WriterSteps

\* The file that is written of the rows is read back as the rows.
LEMMA FileIsRows ==
  ASSUME RowsTyped, NEW order \in listByUser
  PROVE  /\ fileText(order) \in Seq(FileLines)
         /\ (\A i \in DOMAIN memories : Carried(memories[i].body)) =>
              Range(parseMemoryFile(fileText(order))) = RowsTold
<1> DEFINE D == DOMAIN memories
           n == Cardinality(D)
           recs == [k \in 1..n |-> memories[order[k]]]
<1>1. /\ n \in Nat /\ order \in [1..n -> D] /\ \A i \in D : \E k \in 1..n : order[k] = i
  BY ListInOrder DEF RowsInOrder
<1>2. D \in SUBSET MemoryIds /\ memories \in [D -> MemoryRows] BY DEF RowsTyped
<1>3. fileText(order) = FlattenSeq([k \in 1..n |-> EntryLines(order[k], memories[order[k]])])
  BY <1>1 DEF fileText, EntryLines
<1> HIDE DEF n
<1>4. order \in [1..n -> MemoryIds] /\ recs \in [1..n -> MemoryRows] BY <1>1, <1>2
<1>5. \A k \in 1..n : order[k] \in D /\ recs[k] = memories[order[k]] BY <1>1
<1>6. [k \in 1..n |-> EntryLines(order[k], memories[order[k]])]
        = [k \in 1..n |-> EntryLines(order[k], recs[k])]
  BY <1>5
<1> HIDE DEF recs, D
<1> DEFINE text == fileText(order)
<1>7. text = FlattenSeq([k \in 1..n |-> EntryLines(order[k], recs[k])]) BY <1>3, <1>6
<1> HIDE DEF text
<1>8. /\ text \in Seq(FileLines)
      /\ (\A k \in 1..n : Carried(recs[k].body)) =>
           Range(parseMemoryFile(text)) = {EntryTold(order[k], recs[k]) : k \in 1..n}
  BY <1>1, <1>4, <1>7, FileRead
<1>9. {EntryTold(order[k], recs[k]) : k \in 1..n} = {EntryTold(i, memories[i]) : i \in D}
  BY <1>1, <1>5
<1>10. RowsTold = {EntryTold(i, memories[i]) : i \in D} BY DEF RowsTold, D
<1>11. (\A i \in D : Carried(memories[i].body)) => \A k \in 1..n : Carried(recs[k].body) BY <1>5
<1>12. QED BY <1>8, <1>9, <1>10, <1>11 DEF text, D

\* The entries are made of the rows.
LEMMA ListsMemories ==
  ASSUME MemoriesInv, NEW c \in Changers, ListMemories(c)
  PROVE  MemoriesInv'
<1> DEFINE q == changes[c]
<1>1. PICK order \in listByUser :
        changes' = [changes EXCEPT ![c].step = "write", ![c].lines = fileText(order)]
  BY DEF ListMemories
<1>2. q.step = "list" /\ UNCHANGED <<memories, memoryFile, made, stale>> BY DEF ListMemories, Store
<1>3. /\ MemoriesTyped /\ RowsTyped /\ made \in 0..MaxChanges /\ memoryFile \in Seq(FileLines)
      /\ stale \in BOOLEAN /\ changes \in [Changers -> MemoryRequests] /\ Underway(q)
  BY InvParts
<1>4. q \in MemoryRequests /\ q.op \in {"post", "patch", "delete"}
  BY <1>2, <1>3, NoChangeIs DEF Underway
<1> DEFINE text == fileText(order)
           r == [q EXCEPT !.step = "write", !.lines = text]
<1>5. changes' = [changes EXCEPT ![c] = r] BY <1>1, <1>3
<1>6. text \in Seq(FileLines) BY <1>3, FileIsRows
<1> HIDE DEF q, text
<1>7. r \in MemoryRequests BY <1>4, <1>6 DEF MemoryRequests, WriterSteps
<1>8. r.op = q.op /\ r.step = "write" /\ r.name = q.name /\ r.id = q.id /\ r.lines = text
  BY <1>4 DEF MemoryRequests
<1> HIDE DEF r
<1>9. Underway(r) BY <1>3, <1>4, <1>7, <1>8 DEF Underway, WriterSteps
<1>10. /\ changes' \in [Changers -> MemoryRequests] /\ \A d \in Changers : Underway(changes'[d])
       /\ changes'[c] = r /\ Busy' = (Busy \ {c}) \cup (IF r = NoChange THEN {} ELSE {c})
  BY <1>3, <1>5, <1>9, OneChanges
<1>11. RowsTyped' /\ NamesApart' /\ listByUser' = listByUser /\ fileText(order)' = fileText(order)
       /\ \A o \in listByUser : fileText(o)' = fileText(o)
  BY <1>2, RowsKept
<1>12. c \in Busy /\ (~stale => Busy = {c}) BY <1>4, Sole DEF q
<1>13. FileTrue'
  <2> SUFFICES ASSUME ~stale' PROVE FileTrue' BY DEF FileTrue
  <2>1. Busy' = {c}
    <3> HIDE DEF Busy
    <3>1. r # NoChange BY <1>8, NoChangeIs
    <3>2. QED BY <1>2, <1>10, <1>12, <3>1
  <2>2. changes'[c].op # "sync" /\ changes'[c].lines = text BY <1>4, <1>8, <1>10
  <2>3. \A d \in Busy' : ~At(d, "sync", "entry")' /\ d = c BY <2>1, <2>2 DEF At
  <2>4. \E o \in listByUser' : changes'[c].lines = fileText(o)'
    BY <1>11, <2>2 DEF text
  <2>5. \A d \in Busy' : (\E o \in listByUser : changes[d].lines = fileText(o))'
    BY <2>3, <2>4
  <2> HIDE DEF Busy
  <2>6. QED BY <2>1, <2>2, <2>3, <2>5 DEF FileTrue
<1>14. MemoriesTyped'
  <2> HIDE DEF Underway
  <2>1. QED BY <1>2, <1>3, <1>10, <1>11 DEF MemoriesTyped
<1>15. QED BY <1>11, <1>13, <1>14 DEF MemoriesInv

\* What the parser makes of a file, after a step.
LEMMA ParseNext == parseMemoryFile(memoryFile)' = parseMemoryFile(memoryFile')
BY DEF parseMemoryFile, parseMemoryEntry, SeparatorFrom, EntryFrom, EntryStart, Fields, Trim

\* The end of a request that does not fail.
LEMMA EndKeeps ==
  ASSUME MemoriesInv, NEW c \in Changers, changes[c].op # "none", End(c), UNCHANGED <<memories, made>>,
         memoryFile' \in Seq(FileLines), stale' \in BOOLEAN,
         ~stale' => ~stale /\ Range(parseMemoryFile(memoryFile')) = RowsTold
  PROVE  MemoriesInv'
<1>1. MemoriesTyped /\ made \in 0..MaxChanges BY InvParts
<1>2. changes' = [changes EXCEPT ![c] = NoChange] BY DEF End
<1>3. /\ changes' \in [Changers -> MemoryRequests] /\ \A d \in Changers : Underway(changes'[d])
      /\ Busy' = Busy \ {c}
  BY <1>1, <1>2, NoChangeIs, OneChanges
<1>4. RowsTyped' /\ NamesApart' /\ RowsTold' = RowsTold BY RowsKept
<1>5. FileTrue'
  <2> SUFFICES ASSUME ~stale' PROVE FileTrue' BY DEF FileTrue
  <2>1. Busy' = {}
    <3>1. Busy = {c} BY Sole
    <3> HIDE DEF Busy
    <3>2. QED BY <1>3, <3>1
  <2>2. Range(parseMemoryFile(memoryFile))' = RowsTold'
    <3>1. Range(parseMemoryFile(memoryFile))' = Range(parseMemoryFile(memoryFile'))
      BY ParseNext DEF Range
    <3>2. QED BY <1>4, <3>1
  <2> HIDE DEF Busy
  <2>3. QED BY <2>1, <2>2 DEF FileTrue
<1>6. MemoriesTyped'
  <2> HIDE DEF Underway
  <2>1. QED BY <1>1, <1>3, <1>4 DEF MemoriesTyped
<1>7. QED BY <1>4, <1>5, <1>6 DEF MemoriesInv

\* The file is written, of rows that are still the rows there are unless others came.
LEMMA WritesFile ==
  ASSUME MemoriesInv, NEW c \in Changers, WriteMemoryFile(c)
  PROVE  MemoriesInv'
<1> DEFINE spoilt == \E i \in DOMAIN memories : ~Carried(memories[i].body)
           q == changes[c]
<1>1. /\ q.step = "write" /\ memoryFile' = q.lines /\ End(c) /\ stale' = (stale \/ spoilt)
      /\ UNCHANGED <<memories, made>>
  BY DEF WriteMemoryFile
<1>2. MemoriesTyped /\ RowsTyped /\ FileTrue /\ stale \in BOOLEAN /\ q \in MemoryRequests BY InvParts
<1>3. q.op # "none"
  <2>1. Underway(q) BY InvParts
  <2>2. QED BY <1>1, <2>1, NoChangeIs DEF Underway
<1>4. memoryFile' \in Seq(FileLines) BY <1>1, <1>2 DEF MemoryRequests
<1>5. stale' \in BOOLEAN BY <1>1, <1>2
<1>6. ASSUME ~stale' PROVE ~stale /\ Range(parseMemoryFile(memoryFile')) = RowsTold
  <2>1. ~stale /\ ~spoilt BY <1>1, <1>2, <1>6
  <2>2. c \in Busy BY <1>3, Sole
  <2>3. PICK order \in listByUser : q.lines = fileText(order) BY <1>1, <1>2, <2>1, <2>2 DEF FileTrue
  <2>4. \A i \in DOMAIN memories : Carried(memories[i].body) BY <2>1
  <2>5. Range(parseMemoryFile(fileText(order))) = RowsTold BY <1>2, <2>4, FileIsRows
  <2>6. QED BY <1>1, <2>1, <2>3, <2>5
<1>7. QED BY <1>1, <1>3, <1>4, <1>5, <1>6, EndKeeps

\* A sync is at its end.
LEMMA SyncEnds ==
  ASSUME MemoriesInv, NEW c \in Changers, EndSync(c)
  PROVE  MemoriesInv'
<1>1. changes[c].op = "sync" /\ End(c) /\ UNCHANGED <<memories, memoryFile, made, stale>>
  BY DEF EndSync, At, Store
<1>2. FileTrue /\ memoryFile \in Seq(FileLines) /\ stale \in BOOLEAN BY InvParts
<1>3. ASSUME ~stale PROVE Range(parseMemoryFile(memoryFile)) = RowsTold
  <2>1. Busy = {c} BY <1>1, <1>3, Sole
  <2>2. \A d \in Busy : changes[d].op = "sync" BY <1>1, <2>1
  <2>3. QED BY <1>2, <1>3, <2>2 DEF FileTrue
<1>4. memoryFile' = memoryFile /\ stale' = stale /\ UNCHANGED <<memories, made>> BY <1>1
<1>5. QED BY <1>1, <1>2, <1>3, <1>4, EndKeeps

\* A sync goes on, with entries to upsert.
LEMMA SyncGoesOn ==
  ASSUME MemoriesInv, NEW c \in Changers, changes[c].op = "sync", NEW todo \in Seq(Parseds),
         changes' = [changes EXCEPT ![c] = [changes[c] EXCEPT !.step = "entry", !.todo = todo]],
         RowsTyped', NamesApart', UNCHANGED <<memoryFile, made, stale>>,
         ~stale => RowsTold' = RowsTold /\ Range(todo) \in SUBSET RowsTold
  PROVE  MemoriesInv'
<1> DEFINE q == changes[c]
           r == [q EXCEPT !.step = "entry", !.todo = todo]
<1>1. MemoriesTyped /\ FileTrue /\ made \in 0..MaxChanges /\ memoryFile \in Seq(FileLines)
      /\ stale \in BOOLEAN /\ q \in MemoryRequests
  BY InvParts
<1>2. q.op = "sync" /\ changes' = [changes EXCEPT ![c] = r] OBVIOUS
<1> HIDE DEF q
<1>3. r \in MemoryRequests BY <1>1 DEF MemoryRequests
<1>4. r.op = "sync" /\ r.step = "entry" /\ r.todo = todo BY <1>1, <1>2 DEF MemoryRequests
<1> HIDE DEF r
<1>5. Underway(r) BY <1>3, <1>4 DEF Underway
<1>6. /\ changes' \in [Changers -> MemoryRequests] /\ \A d \in Changers : Underway(changes'[d])
      /\ changes'[c] = r /\ Busy' = (Busy \ {c}) \cup (IF r = NoChange THEN {} ELSE {c})
  BY <1>1, <1>2, <1>5, OneChanges
<1>7. FileTrue'
  <2> SUFFICES ASSUME ~stale' PROVE FileTrue' BY DEF FileTrue
  <2>1. ~stale /\ RowsTold' = RowsTold /\ Range(todo) \in SUBSET RowsTold OBVIOUS
  <2>2. Busy = {c} BY <1>2, <2>1, Sole DEF q
  <2>3. \A d \in Busy : changes[d].op = "sync" BY <1>2, <2>2 DEF q
  <2>4. Range(parseMemoryFile(memoryFile)) = RowsTold BY <1>1, <2>1, <2>3 DEF FileTrue
  <2>5. Busy' = {c}
    <3> HIDE DEF Busy
    <3>1. r # NoChange BY <1>4, NoChangeIs
    <3>2. QED BY <1>6, <2>2, <3>1
  <2>6. Range(parseMemoryFile(memoryFile))' = RowsTold'
    <3>1. Range(parseMemoryFile(memoryFile))' = Range(parseMemoryFile(memoryFile'))
      BY ParseNext DEF Range
    <3>2. memoryFile' = memoryFile OBVIOUS
    <3>3. QED BY <2>1, <2>4, <3>1, <3>2
  <2>7. \A d \in Busy' : d = c /\ changes'[d].step # "write" BY <1>4, <1>6, <2>5
  <2>8. \A d \in Busy' : Range(changes[d].todo)' \in SUBSET RowsTold'
    <3>1. Range(changes[c].todo)' = Range(todo) BY <1>4, <1>6 DEF Range
    <3>2. QED BY <2>1, <2>7, <3>1
  <2> HIDE DEF Busy
  <2>9. QED BY <2>5, <2>6, <2>7, <2>8 DEF FileTrue
<1>8. MemoriesTyped'
  <2> HIDE DEF Underway
  <2>1. QED BY <1>1, <1>6 DEF MemoriesTyped
<1>9. QED BY <1>7, <1>8 DEF MemoriesInv

\* The file is read and parsed.
LEMMA ReadsFile ==
  ASSUME MemoriesInv, NEW c \in Changers, ReadMemoryFile(c)
  PROVE  MemoriesInv'
<1> DEFINE todo == parseMemoryFile(memoryFile)
<1>1. /\ changes[c].op = "sync" /\ UNCHANGED <<memories, memoryFile, made, stale>>
      /\ changes' = [changes EXCEPT ![c].step = "entry", ![c].todo = todo]
  BY DEF ReadMemoryFile, At, Store
<1>2. FileTrue /\ memoryFile \in Seq(FileLines) /\ changes \in [Changers -> MemoryRequests] BY InvParts
<1>3. todo \in Seq(Parseds) BY <1>2, ParseStays
<1>4. RowsTyped' /\ NamesApart' /\ RowsTold' = RowsTold BY <1>1, RowsKept
<1> HIDE DEF todo
<1>5. changes' = [changes EXCEPT ![c] = [changes[c] EXCEPT !.step = "entry", !.todo = todo]]
  BY <1>1, <1>2
<1>6. ASSUME ~stale PROVE Range(todo) \in SUBSET RowsTold
  <2>1. Busy = {c} BY <1>1, <1>6, Sole
  <2>2. \A d \in Busy : changes[d].op = "sync" BY <1>1, <2>1
  <2>3. QED BY <1>2, <1>6, <2>2 DEF FileTrue, todo
<1>7. QED BY <1>1, <1>3, <1>4, <1>5, <1>6, SyncGoesOn

\* An entry of the file is upserted.
LEMMA SyncsEntry ==
  ASSUME MemoriesInv, NEW c \in Changers, SyncEntry(c)
  PROVE  MemoriesInv'
<1> DEFINE q == changes[c]
           parsed == Head(q.todo)
           fresh == CHOOSE i \in FreshId : TRUE
           entry == IF parsed.id # NoId THEN parsed ELSE [parsed EXCEPT !.id = fresh]
<1>1. /\ q.op = "sync" /\ q.step = "entry" /\ q.todo # <<>>
      /\ parsed.id = NoId => FreshId # {}
      /\ IF UpsertFails(entry) THEN Fail(c) /\ UNCHANGED memories
         ELSE /\ Upsert(entry)
              /\ changes' = [changes EXCEPT ![c].todo = Tail(@)]
              /\ UNCHANGED stale
      /\ UNCHANGED <<memoryFile, made>>
  BY DEF SyncEntry, At
<1>2. /\ MemoriesTyped /\ RowsTyped /\ NamesApart /\ FileTrue
      /\ changes \in [Changers -> MemoryRequests] /\ q \in MemoryRequests
  BY InvParts
<1>3. q.todo \in Seq(Parseds) BY <1>2 DEF MemoryRequests
<1>4. /\ parsed \in Parseds /\ Tail(q.todo) \in Seq(Parseds) /\ parsed \in Range(q.todo)
      /\ Range(Tail(q.todo)) \in SUBSET Range(q.todo)
  BY <1>1, <1>3, EntryIsRow
<1>5. parsed.id = NoId => fresh \in MemoryIds
  <2>1. FreshId \in SUBSET MemoryIds BY DEF FreshId
  <2>2. QED BY <1>1, <2>1
<1> DEFINE todo == Tail(q.todo)
<1> HIDE DEF parsed, fresh
<1>6. Upsertable(entry)
  <2>1. /\ parsed.name \in AllNames /\ parsed.id \in MemoryIds \cup {NoId}
        /\ parsed.body \in Seq(FileLines) /\ parsed.pinned \in BOOLEAN
    BY <1>4 DEF Parseds
  <2>2. CASE parsed.id # NoId BY <2>1, <2>2 DEF Upsertable
  <2>3. CASE parsed.id = NoId
    <3>1. entry.id = fresh /\ entry.name = parsed.name /\ entry.body = parsed.body
          /\ entry.pinned = parsed.pinned
      BY <1>4, <2>3 DEF Parseds
    <3> HIDE DEF entry
    <3>2. QED BY <1>5, <2>1, <2>3, <3>1 DEF Upsertable
  <2>4. QED BY <2>2, <2>3
<1>7. CASE UpsertFails(entry) BY <1>1, <1>7, FailsHalfway
<1>8. CASE ~UpsertFails(entry)
  <2>1. Upsert(entry) /\ UNCHANGED <<memoryFile, made, stale>>
        /\ changes' = [changes EXCEPT ![c].todo = Tail(@)]
    BY <1>1, <1>8
  <2>2. ASSUME ~stale PROVE RowsTold' = RowsTold /\ Range(todo) \in SUBSET RowsTold
    <3>1. c \in Busy BY <1>1, Sole
    <3>2. Range(q.todo) \in SUBSET RowsTold BY <1>1, <1>2, <2>2, <3>1 DEF FileTrue, At
    <3>3. PICK i \in DOMAIN memories : parsed = EntryTold(i, memories[i]) BY <1>4, <3>2 DEF RowsTold
    <3>4. parsed.id = i /\ i \in MemoryIds BY <1>2, <3>3 DEF EntryTold, RowsTyped
    <3>5. parsed.id # NoId BY <3>4, MemoryBounds
    <3>6. Upsert(EntryTold(i, memories[i])) BY <2>1, <3>3, <3>5
    <3>7. RowsTold' = RowsTold BY <1>2, <3>6, UpsertTold
    <3>8. QED BY <1>4, <3>2, <3>7
  <2> HIDE DEF entry
  <2>3. RowsTyped' /\ NamesApart' BY <1>2, <1>6, <2>1, UpsertKeeps
  <2>4. changes' = [changes EXCEPT ![c] = [q EXCEPT !.todo = todo]] BY <1>2, <2>1
  <2>5. [q EXCEPT !.todo = todo] = [q EXCEPT !.step = "entry", !.todo = todo]
    <3> HIDE DEF q, todo
    <3>1. QED BY <1>1, <1>2 DEF MemoryRequests
  <2> HIDE DEF todo
  <2>6. changes' = [changes EXCEPT ![c] = [changes[c] EXCEPT !.step = "entry", !.todo = todo]]
    BY <2>4, <2>5
  <2>7. todo \in Seq(Parseds) BY <1>4 DEF todo
  <2>8. changes[c].op = "sync" BY <1>1
  <2> HIDE DEF q
  <2>9. QED BY <2>1, <2>2, <2>3, <2>6, <2>7, <2>8, SyncGoesOn
<1>9. QED BY <1>7, <1>8

\* An editor changes the file, of which nothing is said after.
LEMMA EditKeeps ==
  ASSUME MemoriesInv, NEW name \in MemoryNames, EditFile(name)
  PROVE  MemoriesInv'
<1>1. /\ MemoriesTyped /\ made \in 0..MaxChanges /\ memoryFile \in Seq(FileLines) BY InvParts
<1>2. /\ made < MaxChanges /\ made' = made + 1 /\ stale' = TRUE /\ memories' = memories /\ changes' = changes
      /\ \/ Len(memoryFile) > 2 /\ memoryFile' = [memoryFile EXCEPT ![3] = Field("name", name)]
         \/ memoryFile' = memoryFile \o <<Separator, Field("name", name), Separator>>
  BY DEF EditFile
<1>3. RowsTyped' /\ NamesApart' BY <1>2, RowsKept
<1>4. made' \in 0..MaxChanges
  <2>1. MaxChanges \in Nat BY MemoryBounds
  <2>2. QED BY <1>1, <1>2, <2>1
<1> DEFINE a == Field("name", name)
<1>5. a \in FileLines /\ Separator \in FileLines BY DEF FileLines, AllNames
<1> HIDE DEF a
<1>6. memoryFile' \in Seq(FileLines)
  <2>1. <<Separator, a, Separator>> \in Seq(FileLines) BY <1>5
  <2>2. memoryFile \o <<Separator, a, Separator>> \in Seq(FileLines) BY <1>1, <2>1, ConcatProperties
  <2>3. Len(memoryFile) > 2 => [memoryFile EXCEPT ![3] = a] \in Seq(FileLines)
    <3>1. Len(memoryFile) > 2 => 3 \in 1..Len(memoryFile) BY <1>1
    <3>2. QED BY <1>1, <1>5, <3>1, ExceptSeq
  <2>4. QED BY <1>2, <2>2, <2>3 DEF a
<1>7. changes' \in [Changers -> MemoryRequests] /\ \A c \in Changers : Underway(changes'[c])
  BY <1>1, <1>2 DEF MemoriesTyped
<1>8. MemoriesTyped'
  <2> HIDE DEF Underway
  <2>1. QED BY <1>2, <1>3, <1>4, <1>6, <1>7 DEF MemoriesTyped
<1>9. FileTrue' BY <1>2 DEF FileTrue
<1>10. QED BY <1>3, <1>8, <1>9 DEF MemoriesInv

\* Each step of the memories keeps it.
LEMMA MemoriesStep == ASSUME MemoriesInv, MemoriesNext PROVE MemoriesInv'
<1>1. ASSUME NEW c \in Changers, NEW name \in MemoryNames, NEW body \in MemoryBodies,
             NEW pinned \in BOOLEAN,
             \/ PostMemory(c, name, body, pinned)
             \/ \E id \in MemoryIds : PatchMemory(c, id, name, body, pinned)
      PROVE  MemoriesInv'
  BY <1>1, PostStarts, PatchStarts
<1>2. ASSUME NEW c \in Changers,
             \/ \E id \in MemoryIds : DeleteMemory(c, id)
             \/ SyncMemory(c)
             \/ ChangeByPost(c) \/ ReadBack(c) \/ ChangeByPatch(c) \/ ReadRow(c) \/ DeleteRow(c)
             \/ ListMemories(c) \/ WriteMemoryFile(c)
             \/ ReadMemoryFile(c) \/ SyncEntry(c) \/ EndSync(c)
      PROVE  MemoriesInv'
  BY <1>2, DeleteStarts, SyncStarts, PostChanges, ReadsBack, PatchChanges, ReadsRow, DeletesRow,
     ListsMemories, WritesFile, ReadsFile, SyncsEntry, SyncEnds
<1>3. ASSUME NEW name \in MemoryNames, EditFile(name) PROVE MemoriesInv' BY <1>3, EditKeeps
<1>4. QED BY <1>1, <1>2, <1>3 DEF MemoriesNext

\* So does a step of another part.
LEMMA MemoriesStay == ASSUME MemoriesInv, UNCHANGED memoryVars PROVE MemoriesInv'
<1>1. /\ MemoriesTyped /\ RowsTyped /\ FileTrue BY InvParts
<1>2. /\ memories' = memories /\ memoryFile' = memoryFile /\ changes' = changes /\ made' = made
      /\ stale' = stale
  BY DEF memoryVars
<1>3. RowsTyped' /\ NamesApart' /\ RowsTold' = RowsTold /\ listByUser' = listByUser
      /\ \A order : fileText(order)' = fileText(order)
  BY <1>2, RowsKept
<1>4. MemoriesTyped'
  <2> HIDE DEF Underway
  <2>1. \A c \in Changers : Underway(changes[c]) BY <1>1 DEF MemoriesTyped
  <2>2. \A c \in Changers : Underway(changes'[c]) BY <1>2, <2>1
  <2>3. QED BY <1>1, <1>2, <1>3, <2>2 DEF MemoriesTyped
<1>5. Busy' = Busy BY <1>2 DEF Busy
<1>6. Range(parseMemoryFile(memoryFile))' = Range(parseMemoryFile(memoryFile))
  <2>1. Range(parseMemoryFile(memoryFile))' = Range(parseMemoryFile(memoryFile')) BY ParseNext DEF Range
  <2>2. QED BY <1>2, <2>1
<1>7. \A c : Range(changes[c].todo)' = Range(changes[c].todo) BY <1>2 DEF Range
<1>8. \A c : At(c, "sync", "entry")' <=> At(c, "sync", "entry") BY <1>2 DEF At
<1> HIDE DEF Busy
<1>9. FileTrue'
  <2> SUFFICES ASSUME ~stale' PROVE FileTrue' BY DEF FileTrue
  <2>1. /\ \A c, d \in Busy : c = d
        /\ (\A c \in Busy : changes[c].op = "sync") => Range(parseMemoryFile(memoryFile)) = RowsTold
        /\ \A c \in Busy : changes[c].step = "write" =>
             \E order \in listByUser : changes[c].lines = fileText(order)
        /\ \A c \in Busy : At(c, "sync", "entry") => Range(changes[c].todo) \in SUBSET RowsTold
    BY <1>1, <1>2 DEF FileTrue
  <2>2. \A c \in Busy' : changes'[c].step = "write" =>
          \E order \in listByUser' : changes'[c].lines = fileText(order)'
    BY <1>2, <1>3, <1>5, <2>1
  <2>3. \A c \in Busy' : At(c, "sync", "entry")' => Range(changes[c].todo)' \in SUBSET RowsTold'
    BY <1>3, <1>5, <1>7, <1>8, <2>1
  <2>4. (\A c \in Busy' : changes'[c].op = "sync") => Range(parseMemoryFile(memoryFile))' = RowsTold'
    BY <1>2, <1>3, <1>5, <1>6, <2>1
  <2>5. \A c, d \in Busy' : c = d BY <1>5, <2>1
  <2>6. QED BY <2>2, <2>3, <2>4, <2>5 DEF FileTrue
<1>10. QED BY <1>3, <1>4, <1>9 DEF MemoriesInv

\* Without memories it holds.
LEMMA MemoriesAtRest == ASSUME MemoriesInit \/ MemoriesRest PROVE MemoriesInv
<1>1. /\ memories = <<>> /\ memoryFile = <<>> /\ changes = [c \in Changers |-> NoChange]
      /\ made = 0 /\ stale \in BOOLEAN
  BY DEF MemoriesInit, MemoriesRest
<1>2. DOMAIN memories = {} BY <1>1
<1>3. RowsTyped /\ NamesApart
  <2>1. IsFiniteSet({}) BY FS_EmptySet
  <2>2. memories \in [{} -> MemoryRows] BY <1>1
  <2>3. QED BY <1>2, <2>1, <2>2 DEF RowsTyped, NamesApart
<1>4. MaxChanges \in Nat BY MemoryBounds
<1>5. MemoriesTyped
  <2>1. NoChange \in MemoryRequests /\ Underway(NoChange) BY NoChangeIs DEF Underway
  <2> HIDE DEF Underway
  <2>2. changes \in [Changers -> MemoryRequests] /\ \A c \in Changers : Underway(changes[c]) BY <1>1, <2>1
  <2>3. memoryFile \in Seq(FileLines) BY <1>1
  <2>4. QED BY <1>1, <1>3, <1>4, <2>2, <2>3 DEF MemoriesTyped
<1>6. Busy = {} BY <1>1 DEF Busy
<1>7. Range(parseMemoryFile(memoryFile)) = RowsTold
  <2>1. RowsTold = {} BY <1>2 DEF RowsTold
  <2>2. <<>> \in Seq(FileLines) /\ Len(<<>>) = 0 OBVIOUS
  <2>3. PICK f \in [1..(Len(<<>>) + 1) -> Seq(Parseds)] :
          /\ parseMemoryFile(<<>>) = f[1]
          /\ \A i \in 1..(Len(<<>>) + 1) :
               f[i] = IF CloseAt(<<>>, i) > Len(<<>>) THEN <<>>
                      ELSE EntryAt(<<>>, i) \o f[NextAt(<<>>, i)]
    BY <2>2, ParseIs
  <2>4. 1 \in 1..(Len(<<>>) + 1) BY <2>2
  <2>5. CloseAt(<<>>, 1) \in 1..(Len(<<>>) + 1) BY <2>2, <2>4, GoesOn
  <2>6. CloseAt(<<>>, 1) > Len(<<>>) BY <2>2, <2>5
  <2>7. parseMemoryFile(<<>>) = <<>> BY <2>3, <2>4, <2>6
  <2>8. Range(<<>>) = {} BY DEF Range
  <2>9. QED BY <1>1, <2>1, <2>7, <2>8
<1>8. FileTrue BY <1>6, <1>7 DEF FileTrue
<1>9. QED BY <1>3, <1>5, <1>8 DEF MemoriesInv

\* What a reader is given is what the rows say: once no request is at work MEMORY.md read back
\* is the rows, after changes that overlapped or failed from the next one on that had the daemon
\* for itself; and the block of a conversation holds every pinned memory and the others by rank.
THEOREM MemoriesReachReadersHolds == Spec => []MemoriesReachReaders
<1>1. Init => MemoriesInv BY MemoriesAtRest DEF Init, RestBut
<1>2. MemoriesInv /\ [Next]_partsVars => MemoriesInv'
  <2> SUFFICES ASSUME MemoriesInv, [Next]_partsVars PROVE MemoriesInv' OBVIOUS
  <2>1. CASE MemoriesNext BY <2>1, MemoriesStep
  <2>2. CASE UNCHANGED memoryVars BY <2>2, MemoriesStay
  <2>3. QED BY <2>1, <2>2 DEF Next, StillBut, partsVars
<1>3. QED BY <1>1, <1>2, MemoriesInvTells, PTL DEF Spec
=============================================================================
