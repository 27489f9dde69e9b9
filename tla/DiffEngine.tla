----------------------------- MODULE DiffEngine -----------------------------
(***************************************************************************)
(* packages/diff-engine: the unified diff the implement model answered with   *)
(* is parsed and applied to the files of the sandbox, file by file, each read  *)
(* and written by an exec that is awaited.                                     *)
(*                                                                         *)
(* A line is a sequence of characters.  A content is what split("\n") makes    *)
(* of it, so << <<>> >> is the empty file and a last empty line stands for a   *)
(* newline at the end.  A raw line of a diff is [tag, text]: the tag is what    *)
(* the line starts with, as parseUnifiedDiff tells lines apart.  Left out: the *)
(* fences around a diff, and the section of a hunk.                            *)
(***************************************************************************)
EXTENDS Integers, Sequences, SequencesExt, FiniteSetsExt

CONSTANTS
  DiffCases,   \* bound: what is asked, see DiffInit
  UnsafePaths, \* with "..", or from the root
  Radius       \* fuzzySearchRadius, 5 unless an option says otherwise

ASSUME RadiusAssumption == Radius \in Nat

DevNull == "/dev/null"
Missing == << >>
EmptyContent == << <<>> >>

VARIABLES
  asked,     \* the case
  targets,   \* the files: [path -> content], Missing if there is none
  patches,   \* the parsed patches still to apply
  original,  \* what was read of the first of them
  applyStep, \* "parse", "read", "write", "applied", "failed", "rejected"
  failures   \* the files of the failures collected

diffVars == <<asked, targets, patches, original, applyStep, failures>>

DiffRest ==
  /\ asked = [files |-> <<>>, diff |-> <<>>, gives |-> {}, hopeless |-> {}]
  /\ targets = <<>> /\ patches = <<>> /\ original = Missing
  /\ applyStep = "applied" /\ failures = {}

\* A case is the files there are and the lines of the diff; of a diff that was
\* made of a file it also says the file the diff makes of it, and of one with a
\* patch that fits nowhere what its file is left as.
DiffInit ==
  /\ asked \in DiffCases
  /\ targets = asked.files
  /\ patches = <<>> /\ original = Missing
  /\ applyStep = "parse" /\ failures = {}

-----------------------------------------------------------------------------
(* Parsing. *)

\* patchTargetPath
TargetOf(patch) == IF patch.newPath = DevNull THEN patch.oldPath ELSE patch.newPath

OnLast(f(_), s) == [s EXCEPT ![Len(s)] = f(@)]

Unparsed == [patches |-> <<>>, inPatch |-> FALSE, inHunk |-> FALSE, error |-> FALSE]

TypeOfTag == [x \in {" ", "+", "-"} |->
                CASE x = " " -> "context" [] x = "+" -> "add" [] x = "-" -> "remove"]

\* One line of the loop.  A header's text is a path, a hunk header's the line the
\* hunk starts at, or none if the header is not one.
ParseLine(state, raw) ==
  CASE state.error -> state
    [] raw.tag = "diff" -> [state EXCEPT !.inPatch = FALSE, !.inHunk = FALSE]
    [] raw.tag = "---" ->
         [state EXCEPT !.patches = Append(@, [oldPath |-> raw.text, newPath |-> "", hunks |-> <<>>]),
                       !.inPatch = TRUE, !.inHunk = FALSE]
    [] raw.tag = "+++" ->
         IF ~state.inPatch THEN [state EXCEPT !.error = TRUE]
         ELSE [state EXCEPT !.patches = OnLast(LAMBDA p : [p EXCEPT !.newPath = raw.text], @)]
    [] raw.tag = "@@" ->
         IF ~state.inPatch THEN [state EXCEPT !.error = TRUE]
         ELSE [state EXCEPT !.inHunk = TRUE,
                 !.patches = OnLast(LAMBDA p : [p EXCEPT !.hunks =
                                      Append(@, [originalStart |-> raw.text, lines |-> <<>>])], @)]
    [] raw.tag \in {" ", "+", "-"} /\ state.inHunk ->
         [state EXCEPT !.patches = OnLast(LAMBDA p : [p EXCEPT !.hunks =
            OnLast(LAMBDA h : [h EXCEPT !.lines =
                     Append(@, [type |-> TypeOfTag[raw.tag], content |-> raw.text])], @)], @)]
    [] OTHER -> state

parseUnifiedDiff(lines) ==
  LET parsed == FoldLeft(ParseLine, Unparsed, lines)
      Incomplete(p) == p.newPath = "" \/ p.hunks = <<>>
  IN [patches |-> parsed.patches,
      error   |-> \/ parsed.error \/ parsed.patches = <<>>
                  \/ \E i \in DOMAIN parsed.patches : Incomplete(parsed.patches[i])]

\* The raw line of a line of a hunk.  A removed line that begins with "-- " reads
\* as the header of a file, and an added one that begins with "++ " as the other.
Dashes == <<"-", "-", " ">>
Pluses == <<"+", "+", " ">>
RawLine(type, content) ==
  CASE type = "context" -> [tag |-> " ", text |-> content]
    [] type = "add"    -> [tag |-> IF IsPrefix(Pluses, content) THEN "+++" ELSE "+", text |-> content]
    [] type = "remove" -> [tag |-> IF IsPrefix(Dashes, content) THEN "---" ELSE "-", text |-> content]

\* formatFilePatch
formatFilePatch(patch) ==
  << [tag |-> "---", text |-> patch.oldPath], [tag |-> "+++", text |-> patch.newPath] >>
  \o FlattenSeq([h \in DOMAIN patch.hunks |->
       << [tag |-> "@@", text |-> patch.hunks[h].originalStart] >>
       \o [i \in DOMAIN patch.hunks[h].lines |->
             RawLine(patch.hunks[h].lines[i].type, patch.hunks[h].lines[i].content)]])

-----------------------------------------------------------------------------
(* Applying the hunks of a file. *)

splitLines(content) ==
  CASE content = EmptyContent -> <<>>
    [] content # EmptyContent /\ Last(content) = <<>> -> Front(content)
    [] OTHER -> content

EndsWithNewline(content) == Len(content) > 1 /\ Last(content) = <<>>

\* joinLines: of no lines at all, "" or a newline.
joinLines(lines, newline) ==
  (IF lines = <<>> THEN EmptyContent ELSE lines) \o (IF newline THEN EmptyContent ELSE <<>>)

Without(lines, type) ==
  LET kept == SelectSeq(lines, LAMBDA l : l.type # type)
  IN [i \in DOMAIN kept |-> kept[i].content]
hunkSourceLines(hunk) == Without(hunk.lines, "add")

\* slice(index, index + n), with indices from 0.
Slice(lines, index, n) == SubSeq(lines, index + 1, Min({index + n, Len(lines)}))

Text(lines) ==
  FoldLeft(LAMBDA text, i : text \o (IF i = 1 THEN <<>> ELSE <<"newline">>) \o lines[i],
           <<>>, [i \in DOMAIN lines |-> i])

\* levenshteinDistance: a row for each character on the left.
levenshteinDistance(left, right) ==
  LET NextRow(row, char) ==
        FoldLeft(LAMBDA next, j :
                   Append(next, Min({row[j + 1] + 1, next[j] + 1,
                                     row[j] + (IF char = right[j] THEN 0 ELSE 1)})),
                 <<row[1] + 1>>, [j \in 1..Len(right) |-> j])
  IN Last(FoldLeft(NextRow, [j \in 1..Len(right) + 1 |-> j - 1], left))

\* similarity, as a fraction of the longer text.
Fraction(distance, longest) == [of |-> longest, same |-> longest - distance]
TextSimilarity(left, right) ==
  Fraction(levenshteinDistance(left, right), Max({Len(left), Len(right), 1}))
Similarity(left, right) == TextSimilarity(Text(left), Text(right))
AtLeast(s, t) == s.same * t.of >= t.same * s.of
MinimumConfidence == [of |-> 10, same |-> 8]

NoMatch == -1

\* The first of the most similar places.
MostSimilar(confidence) ==
  LET best == {i \in DOMAIN confidence :
                 /\ AtLeast(confidence[i], MinimumConfidence)
                 /\ \A j \in DOMAIN confidence : AtLeast(confidence[i], confidence[j])}
  IN IF best = {} THEN NoMatch ELSE Min(best)

\* findFuzzyMatch: around the expected place.
findFuzzyMatch(lines, source, expected) ==
  MostSimilar([i \in Max({0, expected - Radius})
                     ..Min({Len(lines) - Len(source), expected + Radius}) |->
                 Similarity(source, Slice(lines, i, Len(source)))])

\* findExactMatch, and what takes its place.
MatchIndex(lines, source, expected) ==
  IF Slice(lines, expected, Len(source)) = source THEN expected
  ELSE findFuzzyMatch(lines, source, expected)

\* hunkReplacementLines: a context line stays as the file has it.
hunkReplacementLines(hunk, matched) ==
  FoldLeft(LAMBDA r, line :
             CASE line.type = "add"     -> [r EXCEPT !.lines = Append(@, line.content)]
               [] line.type = "context" -> [r EXCEPT !.lines = Append(@, matched[r.next]), !.next = @ + 1]
               [] line.type = "remove"  -> [r EXCEPT !.next = @ + 1],
           [lines |-> <<>>, next |-> 1], hunk.lines).lines

\* What takes the place of n lines from an index on.
Splice(state, index, n, replacement) ==
  IF index = NoMatch THEN [state EXCEPT !.failed = TRUE]
  ELSE [state EXCEPT !.lines = Slice(@, 0, index) \o replacement \o SubSeq(@, index + n + 1, Len(@)),
                     !.offset = @ + Len(replacement) - n]

ApplyAt(state, hunk, source, index) ==
  Splice(state, index, Len(source),
         hunkReplacementLines(hunk, Slice(state.lines, index, Len(source))))

ApplyFrom(state, hunk, source, expected) ==
  ApplyAt(state, hunk, source, MatchIndex(state.lines, source, expected))

\* One hunk, in the lines the hunks above it left.
ApplyHunk(state, hunk) ==
  ApplyFrom(state, hunk, hunkSourceLines(hunk), Max({0, hunk.originalStart - 1 + state.offset}))

applyFilePatch(content, patch) ==
  LET done == FoldLeft(ApplyHunk, [lines |-> splitLines(content), offset |-> 0, failed |-> FALSE],
                       patch.hunks)
  IN [failed |-> done.failed, content |-> joinLines(done.lines, EndsWithNewline(content))]

-----------------------------------------------------------------------------
(* apply. *)

\* A diff that does not parse is a failure, for the model to try again.
ParseDiff ==
  /\ applyStep = "parse"
  /\ LET parsed == parseUnifiedDiff(asked.diff) IN
     IF parsed.error THEN applyStep' = "failed" /\ UNCHANGED patches
     ELSE applyStep' = "read" /\ patches' = parsed.patches
  /\ UNCHANGED <<asked, targets, original, failures>>

Target == TargetOf(Head(patches))

Skip(path) ==
  /\ failures' = failures \cup {path}
  /\ patches' = Tail(patches)
  /\ applyStep' = "read"
  /\ UNCHANGED <<targets, original>>

Rejected ==
  /\ applyStep' = "rejected"
  /\ UNCHANGED <<targets, patches, original, failures>>

Reads(content) ==
  /\ original' = content
  /\ applyStep' = "write"
  /\ UNCHANGED <<targets, patches, failures>>

\* cat fails on a file that is not there, and ends it all.
ReadTarget ==
  /\ applyStep = "read" /\ patches # <<>>
  /\ CASE Target \in UnsafePaths -> Skip(Target)
       [] Target \notin UnsafePaths /\ Head(patches).oldPath = DevNull -> Reads(EmptyContent)
       [] Target \notin UnsafePaths /\ Head(patches).oldPath # DevNull ->
            IF targets[Target] = Missing THEN Rejected ELSE Reads(targets[Target])
  /\ UNCHANGED asked

WriteTarget ==
  /\ applyStep = "write"
  /\ LET result == applyFilePatch(original, Head(patches)) IN
     IF result.failed THEN Skip(Target)
     ELSE /\ targets' = [targets EXCEPT ![Target] = result.content]
          /\ patches' = Tail(patches)
          /\ applyStep' = "read"
          /\ UNCHANGED <<original, failures>>
  /\ UNCHANGED asked

\* The sandbox rejects an exec, or its command fails.
ExecRejects ==
  /\ applyStep \in {"read", "write"} /\ patches # <<>>
  /\ Rejected
  /\ UNCHANGED asked

EndApply ==
  /\ applyStep = "read" /\ patches = <<>>
  /\ applyStep' = IF failures = {} THEN "applied" ELSE "failed"
  /\ UNCHANGED <<asked, targets, patches, original, failures>>

DiffNext == ParseDiff \/ ReadTarget \/ WriteTarget \/ ExecRejects \/ EndApply

-----------------------------------------------------------------------------
(* Reference: the diff of a file.  A script is the lines of the old file and of *)
(* the new one, each of them context, removed or added.                         *)

OldFile(script) == Without(script, "add")
NewFile(script) == Without(script, "remove")

\* Runs of lines at most context away from a change, each a hunk.  One that only
\* adds is numbered by the line above it.
OwnHunks(script, context) ==
  LET Near(i) == \E j \in DOMAIN script : /\ script[j].type # "context"
                                          /\ i - j \in -context..context
      starts  == {i \in DOMAIN script : Near(i) /\ (i = 1 \/ ~Near(i - 1))}
      End(i)  == Max({j \in i..Len(script) : \A k \in i..j : Near(k)})
      ordered == SetToSortSeq(starts, <)
  IN [h \in DOMAIN ordered |->
        [first |-> ordered[h], last |-> End(ordered[h]),
         originalStart |-> Len(OldFile(SubSeq(script, 1, ordered[h] - 1)))
                           + (IF \E i \in ordered[h]..End(ordered[h]) : script[i].type # "add"
                              THEN 1 ELSE 0),
         lines |-> SubSeq(script, ordered[h], End(ordered[h]))]]

\* The file when the hunks above a place of the script are applied, below some
\* lines it got at its head since the diff was made.
Between(script, head, place) ==
  head \o NewFile(SubSeq(script, 1, place)) \o OldFile(SubSeq(script, place + 1, Len(script)))

Occurrences(lines, source) ==
  {i \in 0..Len(lines) - Len(source) : Slice(lines, i, Len(source)) = source}

\* What a diff can be relied on for: each hunk has a line to find, of a file that
\* has moved found in one place; no line reads as a header; and some line is left
\* of the file.
Reliable(script, head, context) ==
  LET hunks == OwnHunks(script, context) IN
  /\ hunks # <<>> /\ NewFile(script) # <<>> /\ Len(head) <= Radius
  /\ \A h \in DOMAIN hunks :
       LET source == hunkSourceLines(hunks[h]) IN
       /\ source # <<>>
       /\ \/ head = <<>>
          \/ Cardinality(Occurrences(Between(script, head, hunks[h].first - 1), source)) = 1
       /\ \A i \in DOMAIN hunks[h].lines :
            LET l == hunks[h].lines[i]
            IN RawLine(l.type, l.content).tag \in {" ", "+", "-"}

\* The case of that diff, applied to that file.
OwnCase(script, head, context) ==
  LET hunks == OwnHunks(script, context)
      patch == [oldPath |-> "f", newPath |-> "f",
                hunks |-> [h \in DOMAIN hunks |->
                  [originalStart |-> hunks[h].originalStart, lines |-> hunks[h].lines]]]
  IN [files |-> [f \in {"f"} |-> joinLines(head \o OldFile(script), TRUE)],
      diff |-> formatFilePatch(patch),
      gives |-> IF Reliable(script, head, context)
                THEN {<<"f", joinLines(head \o NewFile(script), TRUE)>>} ELSE {},
      hopeless |-> {}]

-----------------------------------------------------------------------------
DiffTypeOK ==
  /\ DOMAIN targets \subseteq DOMAIN asked.files
  /\ applyStep \in {"parse", "read", "write", "applied", "failed", "rejected"}
  /\ failures \subseteq DOMAIN asked.files \cup UnsafePaths

\* The diff of a file, applied to that file or to one that has moved by at most
\* the radius, gives the new file, also when another file of the diff fails.
OwnDiffApplies ==
  \A expected \in asked.gives :
    /\ expected[1] \notin failures
    /\ applyStep \in {"applied", "failed"} => targets[expected[1]] = expected[2]

\* What the patches of a path can leave of it, each applied whole or left out, and
\* whether one is lacking.
Outcomes(path) ==
  LET Before(patch, content) == IF patch.oldPath = DevNull THEN EmptyContent ELSE content
      Results(patch, outcomes) ==
        {[o EXCEPT !.content = applyFilePatch(Before(patch, o.content), patch).content] :
           o \in {o \in outcomes : /\ Before(patch, o.content) # Missing
                                   /\ ~applyFilePatch(Before(patch, o.content), patch).failed}}
      After(outcomes, patch) ==
        IF TargetOf(patch) # path THEN outcomes
        ELSE Results(patch, outcomes) \cup {[o EXCEPT !.lacking = TRUE] : o \in outcomes}
  IN FoldLeft(After, {[content |-> asked.files[path], lacking |-> FALSE]},
              parseUnifiedDiff(asked.diff).patches)

\* A patch is applied whole or not at all, whatever the other patches of its file and
\* of other files did, and apply says when one is lacking.  A file with two patches
\* can keep one of them: it is the patch that is whole, not the file.
PatchesWhole ==
  /\ \A path \in DOMAIN asked.files :
       \E o \in Outcomes(path) : /\ targets[path] = o.content
                                 /\ path \in failures => o.lacking
                                 /\ applyStep = "applied" => ~o.lacking
  /\ \A left \in asked.hopeless :
       /\ applyStep # "applied"
       /\ applyStep = "failed" => targets[left[1]] = left[2]

\* A diff does what it says, and a patch that fails leaves its file alone.
DiffsApplyRight == DiffTypeOK /\ OwnDiffApplies /\ PatchesWhole
=============================================================================
