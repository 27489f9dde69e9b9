------------------------------ MODULE MCParts ------------------------------
(* The inputs of the run of Parts. *)
EXTENDS Parts, MCExecutions

-----------------------------------------------------------------------------
(* Memories: a body with a bare separator in it, and one that breaks the file. *)

Prose == [kind |-> "text", key |-> "none", value |-> "t"]
MCBodies == {<<Prose, Separator, Prose, Blank>>, <<Prose, Separator, Field("name", "n")>>}

-----------------------------------------------------------------------------
(* Diffs of a file: files of three lines, up to a renaming of lines, and two of  *)
(* five; any lines removed, one added anywhere; hunks with and without context; *)
(* applied to the file, and to the file with two lines more at its head.        *)

OldFiles ==
  {f \in [1..3 -> 1..3] : \A i \in 1..3 : f[i] <= Max({0} \cup {f[j] : j \in 1..i - 1}) + 1}
  \cup {<<1, 2, 3, 4, 5>>, <<1, 2, 1, 2, 3>>}
Letters == <<"a", "b", "c", "d", "e">>

Script(f, removed, at) ==
  LET Old(i) == [type    |-> IF i \in removed THEN "remove" ELSE "context",
                 content |-> <<Letters[f[i]]>>]
      New == [type |-> "add", content |-> <<"n">>]
  IN FlattenSeq([i \in 1..Len(f) |-> IF i = at THEN <<New, Old(i)>> ELSE <<Old(i)>>])
     \o (IF at = Len(f) + 1 THEN <<New>> ELSE <<>>)

Own ==
  UNION {{OwnCase(Script(f, removed, at), head, context) :
            removed \in SUBSET DOMAIN f, at \in 0..Len(f) + 1,
            head \in {<<>>, << <<"h">>, <<"h">> >>}, context \in 0..1} : f \in OldFiles}

(* Diffs of two files: with a hunk that is nowhere, one that is nearly there, a  *)
(* new file, a file that is missing, an unsafe path, a deletion, no diff at all; *)
(* and of one file twice, as the patches of two workers make one.                *)

Line1 == <<"a", "b", "c", "d", "e", "f">>
Line1Misquoted == <<"a", "b", "c", "d", "e", "g">>
FileF == << Line1, <<"u">>, <<"v">>, <<"w">>, <<"x">>, <<"y">>, <<"z">> >>
FileG == << <<"p">>, <<"q">> >>

RawLines(tag, text) == << [tag |-> tag, text |-> text] >>
Hunk(start) == RawLines("@@", start)
Headers(oldPath, newPath) == RawLines("---", oldPath) \o RawLines("+++", newPath)

GPatch == Headers("g", "g") \o Hunk(1) \o RawLines(" ", <<"p">>) \o RawLines("-", <<"q">>)
FPatchNowhere ==
  Headers("f", "f") \o Hunk(3) \o RawLines("-", <<"v">>) \o RawLines("+", <<"V">>)
                    \o Hunk(6) \o RawLines("-", <<"!", "?", "%", "&">>)
FPatchNearly ==
  Headers("f", "f") \o Hunk(1) \o RawLines(" ", Line1Misquoted) \o RawLines("+", <<"N">>)
                    \o RawLines(" ", <<"u">>)
FPatchOnce    == Headers("f", "f") \o Hunk(3) \o RawLines("-", <<"v">>) \o RawLines("+", <<"V">>)
FPatchAgain   == Headers("f", "f") \o Hunk(5) \o RawLines("-", <<"x">>) \o RawLines("+", <<"X">>)
FPatchMissing == Headers("f", "f") \o Hunk(6) \o RawLines("-", <<"!", "?", "%", "&">>)
HPatchNew == Headers(DevNull, "h") \o Hunk(0) \o RawLines("+", <<"p">>)

GPatched == <<"g", joinLines(<< <<"p">> >>, TRUE)>>
FPatched == <<"f", joinLines(<<Line1, <<"N">>>> \o Tail(FileF), TRUE)>>
FUnpatched == <<"f", joinLines(FileF, TRUE)>>
FPatchedOnce == <<"f", joinLines([FileF EXCEPT ![3] = <<"V">>], TRUE)>>
FPatchedTwice == <<"f", joinLines(<<Line1, <<"N">>>> \o Tail([FileF EXCEPT ![5] = <<"X">>]), TRUE)>>
HPatched == <<"h", << <<"p">> >> >>

TwoFiles ==
  [f \in {"f", "g", "h"} |-> CASE f = "f" -> joinLines(FileF, TRUE)
                               [] f = "g" -> joinLines(FileG, TRUE)
                               [] f = "h" -> Missing]
Case(diff, gives, hopeless) ==
  [files |-> TwoFiles, diff |-> diff, gives |-> gives, hopeless |-> hopeless]

Several ==
  {Case(FPatchNowhere \o GPatch, {GPatched}, {FUnpatched}),
   Case(GPatch \o FPatchNowhere, {GPatched}, {FUnpatched}),
   Case(FPatchOnce \o FPatchMissing \o GPatch, {GPatched}, {FPatchedOnce}),
   Case(FPatchMissing \o FPatchOnce, {}, {FPatchedOnce}),
   Case(FPatchNearly \o FPatchAgain, {FPatchedTwice}, {}),
   Case(FPatchNearly \o GPatch, {FPatched, GPatched}, {}),
   Case(HPatchNew \o GPatch, {HPatched, GPatched}, {}),
   Case(Headers("out", "out") \o Hunk(1) \o RawLines("-", <<"p">>) \o GPatch, {GPatched}, {}),
   Case(Headers("h", "h") \o Hunk(1) \o RawLines("-", <<"p">>) \o GPatch, {}, {}),
   Case(Headers("g", DevNull) \o Hunk(1) \o RawLines("-", <<"p">>) \o RawLines("-", <<"q">>), {}, {}),
   Case(RawLines("diff", "") \o GPatch \o RawLines("diff", "") \o Hunk(1), {}, {}),
   Case(RawLines("diff", "") \o GPatch \o RawLines("diff", "") \o RawLines("+++", "g"), {}, {}),
   Case(Headers("g", "g") \o RawLines("x", "junk"), {}, {}),
   Case(Headers("g", "g") \o Hunk(1) \o <<RawLine("remove", Dashes)>>, {}, {})}

MCCases == Own \cup Several

-----------------------------------------------------------------------------
(* Completions. *)

ToolCall(id, args) == [id |-> id, args |-> args]
Whole == << Opening, "x", Closing >>

Ask(api, guard, recounts, kind, effort, phase, calls) ==
  [api |-> api, guard |-> guard, recounts |-> recounts, kind |-> kind,
   effort |-> effort, phase |-> phase, calls |-> calls]

MCAsks ==
  {Ask(api, guard[1], guard[2], "tools", "none", "plan", <<ToolCall("c", args[1]), ToolCall("d", args[2])>>) :
     api \in {"openai", "anthropic"},
     guard \in {<<FALSE, FALSE>>, <<TRUE, TRUE>>, <<TRUE, FALSE>>},
     args \in {<<Whole, Whole>>, << <<>>, <<Opening, Closing>> >>}}
  \cup
  {Ask("openai", FALSE, FALSE, "tools", "none", "plan", <<ToolCall("", Whole), ToolCall("", Whole)>>)}
  \cup
  {Ask(api, FALSE, FALSE, kind, effort, phase, <<ToolCall("", Whole)>>) :
     api \in {"openai", "anthropic"}, kind \in {"complete", "structured"},
     effort \in {"none", "fast", "thorough"}, phase \in {"plan", "implement"}}

-----------------------------------------------------------------------------
(* Repository maps. *)

MCSymbols == {<<"load", "f">>, <<"g", "h">>, <<>>}
SymbolNames == {"load", "f", "g", "h"}
MCScore == [x \in SourceFiles \X SymbolNames |->
              CASE x[2] \in {"load", "g"} -> 1 [] x[2] = "h" -> 2 [] x[2] = "f" -> 3]
MCWidth == [n \in SymbolNames |-> CASE n = "load" -> 7 [] n = "g" -> 11 [] n \in {"f", "h"} -> 3]
MCReserved == <<"build", "load">>

-----------------------------------------------------------------------------
(* Hooks and workspaces: two files each, one with two regions. *)

MCHookFiles == <<"a", "b">>
MCOldRegions == {<<"f", 1>>, <<"f", 2>>}
MCNewRegions == {<<"g", 1>>}

-----------------------------------------------------------------------------
(* Programs that want a daemon; tool servers, one with a tool whose name holds a    *)
(* separator, one whose own name cannot be told from it.                            *)

MCLookers == [iq |-> "cli", code |-> "editor", start |-> "start"]
MCServerNames == << <<"a">>, <<"b", "_">> >>
MCServerTools == << {<<"t">>, <<"t", "_", "_", "u">>}, {<<"t">>} >>
=============================================================================
