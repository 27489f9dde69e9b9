---------------------------- MODULE MCExecutions ----------------------------
(* The commands of the runs of Executions. *)
EXTENDS Executions

Command(writes, code, appends) == [writes |-> writes, code |-> code, appends |-> appends]
Out(s) == <<"stdout", s>>
Err(s) == <<"stderr", s>>

\* Tests that pass; tests that fail; a command that leaves the shell, with
\* the code of one that is killed; one that writes the text of the sentinel in colours,
\* and a code after it.
MCCommands ==
  {Command(<<Out("a")>>, Zero, TRUE),
   Command(<<Out("a"), Err("b")>>, <<"1", "2">>, TRUE),
   Command(<<Out("a")>>, Sigkill, FALSE),
   Command(<<Out(Sentinel1), Out(Escape1), Out(Escape2), Out(Sentinel2), Out(Colon), Out("7")>>,
           <<"1">>, TRUE)}

\* Those that leave the shell before its exit line.
MCLeaving == {c \in MCCommands : ~c.appends}
=============================================================================
