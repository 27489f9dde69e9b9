---------------------------- MODULE MCClientStream ----------------------------
(* Instances of ClientStream for TLC. *)
EXTENDS ClientStream

CONSTANTS a, b, s1, s2

Scenario(modes, who, apart, postsOfA, postsOfB, asks, may) ==
  [mode  |-> [s \in Sessions |-> IF s = s1 THEN modes[1] ELSE modes[2]],
   who   |-> who,
   home  |-> [c \in Clients |-> IF c = b /\ apart THEN s2 ELSE s1],
   posts |-> [c \in Clients |-> IF c = a THEN postsOfA ELSE postsOfB],
   asks  |-> asks, may |-> may]

chat == <<"chat", "chat">>
piv  == <<"piv", "chat">>

\* One terminal with a message and two requests, with two messages, with Escape
\* or /clear, at a session past its task; two terminals of one session; two
\* sessions, where one turn aborts the other; terminals that leave; a daemon
\* that stops.
MCScenarios == {
  Scenario(chat, {a}, TRUE,  1, 0, 2, {}),
  Scenario(chat, {a}, TRUE,  2, 0, 1, {}),
  Scenario(chat, {a}, TRUE,  2, 0, 0, {"escape"}),
  Scenario(chat, {a}, TRUE,  1, 0, 1, {"clear"}),
  Scenario(<<"spent", "chat">>, {a}, TRUE, 2, 0, 0, {"escape"}),
  Scenario(piv,  {a}, TRUE,  1, 0, 1, {"escape"}),
  Scenario(chat, {a, b}, FALSE, 1, 0, 1, {}),
  Scenario(chat, {a, b}, FALSE, 1, 0, 0, {"leave"}),
  Scenario(chat, {a, b}, TRUE,  1, 1, 0, {}),
  Scenario(piv,  {a, b}, TRUE,  1, 1, 0, {}),
  Scenario(piv,  {a, b}, FALSE, 1, 0, 0, {}),
  Scenario(chat, {a}, FALSE, 1, 0, 0, {"stop", "escape"}),
  Scenario(chat, {a}, FALSE, 1, 0, 1, {"stop"}) }
=============================================================================
