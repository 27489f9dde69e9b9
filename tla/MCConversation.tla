--------------------------- MODULE MCConversation ---------------------------
(* Instances of Conversation for TLC. *)
EXTENDS Conversation, TLC

\* Messages, requests and sessions are interchangeable.
ConversationSymmetry ==
  Permutations(Calls) \cup Permutations(Squeezes) \cup Permutations(Sessions)
=============================================================================
