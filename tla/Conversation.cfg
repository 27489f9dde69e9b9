\* Two messages, or a message and a forced compaction, in two sessions or one, two turns
\* with two tools and one; two milliseconds, so that rows share their stamp or do not.
\* CHECK_DEADLOCK is off: nothing happens once every request has ended.
CONSTANTS
  Calls = {c1, c2}
  Squeezes = {q1}
  Sessions = {s1, s2}
  KeepTurns = 2
  MaxTurns = 2
  MaxUses = 2
  MaxNow = 1
  MaxRequests = 2
SYMMETRY ConversationSymmetry
SPECIFICATION Spec
INVARIANTS OwnMessageSeen UsesAnswered EndAnnounced
PROPERTY ToolsForCurrent
CHECK_DEADLOCK FALSE
