\* Any manifest of two workers, one other agent; children may hang, agents be killed,
\* the daemon crash and start again.
\* CHECK_DEADLOCK is off: the team stops once execute and the agents ended.
CONSTANTS
  Workers = {w1, w2}
  Others = {o1}
  MaxAgents = 2
  MaxCrashes = 1
SPECIFICATION FairSpec
INVARIANTS SlotsBounded NeverStalls MergedWorkFinished
PROPERTY ExecuteEnds
CHECK_DEADLOCK FALSE
