\* Two sessions, one possibly the child of the other, two destructions, a crash.
\* CHECK_DEADLOCK is off: nothing happens once all sessions came and went.
CONSTANTS
  Sessions = {s1, s2}
  Destroys = {d1, d2}
  MaxRestarts = 1
  None = None
SYMMETRY LifecycleSymmetry
SPECIFICATION SessionSpec
INVARIANTS RowIntact RowOutlivesSandbox RollbackComplete
CHECK_DEADLOCK FALSE
