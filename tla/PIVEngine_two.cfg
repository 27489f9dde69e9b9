\* Calls of several clients interleave at every await; the store may reject writes.
\* CHECK_DEADLOCK is off: a session whose clients make no further call stops.
CONSTANTS
  Calls = {c1, c2, c3}
  MaxRetries = 1
  OneClient = FALSE
  RequireApproval = TRUE
  FileTools = TRUE
  Snapshots = TRUE
  StoreFaults = TRUE
  None = None
SYMMETRY CallSymmetry
SPECIFICATION Spec
INVARIANTS ApprovedWork CheckpointProvenance
  BudgetEndsSession
CHECK_DEADLOCK FALSE
