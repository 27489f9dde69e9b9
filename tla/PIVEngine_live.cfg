\* Fair event loop, several clients: calls return, sessions settle.
\* CHECK_DEADLOCK is off: a session whose clients make no further call stops.
CONSTANTS
  Calls = {c1, c2, c3}
  MaxRetries = 1
  OneClient = FALSE
  RequireApproval = FALSE
  FileTools = FALSE
  Snapshots = FALSE
  StoreFaults = FALSE
  None = None

SPECIFICATION FairSpec
PROPERTY Progress
CHECK_DEADLOCK FALSE
