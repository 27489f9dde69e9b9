\* One client that waits for each answer: the guarantees of a session.
\* CHECK_DEADLOCK is off: a session whose clients make no further call stops.
CONSTANTS
  Calls = {c1, c2, c3, c4}
  MaxRetries = 2
  OneClient = TRUE
  RequireApproval = TRUE
  FileTools = TRUE
  Snapshots = TRUE
  StoreFaults = FALSE
  None = None
SYMMETRY CallSymmetry
SPECIFICATION Spec
INVARIANTS CompletionCertified NextCallInformed RestoresOwnAttempt
PROPERTY ImplementsLifecycle
CHECK_DEADLOCK FALSE
