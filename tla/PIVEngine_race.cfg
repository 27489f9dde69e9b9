\* Two approve calls in flight: what reaches the host.
\* CHECK_DEADLOCK is off: a session whose clients make no further call stops.
CONSTANTS
  Calls = {c1, c2, c3}
  MaxRetries = 1
  OneClient = FALSE
  RequireApproval = FALSE
  FileTools = FALSE
  Snapshots = FALSE
  StoreFaults = FALSE
  None = None
SYMMETRY CallSymmetry
SPECIFICATION Spec
INVARIANT HostValidated
CHECK_DEADLOCK FALSE
