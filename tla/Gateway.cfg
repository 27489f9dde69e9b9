\* CHECK_DEADLOCK is off: nothing happens once the last request is answered.
CONSTANTS
  Requests = {r1, r2}
  Users = {u1, u2}
  Emails = {e1}
  Sessions = {s1, s2}
  Limits <- MCLimits
  GcAt = 1
  Scopes = {"account", "session"}
  MaxNow = 2
  MaxStarts <- MCMaxStarts
  None = None
SYMMETRY GatewaySymmetry
SPECIFICATION Spec
INVARIANTS ErasedLockedOut RefusedLeavesNothing OwnOrgOnly AdmittedPerWindow
CHECK_DEADLOCK FALSE
