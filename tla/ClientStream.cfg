\* CHECK_DEADLOCK is off: nothing happens once the daemon is down.
CONSTANTS
  a = a
  b = b
  s1 = s1
  s2 = s2
  Clients = {a, b}
  Sessions = {s1, s2}
  MaxPosts = 2
  MaxAsks = 2
  MaxRetries = 1
  Scenarios <- MCScenarios
  None = None
SPECIFICATION FairSpec
PROPERTY InputReturns
INVARIANTS GrantedByAUser OpenIsReached OneTurnPerAnswer
CHECK_DEADLOCK FALSE
