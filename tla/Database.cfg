\* CHECK_DEADLOCK is off: nothing happens once every request has ended.
CONSTANTS
  Backends = {"sqlite", "postgres"}
  Writers = {w1}
  Destroyers = {d1}
  Acceptors = {a1, a2}
  Erasers = {e1}
  FirstVersion = 0
  MaxCrashes = 1
  None = None
SYMMETRY DatabaseSymmetry
SPECIFICATION Spec
INVARIANTS VersionTellsSchema AckedWritesKept InviteConsistent
PROPERTY RefusedForCause
CHECK_DEADLOCK FALSE
