\* CHECK_DEADLOCK is off: nothing happens once every command is reported.
CONSTANTS
  Execs = {"x"}
  Ways = {"cloud"}
  Commands <- MCLeaving
SPECIFICATION ExecutionsSpec
INVARIANTS ExitCodeReliable
CHECK_DEADLOCK FALSE
