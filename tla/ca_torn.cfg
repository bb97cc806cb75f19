\* A first use that is cut short, and the next command.
CONSTANTS
  Processes = {p1, p2}
  Concurrent = FALSE
SPECIFICATION Spec
INVARIANT PersistedLoads
CHECK_DEADLOCK FALSE
