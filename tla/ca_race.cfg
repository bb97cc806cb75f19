\* Two first uses at the same time.
CONSTANTS
  Processes = {p1, p2, p3}
  Concurrent = TRUE
SPECIFICATION Spec
INVARIANT TrustedDevicesAccept
CHECK_DEADLOCK FALSE
