\* Four commands, any of them cut short anywhere; the first use is alone.
CONSTANTS
  Processes = {p1, p2, p3, p4}
  Concurrent = FALSE
SPECIFICATION Spec
SYMMETRY Symmetry
INVARIANTS
  TypeOK
  CaPairMatches
  OneCa
  TrustedDevicesAccept
PROPERTIES
  CreatedOnce
  KeepsCaContract
CHECK_DEADLOCK FALSE
