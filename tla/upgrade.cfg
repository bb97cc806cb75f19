\* Two items each way, links that hold one.
CONSTANTS
  MaxSent = 2
  Capacity = 1
SPECIFICATION FairSpec
INVARIANTS
  TypeOK
  NothingStranded
  OnlyTheSinkHoldsUp
PROPERTIES
  KeepsPipe
  DirectionsIndependent
  LeavingIsNoticed
  NothingLingers
CHECK_DEADLOCK FALSE
