\* One share: does the port-80 helper go with the edge it is for?
CONSTANTS
  Shares = {s1}
  Configs <- MCConfigs
  Foreign = {}
SPECIFICATION Spec
INVARIANT HelperOnlyWithEdge
CHECK_DEADLOCK FALSE
