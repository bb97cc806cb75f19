\* Two shares on one machine.
CONSTANTS
  Shares = {s1, s2}
  Configs <- MCConfigs
  Foreign = {}
SPECIFICATION FairSpec
INVARIANTS
  TypeOK
  NameLivesWithEdge
  LocalOnlyStaysLocal
  ToldIsTrue
PROPERTIES
  LanFailureKeepsTicket
  StartupComesCloser
  StartResolves
CHECK_DEADLOCK FALSE
