\* Two browsers, an edge on either of the ports of bind or on port 80.
CONSTANTS
  Clients = {c1, c2}
  EdgePorts <- MCEdgePorts
  Goals <- MCGoals
SPECIFICATION FairSpec
INVARIANTS
  TypeOK
  RedirectLeadsHome
PROPERTIES
  NoRedirectLoop
  EveryoneAnswered
  OnboardingCompletes
