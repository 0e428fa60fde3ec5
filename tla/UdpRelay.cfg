SPECIFICATION FairRelaySpec
CONSTANTS
  Proxies = {p1, p2}
  Handles = {h1, h2}
  Nil = Nil
  MaxConfigs = 2
  Guard = 1
  MaxEdits = 1
INVARIANTS OwnAssociation
PROPERTIES ServedAgain
CHECK_DEADLOCK FALSE
