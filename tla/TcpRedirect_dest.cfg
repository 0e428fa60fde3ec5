SPECIFICATION Spec
CONSTANTS
  Ports = {p1}
  Procs = {a1}
  Dests = {d1, d2}
  None = None
  IdleLimit = 1
  MaxLag = 0
  Word = 100
  Watched = TRUE
  Unanswered = FALSE
  LookupFails = FALSE
  RulesChange = FALSE
INVARIANTS OwnDestination
