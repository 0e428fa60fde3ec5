SPECIFICATION FairSpec
CONSTANTS
  Ports = {p1}
  Procs = {a1, a2}
  Dests = {d1, d2}
  None = None
  IdleLimit = 1
  MaxLag = 1
  Word = 100
  Watched = FALSE
  Unanswered = TRUE
  LookupFails = TRUE
  RulesChange = TRUE
INVARIANTS
  TypeOK
  TrackedNeverDirect
PROPERTIES
  RouteKept
  CleanupUnlessWrapped
  EntryReclaimed
