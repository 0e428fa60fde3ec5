SPECIFICATION FairSpec
CONSTANTS
  Keys = {k1, k2}
  Sessions = {s1, s2}
  Handles = {h1, h2}
  None = None
  MaxSessions = 1
  RingMax = 2
  IdleTimeout = 0
  FailGuard = 1
  SweepPeriod = 1
  MaxLag = 1
  MaxSend = 2
  Word = 100
  HandleReuse = FALSE
INVARIANTS CountIsTableSize
PROPERTIES
  PromisedOrder
  TimersUnlessWrapped
  DestroyCompletes
  IdleIsSwept
  ShutdownCompletes
