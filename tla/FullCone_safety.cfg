SPECIFICATION Spec
CONSTANTS
  Keys = {k1, k2}
  Sessions = {s1, s2}
  Handles = {h1, h2, h3, h4}
  None = None
  MaxSessions = 2
  RingMax = 1
  IdleTimeout = 0
  FailGuard = 0
  SweepPeriod = 1
  MaxLag = 0
  MaxSend = 2
  Word = 100
  HandleReuse = TRUE
SYMMETRY Symmetry
INVARIANTS
  TypeOK
  NoUseAfterFree
  OneSessionPerKey
  SocketsOwned
  NoHalfBuiltSession
