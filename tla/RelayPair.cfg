SPECIFICATION FairSpec
CONSTANTS
  Handles = {h1, h2, h3}
  None = None
  MaxChunks = 2
INVARIANTS
  TypeOK
  SocketsOwned
  PairLive
  LossExplained
PROPERTIES EndsTogether
