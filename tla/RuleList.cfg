SPECIFICATION FairSpec
CONSTANTS
  Cells = {c1, c2, c3}
  None = None
  Contents <- MCContents
  MaxChecked = 2
  Watched = FALSE
INVARIANTS ListIsSequence FlagExact VerdictRight FreedExplained
PROPERTY CheckEnds
