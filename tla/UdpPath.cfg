SPECIFICATION Spec
CONSTANTS
  Ports = {p1, p2}
  a = a
  b = b
  c = c
  d = d
  Dests4 = {a, b}
  Dests6 = {c, d}
  Special <- MCSpecial
  Unruled = {d}
  None = None
  Rulings <- MCRulings
  Limit = 1
  MaxLag = 1
  Word = 100
  MaxAsked = 2
SYMMETRY Symmetry
INVARIANTS RightWhenAlone RuleKept
PROPERTIES ActiveKept
