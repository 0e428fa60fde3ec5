SPECIFICATION Spec
CONSTANTS
  Letters = {"a", "A", "b"}
  Upper <- MCUpper
  Number <- MCNumber
  MaxLength = 3
  MaxEntry = 2
  Octet = 3
  Octets = 2
  Bits = 2
  browser = browser
  bridge = bridge
  Procs = {browser, bridge}
  Self = bridge
  None = None
  Path <- MCPath
  ProcessList <- MCProcessList
  TTL = 2
  PruneAge = 1
  MaxLag = 1
  Word = 100
INVARIANTS Attributed FiltersRight
