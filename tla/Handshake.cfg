SPECIFICATION Spec
CONSTANTS
  Credentials <- MCCredentials
  Sample <- MCSample
  NameLens = {1, 3, 130}
  StatusLen = 12
  HeadLen = 14
  MaxEarly = 2
  BufferSize = 1024
  Names = {n1, n2}
  Addr = Addr
  DNS_CACHE_TTL = 2
  None = None
INVARIANTS AskedForHost SuccessIsTunnel FailureExplained
CHECK_DEADLOCK FALSE
