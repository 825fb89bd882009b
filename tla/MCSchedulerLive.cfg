SPECIFICATION FairSpec
CONSTANTS
  Requests = {r1, r2}
  NSeqs = 1
  Asks <- ShortAsks
  Ctx = 4
  a = a
  b = b
  z = z
  Tokens = {a, b, z}
  Gives <- MCGives
  Ends = {z}
  NoToken = NoToken
  NoAsk = NoAsk
  PrefixCache = TRUE
  Speculate = 0
  PassRows = 1
  Piece = 1
  After = 1
  FullAt = {0}
  Faults = {"step", "device", "memory"}
PROPERTIES  SchedulerStops
