SPECIFICATION Spec
CONSTANTS
  Requests = {r1, r2}
  NSeqs = 1
  Asks <- LongAsks
  Ctx = 6
  a = a
  b = b
  z = z
  Tokens = {a, b, z}
  Gives <- MCGives
  Ends = {z}
  NoToken = NoToken
  NoAsk = NoAsk
  PrefixCache = TRUE
  Speculate = 2
  PassRows = 4
  Piece = 1
  After = 1
  FullAt = {0}
  Faults = {"step", "hangup"}
SYMMETRY Symmetry
INVARIANTS CachedIsHeld RepliesAsAlone
