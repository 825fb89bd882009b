SPECIFICATION Spec
CONSTANTS
  Requests = {r1, r2}
  NSeqs = 1
  Asks <- AlikeAsks
  Ctx = 4
  a = a
  b = b
  z = z
  Tokens = {a, b, z}
  Gives <- MCGives
  Ends = {z}
  NoToken = NoToken
  NoAsk = NoAsk
  PrefixCache = TRUE
  Speculate = 0
  PassRows = 1
  Piece = 1
  After = 1
  FullAt = {0}
  Faults = {"push"}
INVARIANTS RepliesAsAlone
