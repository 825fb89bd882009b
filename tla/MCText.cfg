SPECIFICATION MCSpec
CONSTANTS
  UNI_LETTER <- MCLetter
  UNI_NUMBER <- MCNumber
  UNI_CCC <- MCCcc
  UNI_DECOMP <- MCDecomp
  UNI_COMPOSE <- MCCompose
  WP_OTHER <- MCOther
  WP_MARK <- MCMark
  WP_PUNCT <- MCPunct
  WP_LOWER <- MCLower
  Files <- MCFiles
  Typed <- MCTyped
  r1 = r1
  r2 = r2
  MAX_DEPTH = 5
  JSONPFX_MAX_DEPTH = 2
  JSONPFX_MAX_WS = 2
  MASK_CACHE = 2
  MaxTurns = 5
INVARIANTS ServedAsSent EncodedExact DecodedExact OnlyJson ShapesAgree PromptsReuse CountedAsRead
CHECK_DEADLOCK FALSE
