SPECIFICATION Spec
CONSTANTS
  UNI_LETTER <- MCLetter
  UNI_NUMBER <- MCNumber
  UNI_CCC <- MCCcc
  UNI_DECOMP <- MCDecomp
  UNI_COMPOSE <- MCCompose
  WP_OTHER <- MCOther
  WP_MARK <- MCMark
  WP_PUNCT <- MCPunct
  WP_LOWER <- MCLower
  Files <- ShortenedFiles
  Typed <- MCTyped
INVARIANTS AddedAsWritten
CHECK_DEADLOCK FALSE
