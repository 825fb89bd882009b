SPECIFICATION MCSpec
CONSTANTS
  Directories <- MCDirectories
  Checkpoints <- MCCheckpoints
  Releases <- MCReleases
  Machines <- MCMachines
  DISK_MARGIN = 1
  MaxRuns = 3
  MaxFaults = 2
  Asked <- MCAsked
  Kinds = {"none", "bert", "bert, no WordPiece", "dense", "moe"}
  BLOCK = 2
  SPARE = 1
  CHUNK = 2
  MAX_PINNED = 1
  Geometries <- MCGeometries
  Hashes = {h1}
  MaxPrompt = 3
  MaxChunks = 2
  OpenThink <- MCOpenThink
  CloseThink <- MCCloseThink
  OpenCall <- MCOpenCall
  CloseCall <- MCCloseCall
  Newline = "n"
  OtherSpace = "s"
  Needs <- MCNeeds
  Cont = "k"
  Calls <- MCCalls
  Asks <- MCAsks
  Tokens <- MCTokens
  Faults = {"step", "memory"}
INVARIANTS  ServesAsAsked ServesPinned   StreamedAsWhole CutAtFirstStop
PROPERTIES PlansAgain
CHECK_DEADLOCK FALSE
