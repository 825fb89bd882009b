SPECIFICATION MCSpec
CONSTANTS
  NThreads = 4
  MaxN = 3
  MaxJobs = 3
  NoTask = NoTask
  Takers = 3
  MaxLive = 3
  MaxRounds = 2
  a = a
  b = b
  c = c
  d = d
  e = e
  Clients = {a, b, c, d}
  MaxConnections = 2
  EncoderFaults = {"thread", "memory", "value"}
  Faults = {"select", "accept", "thread"}
INVARIANTS DrawsAreOwn OpenIsCounted StagesInOrder DrawnByShare
PROPERTIES ImplementsJob WorkEnds ConnectionsEnd
