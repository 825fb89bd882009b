SPECIFICATION Spec
CONSTANTS
  NLayers = 2
  Experts = {e1, e2, e3}
  K = 2
  Slots = {s1, s2, s3, s4}
  Openings <- StepsStreamed
  PMax = 1
  PendingMax = 2
  NoPlace = NoPlace
  NoSlot = NoSlot
  Failures = {"fill"}
  MaxQueued = 1
SYMMETRY SlotsAndExperts
INVARIANTS ReadsRight HoldsAreOwed RoomForReads
