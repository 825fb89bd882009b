SPECIFICATION Spec
CONSTANTS
  NLayers = 2
  Experts = {e1, e2, e3}
  K = 1
  Slots = {s1, s2}
  Openings <- AnyOpening
  PMax = 0
  PendingMax = 1
  NoPlace = NoPlace
  NoSlot = NoSlot
  Failures = {"fill", "launch"}
  MaxQueued = 1
SYMMETRY SlotsAndExperts
INVARIANTS TableTrue
