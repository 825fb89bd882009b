SPECIFICATION Spec
CONSTANTS
  Places = {e1, e2, e3, e4}
  NoPlace = NoPlace
  NSlots = 3
  Workers = {w1, w2}
  K = 1
  PMax = 1
  HalveEvery = 2
  MaxAcquired = 3
  MaxPrefetches = 2
SYMMETRY Symmetry
INVARIANTS ReadsOnce HeldIsReadable UsesBounded
PROPERTIES HeldStaysPut ImplementsCache
