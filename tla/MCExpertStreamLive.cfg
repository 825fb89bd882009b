SPECIFICATION FairSpec
CONSTANTS
  Places = {e1, e2, e3, e4, e5}
  NoPlace = NoPlace
  NSlots = 4
  Workers = {w1, w2}
  K = 2
  PMax = 0
  HalveEvery = 2
  MaxAcquired = 2
  MaxPrefetches = 1
INVARIANTS UsersAreHolds
 
