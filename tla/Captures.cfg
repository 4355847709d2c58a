CONSTANTS
  Ids = {c1, c2, c3, c4}
  Members = {m1}
  Images = {x1, x2}
  Requests = {r1, r2}
  Free = Free
  None = None
  MaxPerMinute = 1
  Retained = 1
SPECIFICATION Spec
INVARIANTS RetentionHolds RateOvershootBounded
PROPERTIES ReceivedOnce RateOnlyPassedByARace
SYMMETRY Symmetry
