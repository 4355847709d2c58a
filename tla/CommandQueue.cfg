SPECIFICATION Spec
CONSTANTS
  Commands = {c1, c2}
  Polls = {p1, p2}
  Reports = {r1}
  Free = Free
  Outcomes = {"COMPLETED", "FAILED"}
  Limit = 1
  Ttls = {1}
  IssueLag = 0
  MaxResults = 2
  MaxClock = 2
  MaxFaults = 0
INVARIANT ClaimHolds
PROPERTY ImplementsLifecycle
SYMMETRY Symmetry
