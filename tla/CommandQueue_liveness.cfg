SPECIFICATION FairSpec
CONSTANTS
  Commands = {c1, c2}
  Polls = {p1}
  Reports = {r1}
  Free = Free
  Outcomes = {"COMPLETED"}
  Limit = 1
  Ttls = {1}
  IssueLag = 0
  MaxResults = 2
  MaxClock = 1
  MaxFaults = 1
PROPERTIES EventuallySettled EveryRequestEnds
