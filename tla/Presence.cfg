CONSTANTS
  Pages = {p1}
  Payloads <- MCPayloads
  Reports = {r1}
  Loads = {1, 2}
  Free = Free
  MaxTries = 2
SPECIFICATION PresenceFairSpec
INVARIANT PresenceTypeOK
PROPERTIES PageCatchesUp ExcludedPagesLeave
CHECK_DEADLOCK FALSE
