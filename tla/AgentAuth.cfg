CONSTANTS
  Deliveries = {d1, d2}
  Messages = {m1, m2}
  Keys = {k1}
  TicksPerSecond = 1
  ClockSkew = 1
  NonceTtl = 3
  PerMinute = 1
  WindowTicks = 2
  MaxDelay = 1
  MaxRetries = 1
  MaxStamp = 1
  MaxClock = 4
SPECIFICATION Spec
INVARIANTS NoReplay ReplayVerdictJustified RevokedKeyRefused RateRespected
CHECK_DEADLOCK FALSE
SYMMETRY Symmetry
