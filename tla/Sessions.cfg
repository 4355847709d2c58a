CONSTANTS
  Identities = {d1, d2}
  Tokens = {t1, t2}
  SessionIds = {s1, s2, s3}
  Requests = {r1, r2}
  Free = Free
  NoToken = NoToken
  MaxFailed = 2
  MaxResets = 2
SPECIFICATION SessionsSpec
PROPERTIES ResetEndsSessions SpentLinksChangeNothing LockOutlivesFailures AccountStaysTheirs
SYMMETRY Symmetry
