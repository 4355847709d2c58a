CONSTANTS
  Orgs = {o1}
  Servers = {s1, s2, s3}
  Keys = {k1}
  Prints = {f1}
  Requests = {r1, r2}
  None = None
  Own = Own
  Granted = Granted
  Quota = 1
SPECIFICATION Spec
INVARIANTS QuotaOvershootBounded KeyShareBounded
PROPERTIES QuotaOnlyPassedByARace RevokedVerdictLasts
SYMMETRY Symmetry
