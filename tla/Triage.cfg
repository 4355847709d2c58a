CONSTANTS
  a1 = a1
  a2 = a2
  Alerts <- MCAlerts
  Category <- MCCategory
  Severity <- MCSeverity
  Occurred <- MCOccurred
  Rows = {r1, r2}
  Incidents = {i1, i2}
  Signatures = {s1}
  Rules = {u1}
  Servers = {v1}
  Given = {"OPEN", "RESOLVED", "CLOSED", "same", "approved", "rejected", "DISABLED", "strict"}
  Requests = {q1, q2}
  Free = Free
  NoAlert = NoAlert
  NoIncident = NoIncident
  NoThing = NoThing
  NoRow = NoRow
  PageSize = 2
  MaxClock = 3
SPECIFICATION Spec
INVARIANTS TimelineTellsStatus TrailTellsStatus
CHECK_DEADLOCK FALSE
SYMMETRY Symmetry
