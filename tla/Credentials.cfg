CONSTANTS
  Keys = {k1, k2, k3}
  NoKey = NoKey
  Calls = {c1, c2}
  Admins = {a1, a2}
SPECIFICATION Spec
INVARIANTS SupersededHasHeir DeletedStaysOffline
PROPERTIES RotationNeverLocksOut DeadKeysStayDead
VIEW View
CHECK_DEADLOCK FALSE
SYMMETRY Symmetry
