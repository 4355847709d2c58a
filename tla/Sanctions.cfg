CONSTANTS
  Bans = {b1, b2, b3}
  Detected = {b1}
  Appeals = {a1}
  Orgs = {o1, o2}
  Us = o1
  Requests = {r1, r2}
  Free = Free
  NoBan = NoBan
  NoAppeal = NoAppeal
SPECIFICATION Spec
INVARIANTS OneActiveBan ApprovedAppealsHold
PROPERTIES ReviewsAreFinal BanEndsOnPurpose
SYMMETRY Symmetry
