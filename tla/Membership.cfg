CONSTANTS
  Users = {u1, u2}
  Codes = {i1, i2}
  Requests = {r1, r2}
  Free = Free
  NoUser = NoUser
  NoCode = NoCode
  Asked = {"OWNER", "ADMIN"}
SPECIFICATION Spec
PROPERTIES RoleMovesJustified DeadCodesAdmitNobody LastOwnerOnlyLostToARace
CHECK_DEADLOCK FALSE
SYMMETRY Symmetry
