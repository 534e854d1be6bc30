SPECIFICATION StaffSpec
CONSTANTS
  People = {p1, p2}
  FirstOwner = p1
  SwitchedOff = {}
  GivenRoles = {"owner", "manager"}
  Desks = {d1, d2}
CHECK_DEADLOCK FALSE
INVARIANTS
  ShopHasAnOwner
