SPECIFICATION Spec
CONSTANTS
  u1 = u1
  u2 = u2
  u3 = u3
  w1 = w1
  w2 = w2
  Users = {u1, u2, u3}
  Workers = {w1, w2}
  Roles = {"owner", "admin", "viewer"}
  Ops = {"patch"}
  MaxCalls = 2
CHECK_DEADLOCK FALSE
SYMMETRY Symmetry
INVARIANTS
  OwnersRemain
