SPECIFICATION OrgSpec
CONSTANTS
  Halves = {"roles", "entries"}
  u1 = u1
  u2 = u2
  u3 = u3
  g1 = g1
  a1 = a1
  w1 = w1
  w2 = w2
  Users = {u1, u2, u3}
  Workers = {w1, w2}
  Roles = {"owner", "admin", "viewer"}
  Ops = {"patch", "delete", "leave"}
  MaxCalls = 3
  Guests = {g1}
  Servers = {w1, w2}
  Addresses = {a1}
  HolderOf <- OneAddress
  MaxAsks = 3
  MaxInvites = 2
CHECK_DEADLOCK FALSE
SYMMETRY Symmetry
INVARIANTS
  OwnerUnlessRaced
  OnePendingRequest
  ApprovedIsIn
  OneInvitation
PROPERTIES
  DecidedIsNotApproved
  RemovedStaysOut
  SettledForGood
