SPECIFICATION OnboardSpec
CONSTANTS
  g1 = g1
  g2 = g2
  a1 = a1
  a2 = a2
  a3 = a3
  w1 = w1
  w2 = w2
  Guests = {g1, g2}
  Servers = {w1, w2}
  Addresses = {a1, a2, a3}
  HolderOf <- TwoSpellings
  MaxAsks = 1
  MaxInvites = 1
CHECK_DEADLOCK FALSE
PROPERTIES
  ApprovalStands
