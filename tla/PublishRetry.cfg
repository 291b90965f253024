SPECIFICATION Spec
CONSTANTS
  t1 = t1
  t2 = t2
  p1 = p1
  w1 = w1
  w2 = w2
  Targets = {t1}
  Posts = {p1}
  PostOf <- SharedPost
  Workers = {w1, w2}
  MaxRetries = 1
  Overlap = TRUE
  QueueCap = 2
  FaultKinds = {"error", "crash", "redelivery"}
  MaxFaults = 2
  EditKinds = {"mark_as_failed", "reschedule", "delete"}
  MaxEdits = 1
CHECK_DEADLOCK FALSE
SYMMETRY Symmetry
INVARIANTS
  AtMostOneDelivery
  ExclusiveCall
  PublishedMeansDelivered
  GiveUpOnlyAfterBudget
  NotAbandoned
PROPERTIES
  DeliversAsPromised
  OverForGood
