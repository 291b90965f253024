SPECIFICATION FairSpec
CONSTANTS
  t1 = t1
  t2 = t2
  p1 = p1
  w1 = w1
  w2 = w2
  Targets = {t1}
  Posts = {p1}
  PostOf <- SharedPost
  Workers = {w1, w2}
  MaxRetries = 1
  Overlap = FALSE
  QueueCap = 1
  FaultKinds = {"crash"}
  MaxFaults = 1
  EditKinds = {}
  MaxEdits = 0
CHECK_DEADLOCK FALSE
PROPERTIES
  CrashedAttemptIsRedone
