SPECIFICATION EtlSpec
CONSTANTS
  a = a
  b = b
  c = c
  d = d
  none = none
  i1 = i1
  Ids = {a, b}
  Priorities = {0, 1}
  RetryCaps = {0, 2}
  Checkpoints = {}
  NoCheckpoint = none
  Infos = {i1}
  SlotCounts = {1, 2}
  Images <- NoImages
  RestoreOver = {}
  RescheduleFrom = {"PENDING", "RUNNING", "PAUSED", "FINISHED", "KILLED"}
  OrderBound = 20
  AttemptBound = 9
  Plan <- OneStage
  Workers = 1
  Legacy = FALSE
  Retries = 0
  SoftBound = 3
CHECK_DEADLOCK FALSE
INVARIANTS RunBudget
