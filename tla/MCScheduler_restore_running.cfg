SPECIFICATION Spec
CONSTANTS
  a = a
  b = b
  c = c
  c1 = c1
  none = none
  i1 = i1
  i2 = i2
  Ids = {a, b}
  Priorities = {0}
  RetryCaps = {0, 1}
  Checkpoints = {}
  NoCheckpoint = none
  Infos = {i1}
  SlotCounts = {1, 2}
  Images <- ExportedImages
  RestoreOver = {"NONE", "RUNNING"}
  RescheduleFrom = {"PENDING", "RUNNING", "PAUSED", "FINISHED", "KILLED"}
  OrderBound = 4
  AttemptBound = 2
INVARIANTS SlotAccounting
