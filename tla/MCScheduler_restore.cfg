SPECIFICATION Spec
CONSTANTS
  a = a
  b = b
  c = c
  c1 = c1
  none = none
  i1 = i1
  i2 = i2
  Ids = {a, b}
  Priorities = {0}
  RetryCaps = {0, 1}
  Checkpoints = {c1}
  NoCheckpoint = none
  Infos = {i1, i2}
  SlotCounts = {1, 2}
  Images <- ExportedImages
  RestoreOver = {"NONE", "PENDING", "PAUSED", "FINISHED", "KILLED"}
  RescheduleFrom = {"PENDING", "RUNNING", "PAUSED", "FINISHED", "KILLED"}
  OrderBound = 3
  AttemptBound = 2
SYMMETRY Symmetric
INVARIANTS SlotAccounting NoLostTask SnapshotCurrent WorkConserving RetryCap
