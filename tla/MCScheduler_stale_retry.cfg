SPECIFICATION Spec
CONSTANTS
  a = a
  b = b
  c = c
  c1 = c1
  none = none
  i1 = i1
  i2 = i2
  Ids = {a, b}
  Priorities = {0, 1}
  RetryCaps = {0, 1}
  Checkpoints = {}
  NoCheckpoint = none
  Infos = {i1}
  SlotCounts = {1, 2}
  Images <- NoImages
  RestoreOver = {}
  RescheduleFrom = {"RUNNING"}
  OrderBound = 4
  AttemptBound = 2
PROPERTIES DelayHonoured
