SPECIFICATION LoopSpec
CONSTANTS
  a = a
  b = b
  c = c
  c1 = c1
  none = none
  i1 = i1
  Ids = {a, b}
  Priorities = {0, 1}
  RetryCaps = {1}
  Checkpoints = {c1}
  NoCheckpoint = none
  Infos = {i1}
  SlotCounts = {1, 2}
  Images <- ExportedImages
  RestoreOver = {"NONE"}
  RescheduleFrom = {"PENDING", "RUNNING", "PAUSED", "FINISHED", "KILLED"}
  OrderBound = 3
  AttemptBound = 2
PROPERTIES Atomic RowsWithinSlots HandlerReturns CheckpointKept
