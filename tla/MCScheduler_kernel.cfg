SPECIFICATION EndlessSpec
CONSTANTS
  a = a
  b = b
  c = c
  c1 = c1
  none = none
  i1 = i1
  i2 = i2
  Ids = {a, b, c}
  Priorities = {0, 1}
  RetryCaps = {0}
  Checkpoints = {}
  NoCheckpoint = none
  Infos = {i1}
  SlotCounts = {1, 2}
  Images <- FewImages
  RestoreOver = {"NONE"}
  RescheduleFrom = {"PENDING", "RUNNING"}
  OrderBound = 3
  AttemptBound = 2
INVARIANT TypeOK
PROPERTIES NoOvercommit BestFirst ImplementsPool PendingIsServed
