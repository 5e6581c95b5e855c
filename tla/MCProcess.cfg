SPECIFICATION Spec
CONSTANTS
  a = a
  b = b
  c = c
  called = called
  bare = bare
  Procs = {p1, p2}
  Names = {a, b, c}
  NoName = NoName
  Handlers = {called, bare}
  Registered = {called}
  Topics <- TheTopics
  Definitions <- TheDefinitions
  SpawnInputs <- TheInputs
  Thresholds = {1}
  ActBound = 4
  MaxDepth = 3
CHECK_DEADLOCK FALSE
INVARIANTS ProcTypeOK ReadyIsServed RunningIsExecuting RunsAreAsked EndIsNoticed
PROPERTIES CallsReturn
