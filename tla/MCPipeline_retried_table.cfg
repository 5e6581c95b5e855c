SPECIFICATION PipeSpec
CONSTANTS
  MaxInt = 7
  GroupRows = 2
  Retries = 1
  FaultBound = 1
  Keywords = {"network", "connection", "timeout", "timed out", "too many reque", "429", "503", "rate limit", "throttl", "temporarily"}
  Configs <- JoinedConfigs
  Files <- DataFiles
  Compile <- Compiled
  Eval <- Evaluated
  Render <- Rendered
INVARIANT JoinsArePlain
