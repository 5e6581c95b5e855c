SPECIFICATION PipeSpec
CONSTANTS
  MaxInt = 7
  GroupRows = 2
  Retries = 1
  FaultBound = 2
  Keywords = {"network", "connection", "timeout", "timed out", "too many reque", "429", "503", "rate limit", "throttl", "temporarily"}
  Configs <- ManyConfigs
  Files <- DataFiles
  Compile <- Compiled
  Eval <- Evaluated
  Render <- Rendered
INVARIANTS PipeTypeOK StagesArePlain RetriesKeepRows NoTempTableLeft UniverseIsShared TargetsApart CompileReadsBack ScanYieldsRecords
PROPERTIES TablesOnlyGrow RunAdvances
