CONSTANTS
  Generated <- MCGenerated
  RuleIds = {"RB-101"}
  Contents <- MCContents
  Torn = torn
  Configs <- MCConfigs
  Casefold <- MCCasefold
  MaxDeploys = 1
  MaxEdits = 2
  MaxRuns = 1
  MaxWorkerFailures = 4
SPECIFICATION Spec
CHECK_DEADLOCK FALSE
INVARIANTS
  TypeOK
  VerdictIsTrue
  EveryTestAccounted
  ServedPackAttested
  SuiteSeparates
