CONSTANTS
  build = build
  Build = Build
  Names = {build, Build}
  LowerCase <- Colliding
  Creates <- TwoRuns
  Starts = {s1, s2}
  Scripts <- ThreeScripts
  None = None
SPECIFICATION ScriptSpec
INVARIANTS TypeOK JobRecordIsTruthful OwnEnvironment RunsRecordedSpec RunTellsTheTruth OneAfterTheOther SuccessMeansAllJobs WatchedJobsExist
PROPERTY EndIsNoticed
CHECK_DEADLOCK FALSE
