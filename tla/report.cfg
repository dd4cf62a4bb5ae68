CONSTANTS
  Trees <- MCTrees
  IgnoredPaths <- MCIgnoredPaths
  ExcludeNodeModules = TRUE
  FailOnParseError = TRUE
  MaxFindings = 2
  MaxSourceFiles = 3
  MaxSourceFileSize = 3
  MaxFileDepth = 3
  Threads = 3
  Configurations <- MCConfigurations
  DefaultRules <- MCDefaultRules
  Dependencies <- MCDependencies
  Scripts <- MCScripts
  GroupOf <- MCGroupOf
  Releases <- MCReleases
  Threshold = 2
  Verbose = FALSE
SPECIFICATION MCSpec
CHECK_DEADLOCK FALSE
INVARIANTS KeepsMostSevere SourcesAccounted ReportKeepsTheWorst ExitTellsTheTruth DiffTellsTheTruth
