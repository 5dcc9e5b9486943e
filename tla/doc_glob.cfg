\* A config whose pattern doublestar refuses loads.
SPECIFICATION Spec
CONSTANTS
  DefaultMaxChangedFiles = 3
  Globs <- MCGlobs
  Principals <- OnlyMe
  Semvers = {{}, {"patch"}}
  ChangedFiles <- MCFiles
  Me = "me"
  MyTeams <- OneTeam
  MoreRules <- MCMoreRules
  MaxRules = 1
  MaxGuards = 1
  MaxFiles = 2
  PageSize = 1
INVARIANTS
  LoadedConfigDecides
CHECK_DEADLOCK FALSE
