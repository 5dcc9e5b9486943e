\* Every config of up to two rules and one protected path on every PR of up to three files.
SPECIFICATION Spec
CONSTANTS
  DefaultMaxChangedFiles = 3
  Globs <- MCGlobs
  Principals <- MCPrincipals
  Semvers = {{}, {"patch"}}
  ChangedFiles <- MCFiles
  Me = "me"
  MyTeams <- OneTeam
  MoreRules <- MCMoreRules
  MaxRules = 2
  MaxGuards = 1
  MaxFiles = 3
  PageSize = 1
INVARIANTS
  ApproveIffPolicy
  BadPatternNeverGrants
PROPERTIES
  GrowingThePRNeverHelps
  GuardsOnlyRestrict
CHECK_DEADLOCK FALSE
