\* An evaluation that fails leaves an approval standing.
SPECIFICATION Spec
CONSTANTS
  p1 = p1  p2 = p2
  A = A  B = B  C = C
  main = main  rel = rel
  ann = ann  bob = bob
  r1 = r1  r2 = r2
  NoBranch = NoBranch
  BadFile = BadFile
  DefaultMaxChangedFiles = 3
  PRs = {p1}
  Commits = {A, B, C}
  Series <- AnyCommit
  Branches = {main}
  Base <- OntoMain
  DefaultBranch = main
  Authors = {ann}
  Author <- ByAnn
  Teams = {}
  Configs <- RaceConfigs
  FirstFile <- RaceFile
  FirstMembers <- NoTeams
  Rewind = FALSE
  MaxDeliveries = 6
  Limit <- OneFault
  Replicas = {r1}
  Shards = {1}
  Shard <- OneShard
  Large = {}
  TeamHandles <- MCTeamHandles
  Verdict <- MCVerdict
INVARIANTS
  ErrorMeansNoApproval
