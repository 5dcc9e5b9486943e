\* One replica under repeated deliveries, failing calls and a crash.
SPECIFICATION Spec
CONSTANTS
  p1 = p1  p2 = p2
  A = A  B = B  C = C
  main = main  rel = rel
  ann = ann  bob = bob
  r1 = r1  r2 = r2
  NoBranch = NoBranch
  BadFile = BadFile
  DefaultMaxChangedFiles = 3
  PRs = {p1}
  Commits = {A, B, C}
  Series <- AnyCommit
  Branches = {main}
  Base <- OntoMain
  DefaultBranch = main
  Authors = {ann}
  Author <- ByAnn
  Teams = {}
  Configs <- SerialConfigs
  FirstFile <- SerialFile
  FirstMembers <- NoTeams
  Rewind = FALSE
  MaxDeliveries = 8
  Limit <- SerialLimit
  Replicas = {r1}
  Shards = {1}
  Shard <- OneShard
  Large = {}
  TeamHandles <- MCTeamHandles
  Verdict <- MCVerdict
INVARIANTS
  OneStatusComment
  OneApprovalPerCommit
