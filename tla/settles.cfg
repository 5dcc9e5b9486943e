\* One replica dismisses no good approval and comes to rest with the right ones.
SPECIFICATION Spec
CONSTANTS
  p1 = p1  p2 = p2
  A = A  B = B  C = C
  main = main  rel = rel
  ann = ann  bob = bob
  r1 = r1  r2 = r2
  NoBranch = NoBranch
  BadFile = BadFile
  DefaultMaxChangedFiles = 3
  PRs = {p1}
  Commits = {A, B, C}
  Series <- AnyCommit
  Branches = {main}
  Base <- OntoMain
  DefaultBranch = main
  Authors = {ann}
  Author <- ByAnn
  Teams = {}
  Configs <- SerialConfigs
  FirstFile <- SerialFile
  FirstMembers <- NoTeams
  Rewind = TRUE
  MaxDeliveries = 10
  Limit <- SettlesLimit
  Replicas = {r1}
  Shards = {1}
  Shard <- OneShard
  Large = {}
  TeamHandles <- MCTeamHandles
  Verdict <- MCVerdict
INVARIANTS
  ApprovalsSettle
  CommentSettles
  CheckSettles
PROPERTIES
  NeverDismissesGoodApproval
