\* Calls fail, webhooks are lost, a replica crashes, the config is edited.
SPECIFICATION Spec
CONSTANTS
  p1 = p1  p2 = p2
  A = A  B = B  C = C
  main = main  rel = rel
  ann = ann  bob = bob
  r1 = r1  r2 = r2
  NoBranch = NoBranch
  BadFile = BadFile
  DefaultMaxChangedFiles = 3
  PRs = {p1}
  Commits = {A, C}
  Series <- AnyCommit
  Branches = {main}
  Base <- OntoMain
  DefaultBranch = main
  Authors = {ann}
  Author <- ByAnn
  Teams = {}
  Configs <- FailingConfigs
  FirstFile <- FailingFile
  FirstMembers <- NoTeams
  Rewind = FALSE
  MaxDeliveries = 4
  Limit <- FailingLimit
  Replicas = {r1, r2}
  Shards = {1}
  Shard <- OneShard
  Large = {}
  TeamHandles <- MCTeamHandles
  Verdict <- MCVerdict
SYMMETRY SameReplicas
INVARIANTS
  ApprovedWasInspected
  AutoMergeWasApproved
PROPERTIES
  KeepsLedger
