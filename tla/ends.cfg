\* Two authors' PRs share a mutex and the team cache; every delivery ends.
SPECIFICATION FairSpec
CONSTANTS
  p1 = p1  p2 = p2
  A = A  B = B  C = C
  main = main  rel = rel
  ann = ann  bob = bob
  r1 = r1  r2 = r2
  NoBranch = NoBranch
  BadFile = BadFile
  DefaultMaxChangedFiles = 3
  PRs = {p1, p2}
  Commits = {A, B}
  Series <- OneCommitEach
  Branches = {main}
  Base <- OntoMain
  DefaultBranch = NoBranch
  Authors = {ann, bob}
  Author <- TeamAuthors
  Teams <- OneTeam
  Configs <- TeamConfigs
  FirstFile <- TeamFile
  FirstMembers <- AnnWrites
  Rewind = FALSE
  MaxDeliveries = 3
  Limit <- EndsLimit
  Replicas = {r1}
  Shards = {1}
  Shard <- OneShard
  Large = {}
  TeamHandles <- MCTeamHandles
  Verdict <- MCVerdict
INVARIANTS
  ApprovedByOwnTeams
PROPERTIES
  EveryDeliveryEnds
