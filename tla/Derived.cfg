SPECIFICATION Spec
CONSTANTS
  na = na
  nb = nb
  nc = nc
  nd = nd
  Node = {na, nb, nc, nd}
  Label = {"x", "y"}
  Shard = {0, 1}
  MAX_LOCAL_ID = 2
  computeShardKey <- MCShardKey
  Graph <- MCGraph
  MaxCommit = 3
  MaxRebuilds = 2
  MaxQueries = 2
  maxMemoryBytes = {1, 200}
  maxCachedShards = 2
  OverlapAdds = FALSE
  OverlapQueries = FALSE
  RetryQueries = FALSE
  HistWriter = {"v", "w"}
  Entity = {"a", "b", "c"}
  PatchShape <- MCPatchShape
  Key = {"k1", "k2"}
  MaxHistory = 3
  MaxChain = 5
  MaxGap = 2
  GraphName = {"g", "f"}
  ForkWriter = {"v", "w"}
  Caller = {1, 2}
  MaxForkCommits = 3
  OverlapForks = FALSE
INVARIANTS
  IdsIdentifyNodes
  CommitIndexIsExact
  SlicesAreCausallyClosed
  RecordsReplay
  BisectFindsBoundary
  ForksAreIsolated
PROPERTIES
  RefinesIndexService
CHECK_DEADLOCK FALSE
