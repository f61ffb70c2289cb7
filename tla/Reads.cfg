SPECIFICATION Spec
CONSTANTS
  Node <- MCNode
  Possible <- MCPossible
  MaxEdges = 4
  EdgeWeight <- MCEdgeWeight
  NodeWeight <- MCNodeWeight
  NodeId <- MCNodeId
  EdgeId <- MCEdgeId
  PropKey <- MCPropKey
  PropValue <- MCPropValue
  Absent = Absent
  QueryMenu <- MCQueryMenu
  ConfigMenu <- MCConfigMenu
  StartGraphs <- MCStartGraphs
  MaxChanges = 1
  ContentWriter = {1, 2}
  Reborn = {"node", "edge"}
  MaxAttachments = 2
  MaxContentOps = 1
  MaxContentPatches = 3
  TickWriter = {1, 2}
  Status = {"on", "off"}
  Wanted = {"on"}
  FillerAdds = {0, 1}
  Sinces = {2}
  MaxTickPatches = 3
INVARIANTS
  SearchesReachTheirNodes
  
  OrdersFollowTheEdges
  ObserversSeeTheirProjection
  ContentStaysWhole
  TemporalAnswersAreExact
CHECK_DEADLOCK FALSE
