SPECIFICATION Spec
CONSTANTS
  na = na
  nb = nb
  l = l
  k = k
  v1 = v1
  v2 = v2
  s1 = s1
  None = None
  Writer = {1, 2}
  Me = 1
  Node = {na, nb}
  Label = {l}
  Key = {k}
  Value = {v1, v2}
  Subscriber = {s1}
  Seed <- MCSeed
  Pattern <- MCPattern
  Intent <- MCIntent
  MaxPatches = 3
  Overlap = FALSE
  onDeleteWithData = "warn"
INVARIANTS
  IncrementalReadsAreExact
  FrontierDescribesState
  SubscribersFollowNotifications
PROPERTIES
  PollDelivers
