SPECIFICATION Spec
CONSTANTS
  None = None
  k1 = k1
  k2 = k2
  a1 = a1
  a2 = a2
  p1 = p1
  p2 = p2
  h1 = h1
  h2 = h2
  Admin = {a1, a2}
  SigningKey = {k1, k2}
  Subject = {w1}
  MAX_CAS_ATTEMPTS = 2
  maxRetries = 1
  MaxRecords = 4
  MaxAppends = 2
  AdminFaults = 1
  Service = {p1, p2}
  Slot <- MCSlot
  MaxTicks = 5
  FirstTicks = {1, 2}
  AuditFaults = 2
  Interleave = FALSE
  Nonce = {1, 2}
  Handler = {h1, h2}
  Shape <- MCShape
  allowedWriters = {"w1"}
  AuthModes = {"enforce", "log-only", "none"}
  maxClockSkewMs = 1
  nonceCapacity = 1
  MaxTime = 2
  SeekWriter = {"v", "w"}
  Lib = "lib"
  Cli = "cli"
  LibWriter = "v"
  Ceiling = {1}
  MaxCommits = 2
  MaxCalls = 3
  maxEntries = 1
  Client = {"c1", "c2"}
  MaxPatches = 3
  MaxRequests = 5
  OverlapMutates = FALSE
  Seeks = {1}
  ReplyGap = FALSE
SYMMETRY MCPermutations
INVARIANTS
  TrustFollowsItsChain
  
  ServedRequestsWereAdmitted
  
  ClientsFollowTheGraph
CHECK_DEADLOCK FALSE
