SPECIFICATION GatewaySpec
CONSTANTS
  Parts = {"web", "login", "browser", "sessions", "connections",
           "targets", "export", "assistant", "summarise", "pki", "put_export"}
  Names = {"admin", "u"}
  Passwords = {1, 2}
  NewRoles = {1, 3}
  Cookies = {1, 2}
  Tokens = {"t1"}
  Requests = {1, 2, 3}
  MaxChanges = 3
  Commands = {1, 2}
  LimAddresses = {"a1"}
  LimUsers = {"x", "y"}
  Logins = {1, 2, 3}
  MaxPerAddress = 2
  MaxPerUser = 3
  ConcurrentChecks = 2
  MaxExpiries = 1
  BrUsers = {"u", "v"}
  BrTargets = {"plc"}
  Connects = {1, 2, 3}
  MaxDrops = 1
  Chans = {"c1", "c2", "c0"}
  Cert <- CertOf
  Rank <- RankOf
  SesTokens = {"s1"}
  SesUsers = {"A", "B"}
  SesReqs = {1, 2, 3, 4}
  MaxLate = 1
  Addresses = {"a1", "a2"}
  Conns = {1, 2, 3}
  MaxTotal = 2
  MaxOfAddress = 1
  Burst = 1
  MaxRevoked = 1
  TgtNames = {"x", "y"}
  Ports = {1, 2}
  TgtNodes = {"n"}
  Restarts = {1, 2}
  MaxEdits = 4
  Failures = 1
  Drops = 1
  Dests = {"d1", "d2"}
  BatchSize = 2
  MaxTrail = 5
  MaxFaults = 2
  Calls = {1, 2, 3}
  Severities = {"warning"}
  MaxRecords = 2
  MarkRows = 2
  MaxLog = 5
  Texts = {"a", "a2"}
  ParseNode <- ParseOf
  Clients <- ClientsOf
  GroupNames = {"x"}
  MaxNodes = 4
  MaxGroups = 3
  MaxGroupEdits = 2
  PkReqs = {1, 2}
  Stamps = {1, 2}
  MaxPairs = 3
  MaxPkFaults = 2
  Servers = {"s1", "s2"}
  Puts = {1, 2}
  MaxPutFaults = 1
INVARIANTS
  AdminRemains SessionsEnd TokensEnd
  BlockIsRecorded
  
  AttributionTruthful OwnershipProved
  AdmissionCounts RevokedNeverUsed
  ConfigIsSaved TargetsAsConfigured
  NothingSkipped
  AcknowledgedWereSeen
  LoadSummarisesNoMore RecordedAgain
  InterruptionsHarmless
  ExportsAsGiven
PROPERTIES OwnChangeSeesItsRow LandsOnSeen
CHECK_DEADLOCK FALSE
