SPECIFICATION Spec
CONSTANTS
  Keys <- MCKeys
  Versions <- MCVersions
  Names <- MCNames
  Configs <- MCConfigs
  Certs <- MCCerts
  Me = 1
  IndexWrap = 2
  MaxMsgs = 2
  Threads = {main, t1}
  Main = main
  Absent = absent
  absent = absent
  v1 = v1
  v2 = v2
  agent = agent
  gateway = gateway
  acc1 = acc1
  acc2 = acc2
  shard1 = shard1
  shard2 = shard2
  log1 = log1
  log2 = log2
INVARIANTS PatchedBeforeHost LatestWins HostGetsItWhole DbFromCertification RoutesFollowCertification
CHECK_DEADLOCK FALSE
