SPECIFICATION FairSpec
CONSTANTS
  Workers = {w1}
  Waiters = {q1}
  WanNets <- NearWan
  LanConfs <- TwoLans
  Leases <- OneLease
  MaxChanges = 1
  MaxLanChecks = 1
  NoLease = NoLease
  NoWaiter = NoWaiter
  Addr <- MCAddr
  Prefix <- MCPrefix
  Block <- MCBlock
  Ip1 <- MCIp1
  Ip2 <- MCIp2
  NoSec = NoSec
  NoIP = NoIP
  NoMask = NoMask
PROPERTIES
  DhnsProgress
  ComesToRest
CHECK_DEADLOCK FALSE
