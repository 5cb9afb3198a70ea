SPECIFICATION Spec
CONSTANTS
  Workers = {w1, w2}
  Waiters = {q1}
  WanNets <- NearWan
  LanConfs <- TwoLans
  Leases <- TwoLeases
  MaxChanges = 2
  MaxLanChecks = 1
  NoLease = NoLease
  NoWaiter = NoWaiter
  Addr <- MCAddr
  Prefix <- MCPrefix
  Block <- MCBlock
  Ip1 <- MCIp1
  Ip2 <- MCIp2
  NoSec = NoSec
  NoIP = NoIP
  NoMask = NoMask
SYMMETRY Symmetry
INVARIANTS
  SingleWorker
  LeasePresent
  NoChangeForgotten
  
  WaiterAlive
CHECK_DEADLOCK FALSE
