SPECIFICATION Spec
CONSTANTS
  Workers = {w1, w2}
  Waiters = {q1, q2}
  WanNets = {}
  LanConfs <- OneLan
  Leases <- OneLease
  MaxChanges = 3
  MaxLanChecks = 0
  NoLease = NoLease
  NoWaiter = NoWaiter
  Addr <- MCAddr
  Prefix <- MCPrefix
  Block <- MCBlock
  Ip1 <- MCIp1
  Ip2 <- MCIp2
  NoSec = NoSec
  NoIP = NoIP
  NoMask = NoMask
SYMMETRY Symmetry
INVARIANT ExclusiveWaiter
CHECK_DEADLOCK FALSE
