SPECIFICATION ConflictSpec
CONSTANTS
  Bits = 3
  Addr <- MCAddr
  Prefix <- MCPrefix
  Block <- MCBlock
  Ip1 <- MCIp1
  Ip2 <- MCIp2
  NoSec = NoSec
  NoIP = NoIP
  NoMask = NoMask
INVARIANT LanStaysVisible
CHECK_DEADLOCK FALSE
