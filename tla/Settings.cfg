SPECIFICATION SettingsSpec
CONSTANTS
  Bits = 3
  Addr <- MCAddr
  Prefix <- MCPrefix
  Block <- MCBlock
  Ip1 <- MCIp1
  Ip2 <- MCIp2
  NoSec = NoSec
  NoIP = NoIP
  NoMask = NoMask
  Callers = {c1}
  Devs = {d1}
  TickSec = 1
  StopTicks = 1
  Slots = 2
  MaxFetch = 0
  MaxBytes = 1
  MaxResets = 1
  NoDev = NoDev
  NoCaller = NoCaller
  WifiKeys = {"k1", "k2"}
  ShortKey = "k"
  MaxWifiRequests = 2
  MaxGuideRequests = 2
  MaxSaves = 2
  MaxLayers = 2
  MaxTransfers = 2
  MaxServiceRequests = 2
  DiskCount = 3
  ShareClients = {"s1", "s2"}
  MaxShareRequests = 2
  MaxLimitRequests = 2
  MaxNasRequests = 3
INVARIANTS
  ConflictResolved
  RatesNotNegative
  BytesOnce
  
  GuideNetCorrect
  
  
  SvcCorrect
  
  SharesCorrect
  LimCorrect
  NasCorrect
PROPERTIES
  NoEditLoop
  OnlyNamed
CHECK_DEADLOCK FALSE
