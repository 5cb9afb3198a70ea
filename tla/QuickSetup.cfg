SPECIFICATION WirelessSpec
CONSTANTS
  WifiKeys = {"k1", "k2"}
  ShortKey = "k"
  MaxWifiRequests = 1
INVARIANTS QuickSetupEncrypted
CHECK_DEADLOCK FALSE
