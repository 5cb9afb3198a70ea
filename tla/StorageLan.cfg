SPECIFICATION StorageLanSpec
CONSTANTS
  Disks = {"sys", "d1", "d2"}
  SystemDisk = "sys"
  DataDisk = "d1"
  Mds <- MCMds
  MaxArrays = 1
  MaxFaults = 1
  FreeRegions <- MCFreeRegions
  Reqs = {r1}
  Macs = {m1, m2}
  Ips = {i1}
  SetIPs = {"g1", "g2"}
  CheckIPs = {"g2"}
  DhcpGateways = {"lan", "g1"}
  LanAddr = "lan"
  Nexthop = "hop"
  UserTags = {"guest"}
  MaxAuto = 1
  Null = "none"
  ipToDhcpTag <- MCIpToDhcpTag
SYMMETRY Symmetry
INVARIANTS
  StorageCorrect
  
PROPERTIES
  
  MembersKept
CHECK_DEADLOCK FALSE
