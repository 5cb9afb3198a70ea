SPECIFICATION Spec
CONSTANTS
  Reqs = {r1}
  Macs = {m1, m2}
  Ips = {i1}
  SetIPs = {"g1", "g2"}
  CheckIPs = {"g2"}
  DhcpGateways = {"lan", "g1"}
  LanAddr = "lan"
  Nexthop = "hop"
  UserTags = {"guest"}
  MaxAuto = 2
  Null = "none"
  ipToDhcpTag <- MCIpToDhcpTag
SYMMETRY Symmetry
INVARIANTS
  AutoTagExists
