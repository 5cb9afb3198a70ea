------------------------------ MODULE MCLanDhcp ------------------------------
(* LanDhcp with two devices; the automatic tags are written out.            *)
EXTENDS LanDhcp, TLC

MCIpToDhcpTag(a) ==
  CASE a = "lan" -> "t_auto_lan" [] a = "hop" -> "t_auto_hop"
    [] a = "g1" -> "t_auto_g1" [] a = "g2" -> "t_auto_g2"

Symmetry == Permutations(Macs)
=============================================================================
