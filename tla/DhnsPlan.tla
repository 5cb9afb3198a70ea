------------------------------ MODULE DhnsPlan ------------------------------
(***************************************************************************)
(* The pure planners of the DHNS recovery worker:                          *)
(*   backend/modules/dhns/conflict/service.go   WAN/LAN address conflicts  *)
(*   backend/modules/dhns/recovery/service.go   what to do on an event     *)
(*   backend/modules/dhns/udhcp/service.go      start/stop of udhcpc       *)
(* A plan is a record of the Booleans the code's decision structs carry;   *)
(* the command strings are the effects the worker gives them.              *)
(***************************************************************************)
EXTENDS IpNet

CONSTANTS Ip1,    \* 192.168.100.1, the first spare address
          Ip2,    \* 192.168.101.1, the second
          NoSec,  \* a nil *Section
          NoIP,   \* no address: the empty string, or a device without one
          NoMask  \* no netmask option and no /len suffix

ASSUME SpareAssumption ==
  /\ Ip1 \in Addr /\ Ip2 \in Addr /\ NoIP \notin Addr
  /\ NoMask \notin Prefix

-----------------------------------------------------------------------------
(* netsections/service.go: what a pass sees of /etc/config/network *)

\* The lan section.  cidr: the length is the "/len" suffix of option ipaddr
\* and there is no option netmask.  For proto dhcp, ip and len are those of
\* the device, NoIP when it has none.
LanConf == [proto : {"static", "dhcp"}, gateway : BOOLEAN,
            ip : Addr \union {NoIP}, len : Prefix \union {NoMask}, cidr : BOOLEAN]

\* Collect leaves out a section whose address or mask cannot be determined.
CollectLan(lan) ==
  IF lan.ip = NoIP \/ lan.len = NoMask
    THEN NoSec
    ELSE [proto |-> lan.proto, gateway |-> lan.gateway,
          net |-> [ip |-> lan.ip, len |-> lan.len], up |-> FALSE]

\* "set network.lan.ipaddr=ip": the whole option is replaced, so a length
\* that was written as its suffix goes with it.
SetIpaddr(lan, ip) ==
  [proto |-> lan.proto, gateway |-> lan.gateway, ip |-> ip,
   len |-> IF lan.cidr THEN NoMask ELSE lan.len, cidr |-> FALSE]

-----------------------------------------------------------------------------
(* conflict/service.go *)

\* Mutant: the spare address only has to lie outside the second network.
MutNoConflictIP(net1, net2) ==
  IF ~NetContains(net2, Ip1) THEN Ip1
  ELSE IF ~NetContains(net2, Ip2) THEN Ip2
  ELSE NoIP

\* The first spare address that lies in neither network.
NoConflictIP(net1, net2) ==
  IF ~NetContains(net2, Ip1) /\ ~NetContains(net1, Ip1) THEN Ip1
  ELSE IF ~NetContains(net2, Ip2) /\ ~NetContains(net1, Ip2) THEN Ip2
  ELSE NoIP

\* proto = "dhcp", or a static address with a gateway behind the LAN.
lanNeedsDHNS(lan) == lan.proto = "dhcp" \/ (lan.proto = "static" /\ lan.gateway)

\* Mutant: only "the LAN contains the WAN's address" counts as an overlap.
MutPlanWANLANConflict(wanNet, lan, lanDHCPDisabled) ==
  IF lanNeedsDHNS(lan)
    THEN [needDHNS |-> TRUE, newIP |-> NoIP]
  ELSE IF NetContains(lan.net, wanNet.ip)
    THEN [needDHNS |-> FALSE, newIP |-> NoConflictIP(wanNet, lan.net)]
  ELSE [needDHNS |-> lanDHCPDisabled, newIP |-> NoIP]

\* newIP = NoIP: no command; otherwise "set network.lan.ipaddr=newIP".
PlanWANLANConflict(wanNet, lan, lanDHCPDisabled) ==
  IF lanNeedsDHNS(lan)
    THEN [needDHNS |-> TRUE, newIP |-> NoIP]
  ELSE IF Overlaps(wanNet, lan.net)
    THEN [needDHNS |-> FALSE, newIP |-> NoConflictIP(wanNet, lan.net)]
  ELSE [needDHNS |-> lanDHCPDisabled, newIP |-> NoIP]

\* setupStaticIPInOtherNS: the address given to the helper namespace.
StaticIPFor(lanNet) ==
  IF ~NetContains(lanNet, Ip1) THEN Ip1
  ELSE IF ~NetContains(lanNet, Ip2) THEN Ip2
  ELSE NoIP

-----------------------------------------------------------------------------
(* recovery/service.go *)

IfaceDecision ==
  [stopUdhcpc : BOOLEAN, setupStaticIPInOtherNS : BOOLEAN,
   checkWANLANConflict : BOOLEAN, ifdownPlanB : BOOLEAN,
   ifdownPlanBAndIfupLAN : BOOLEAN, ifupLAN : BOOLEAN,
   checkLANHasIP : BOOLEAN, startUdhcpc : BOOLEAN]

NoDecision ==
  [stopUdhcpc |-> FALSE, setupStaticIPInOtherNS |-> FALSE,
   checkWANLANConflict |-> FALSE, ifdownPlanB |-> FALSE,
   ifdownPlanBAndIfupLAN |-> FALSE, ifupLAN |-> FALSE,
   checkLANHasIP |-> FALSE, startUdhcpc |-> FALSE]

IsUp(sec) == sec # NoSec /\ sec.up

\* Mutant: with the WAN up, planb is left alone.
MutPlanIfaceChange(lan, wan, planb, networkOK) ==
  IF IsUp(wan)
    THEN [NoDecision EXCEPT
            !.stopUdhcpc = TRUE,
            !.setupStaticIPInOtherNS = lanNeedsDHNS(lan),
            !.checkWANLANConflict = ~lanNeedsDHNS(lan),
            !.ifupLAN = ~lan.up \/ IsUp(planb)]
  ELSE IF lanNeedsDHNS(lan)
    THEN [NoDecision EXCEPT
            !.stopUdhcpc = TRUE,
            !.checkLANHasIP = TRUE,
            !.setupStaticIPInOtherNS = TRUE,
            !.ifdownPlanBAndIfupLAN = IsUp(planb),
            !.ifupLAN = ~IsUp(planb) /\ ~lan.up]
  ELSE IF networkOK \/ IsUp(planb)
    THEN [NoDecision EXCEPT !.stopUdhcpc = TRUE]
  ELSE [NoDecision EXCEPT !.ifupLAN = ~lan.up, !.startUdhcpc = TRUE]

\* lan, wan and planb are *Section snapshots, wan and planb possibly nil.
PlanIfaceChange(lan, wan, planb, networkOK) ==
  IF IsUp(wan)
    THEN [NoDecision EXCEPT
            !.stopUdhcpc = TRUE,
            !.ifdownPlanB = planb # NoSec,
            !.setupStaticIPInOtherNS = lanNeedsDHNS(lan),
            !.checkWANLANConflict = ~lanNeedsDHNS(lan),
            !.ifupLAN = ~lan.up \/ IsUp(planb)]
  ELSE IF lanNeedsDHNS(lan)
    THEN [NoDecision EXCEPT
            !.stopUdhcpc = TRUE,
            !.checkLANHasIP = TRUE,
            !.setupStaticIPInOtherNS = TRUE,
            !.ifdownPlanBAndIfupLAN = IsUp(planb),
            !.ifupLAN = ~IsUp(planb) /\ ~lan.up]
  ELSE IF networkOK \/ IsUp(planb)
    THEN [NoDecision EXCEPT !.stopUdhcpc = TRUE]
  ELSE [NoDecision EXCEPT !.ifupLAN = ~lan.up, !.startUdhcpc = TRUE]

\* lease.valid: both address and netmask parse.
PlanDHCPChange(lan, planb, lease) ==
  IF ~lease.valid
    THEN [valid |-> FALSE, conflict |-> FALSE, restartLAN |-> FALSE,
          createPlanB |-> FALSE, ifupPlanB |-> FALSE]
  ELSE IF Overlaps(lease.net, lan.net)
    THEN [valid |-> TRUE, conflict |-> TRUE, restartLAN |-> IsUp(planb),
          createPlanB |-> FALSE, ifupPlanB |-> FALSE]
  ELSE [valid |-> TRUE, conflict |-> FALSE, restartLAN |-> FALSE,
        createPlanB |-> planb = NoSec, ifupPlanB |-> ~IsUp(planb)]

=============================================================================
