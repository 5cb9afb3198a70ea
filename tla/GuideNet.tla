------------------------------ MODULE GuideNet ------------------------------
(***************************************************************************)
(* The setup guide's network requests: DNS, client mode, PPPoE, LAN and    *)
(* the transparent gateway, and the LAN address of the console.            *)
(*                                                                         *)
(*   backend/service/guide.go, guide_network_basics_*.go,                  *)
(*   guide_transparent_gateway_*.go, service-tool.go (outboundInterface)   *)
(*   backend/modules/guidecore/networkbasics, backend/utils/ip.go          *)
(*   backend/cmd/backend/prompt.go (the console's menu)                    *)
(*                                                                         *)
(* An address is a number of AddrBits bits, a mask one too.                *)
(***************************************************************************)
EXTENDS UciShell, FiniteSets, TLC

CONSTANTS MaxGuideRequests  \* bound on the requests of a behaviour

VARIABLES gnet,    \* the packages network, dhcp and firewall: file, staged, live
          lanZone, \* the firewall has a zone called lan
          gasked,  \* history: the last request and its plan, if it was answered with success
          stopped, \* history: someone asked to stop the DHCP server of the LAN
          gserved  \* how many requests there were

guideNetVars == <<gnet, lanZone, gasked, stopped, gserved>>

AddrBits == 4
Space == 2 ^ AddrBits
Octet == 4     \* as many addresses differ in the last part of their text
NoAddr == -1   \* no text
BadAddr == -2  \* a text that is no address
Masks == {8, 12}            \* the contiguous ones, but for the full ones
BadMasks == {0, 5, BadAddr} \* none, with a hole, no mask at all

N(name) == <<"network", name>>
D(name) == <<"dhcp", name>>
F(name) == <<"firewall", name>>

\* The options of an interface i, by name.
Opt(i, o) == N(i \o "." \o o)
IfOptions == {"proto", "ipaddr", "netmask", "gateway", "peerdns", "dns", "defaultroute"}
GuideOptions ==
  {Opt(i, o) : i \in {"wan", "lan"}, o \in IfOptions}
  \union {N("wan.username"), N("wan.password"), N("lan6"), D("lan.ignore"), D("lan.start"), D("lan.limit"),
          D("lan.leasetime"), D("lan.dhcpv6"), F("lan.masq"), F("wan.input")}

Plain(ip) == [ip |-> ip, len |-> NoAddr] \* "ip"; "ip/len" has a len

-----------------------------------------------------------------------------
(* Addresses                                                               *)

IsValidIpv4Mask(m) == m \in Masks \union {0}

\* SubNetMaskToLen: 0 for a mask with a hole, an error for no mask.
SubNetMaskToLen(m) == CASE m = 12 -> 2 [] m = 8 -> 1 [] m \in {0, 5} -> 0 [] OTHER -> BadAddr
subnetMaskToLen(m) == SubNetMaskToLen(m)
LenToSubNetMask(len) == Space - 2 ^ (AddrBits - len)

\* ip.Mask(mask)
NetworkOf(ip, mask) == ip - (ip % (Space - mask))

BadPool == [start |-> NoAddr, limit |-> NoAddr]

CalcStartAndLimit(startIP, endIP, mask) ==
  IF startIP < 0 \/ endIP < 0 \/ mask < 0 \/ ~IsValidIpv4Mask(mask) \/ endIP <= startIP THEN BadPool
  ELSE [start |-> startIP - NetworkOf(startIP, mask), limit |-> endIP - startIP]

-----------------------------------------------------------------------------
(* Readers of the files                                                    *)

uciGetNetDNSClient(f, i) ==
  IF f[Opt(i, "peerdns")] = <<"0">> THEN [proto |-> "manual", dns |-> f[Opt(i, "dns")]]
  ELSE [proto |-> "auto", dns |-> <<>>]

\* An address without a mask has the reader index an empty list.
Panic == [ip |-> BadAddr, mask |-> BadAddr]
uciGetIPAndMask(f, i) ==
  LET ips == f[Opt(i, "ipaddr")]
  IN  IF ips = Unset THEN [ip |-> NoAddr, mask |-> NoAddr]
      ELSE IF ips[1].len # NoAddr THEN [ip |-> ips[1].ip, mask |-> LenToSubNetMask(ips[1].len)]
      ELSE IF f[Opt(i, "netmask")] = Unset THEN Panic
      ELSE [ip |-> ips[1].ip, mask |-> f[Opt(i, "netmask")][1]]

isLanDHCPServerEnabled(f) == f[D("lan.ignore")] # <<"1">>
IsWanPresent(f) == f[Opt("wan", "proto")] # Unset

\* The pool as text: its numbers in the place of the address's last part, which
\* is no address when they are too large for it.
LastPart(lanIP, n) == IF n \in 0 .. Octet - 1 THEN lanIP - (lanIP % Octet) + n ELSE BadAddr
BuildLANRange(lanIP, start, limit) ==
  IF lanIP < 0 THEN [start |-> NoAddr, end |-> NoAddr]
  ELSE [start |-> LastPart(lanIP, start), end |-> LastPart(lanIP, start + limit - 1)]

ReadWANConfig(f) ==
  [exists |-> IsWanPresent(f), proto |-> Last1(f[Opt("wan", "proto")], ""), addr |-> uciGetIPAndMask(f, "wan"),
   gateway |-> Last1(f[Opt("wan", "gateway")], NoAddr), dns |-> uciGetNetDNSClient(f, "wan"),
   account |-> f[N("wan.username")], password |-> f[N("wan.password")]]

ReadLANConfig(f) ==
  [addr |-> uciGetIPAndMask(f, "lan"), dhcp |-> isLanDHCPServerEnabled(f),
   range |-> IF isLanDHCPServerEnabled(f)
             THEN BuildLANRange(uciGetIPAndMask(f, "lan").ip, Last1(f[D("lan.start")], 0), Last1(f[D("lan.limit")], 0))
             ELSE BuildLANRange(NoAddr, 0, 0)]

ReadTransparentGateway(f) ==
  [addr |-> uciGetIPAndMask(f, "lan"), gateway |-> Last1(f[Opt("lan", "gateway")], NoAddr),
   dns |-> Last1(f[Opt("lan", "dns")], ""), dhcp |-> isLanDHCPServerEnabled(f)]

\* ReadWANRuntime and DhcpClient.Get: with DHCP, the address of the lease.
ReadWANRuntime == [addr |-> [ip |-> 9, mask |-> 8], gateway |-> 8]
GetGuideClientMode(f) ==
  LET wan == ReadWANConfig(f)
  IN  IF wan.addr.ip = NoAddr /\ wan.proto = "dhcp"
      THEN [wan EXCEPT !.addr = ReadWANRuntime.addr, !.gateway = IF @ = NoAddr THEN ReadWANRuntime.gateway ELSE @]
      ELSE wan

\* netifd's interfaces in their order, for the links that are up.
NetworkDump(live, up) ==
  [n \in 1 .. 2 |->
    LET i == IF n = 1 THEN "lan" ELSE "wan"
    IN  [name |-> i, proto |-> Last1(live[Opt(i, "proto")], ""),
         addr |-> i \in up,
         route |-> /\ i \in up /\ live[Opt(i, "defaultroute")] # <<"0">>
                   /\ live[Opt(i, "proto")] = <<"static">> => live[Opt(i, "gateway")] # Unset]]

outboundInterface(dump) ==
  LET ways == {n \in DOMAIN dump : dump[n].route /\ dump[n].addr}
  IN  IF ways = {} THEN [name |-> "wan", proto |-> ""]
      ELSE LET n == CHOOSE n \in ways : \A m \in ways : n <= m IN [name |-> dump[n].name, proto |-> dump[n].proto]

-----------------------------------------------------------------------------
(* What the requests have the shell run                                    *)

BuildPPPoECommands(account, password) ==
  <<Set(Opt("wan", "proto"), "pppoe"), Set(N("wan.username"), account), Set(N("wan.password"), password),
    Del(Opt("wan", "dns")), Del(Opt("wan", "peerdns")), Del(Opt("wan", "defaultroute")),
    Set(Opt("lan", "defaultroute"), "0")>>

\* Mutant: the way out is not given back to the interface.
MutBuildInterfaceCommandBatches(i, proto, ip, mask, gw) ==
  LET first == <<Set(Opt("wan", "defaultroute"), "0"), Set(Opt("lan", "defaultroute"), "0"), Set(Opt(i, "proto"), proto)>>
  IN  IF proto = "dhcp" THEN Do(first \o <<Del(Opt(i, "ipaddr")), Del(Opt(i, "netmask"))>>)
      ELSE IF ip < 0 \/ subnetMaskToLen(mask) <= 0 THEN FailAfter(first)
      ELSE Do(first \o <<Set(Opt(i, "ipaddr"), Plain(ip)), Set(Opt(i, "netmask"), mask), Set(Opt(i, "gateway"), gw)>>)

\* The batches, and whether the address was good: what was built before an
\* address that is not runs all the same (uciSetInterfaceWithoutCommit).
BuildInterfaceCommandBatches(i, proto, ip, mask, gw) ==
  LET first == <<Set(Opt("wan", "defaultroute"), "0"), Set(Opt("lan", "defaultroute"), "0"),
                 Del(Opt(i, "defaultroute")), Set(Opt(i, "proto"), proto)>>
      clear == <<Del(Opt(i, "ipaddr")), Del(Opt(i, "netmask"))>>
  IN  IF proto = "dhcp" THEN Do(first \o clear)
      ELSE IF ip < 0 \/ subnetMaskToLen(mask) <= 0 THEN FailAfter(first)
      ELSE Do(first \o clear \o <<Set(Opt(i, "ipaddr"), Plain(ip)), Set(Opt(i, "netmask"), mask)>>
              \o IF gw = NoAddr THEN <<>> ELSE <<Set(Opt(i, "gateway"), gw)>>)

BuildDNSCommandBatches(i, proto, dns) ==
  <<Del(Opt("wan", "dns")), Del(Opt("wan", "peerdns")), Del(Opt("lan", "dns")), Del(Opt("lan", "peerdns"))>>
  \o IF proto # "manual" \/ dns = <<>> THEN <<>>
     ELSE <<Del(Opt(i, "dns")), Set(Opt(i, "peerdns"), "0")>> \o [n \in DOMAIN dns |-> AddList(Opt(i, "dns"), dns[n])]

DeleteLan6 == <<Del(N("lan6"))>>
SetLan6(enable) == IF enable THEN <<Set(N("lan6"), "dhcpv6")>> ELSE DeleteLan6

uciSetLanMasq(enable) == IF lanZone THEN <<Set(F("lan.masq"), IF enable THEN "1" ELSE "")>> ELSE <<>>

\* enabledLanDHCPServer: the pool is only given when the file has none.
enabledLanDHCPServer(f) ==
  <<Set(D("lan.dhcpv6"), "server"), Del(D("lan.ignore"))>>
  \o (IF f[D("lan.start")] = Unset \/ f[D("lan.limit")] = Unset
      THEN <<Set(D("lan.start"), 1), Set(D("lan.limit"), 2)>> ELSE <<>>)
  \o (IF f[D("lan.leasetime")] = Unset THEN <<Set(D("lan.leasetime"), "12h")>> ELSE <<>>)

\* The gateway's SetDHCP.
SetDHCP(enable) ==
  IF enable THEN <<Del(D("lan.ignore")), Set(D("lan.start"), 1), Set(D("lan.limit"), 2), Set(D("lan.leasetime"), "12h")>>
  ELSE <<Set(D("lan.ignore"), "1")>>

BuildLanDHCPRangeCommands(start, limit) ==
  <<Set(D("lan.start"), start), Set(D("lan.limit"), limit), Set(D("lan.leasetime"), "12h")>>

BuildWANModePendingConfigs(includeMasq, enableLanDhcp) ==
  (IF includeMasq THEN <<"firewall">> ELSE <<>>) \o (IF enableLanDhcp THEN <<"dhcp">> ELSE <<>>) \o <<"network">>
\* LanSetting: in batches of its own, and committed by them.  From the console
\* (not ipOnly) a LAN that was a client becomes static, without a DHCP server.
LanSetting(f, ip, mask, ipOnly) ==
  LET client == ~ipOnly /\ f[Opt("lan", "proto")] = <<"dhcp">>
  IN  IF ip < 0 \/ SubNetMaskToLen(mask) <= 0 THEN Refuse
      ELSE Do(<<Background(
             <<Del(Opt("lan", "ipaddr")), Del(Opt("lan", "netmask")),
               Set(Opt("lan", "ipaddr"), Plain(ip)), Set(Opt("lan", "netmask"), mask)>>
             \o (IF client THEN <<Set(Opt("lan", "proto"), "static"), Set(D("lan.ignore"), "1")>> ELSE <<>>)
             \o UciCommitAndApply(IF client THEN <<"network", "dhcp">> ELSE <<"network">>))>>)

\* Steps one after the other, up to the first that fails.
Then(p, q) == IF p.ok THEN [cmds |-> p.cmds \o q.cmds, ok |-> q.ok] ELSE p

WriteLAN(f, r) == LanSetting(f, r.ip, r.mask, TRUE)

SetLANConfig(f, r) ==
  LET pool == CalcStartAndLimit(r.start, r.end, r.mask)
  IN  IF ~r.dhcp THEN WriteLAN(f, r)
      ELSE IF pool = BadPool THEN Refuse
      ELSE Then(Then(Do(BuildLanDHCPRangeCommands(pool.start, pool.limit)), WriteLAN(f, r)), Do(enabledLanDHCPServer(f)))

\* After a WAN mode: no IPv6 relay, no masquerading on the LAN, perhaps its DHCP server.
PendingForWANMode(f, lanDhcp) ==
  Do(DeleteLan6 \o uciSetLanMasq(FALSE) \o (IF lanDhcp THEN enabledLanDHCPServer(f) ELSE <<>>)
     \o UciCommitAndApply(BuildWANModePendingConfigs(lanZone, lanDhcp)))

-----------------------------------------------------------------------------
(* The requests: what is refused, and the plan                             *)

DNSConfigSet(r, way) ==
  IF r.proto \notin {"manual", "auto"} \/ (r.proto = "manual" /\ r.dns = <<>>) THEN Refuse
  ELSE IF r.proto # "manual" /\ way.proto = "static" THEN Refuse
  ELSE Do(BuildDNSCommandBatches(way.name, r.proto, r.dns) \o UciCommitAndApply(<<"network">>))

ClientModeSet(f, r) ==
  IF \/ r.proto \notin {"static", "dhcp"}
     \/ r.proto = "static" /\ (r.gateway = NoAddr \/ r.mask = NoAddr)
     \/ r.proto = "static" /\ r.dnsproto = "auto"
     \/ r.dnsproto = "manual" /\ r.dns = <<>>
     \/ r.dnsproto \notin {"manual", "auto"}
  THEN Refuse
  ELSE Then(Then(BuildInterfaceCommandBatches("wan", r.proto, r.ip, r.mask, r.gateway),
                 Do(BuildDNSCommandBatches("wan", r.dnsproto, r.dns))),
            PendingForWANMode(f, r.lanDhcp))

PPPoESet(f, r) ==
  IF r.account = "" \/ r.password = "" THEN Refuse
  ELSE Then(Do(BuildPPPoECommands(r.account, r.password)), PendingForWANMode(f, r.lanDhcp))

LanSet(f, r) ==
  IF r.ip = NoAddr \/ r.mask = NoAddr \/ (r.dhcp /\ (r.start < 0 \/ r.end < 0)) THEN Refuse
  ELSE Then(SetLANConfig(f, r), Do(IF r.dhcp THEN UciCommitAndApply(<<"dhcp">>) ELSE <<>>))

TransparentGatewaySet(r) ==
  IF r.dns = "" \/ r.ip = NoAddr \/ r.mask = NoAddr \/ r.gateway = NoAddr THEN Refuse
  ELSE Then(Then(Do(SetDHCP(r.dhcp)), BuildInterfaceCommandBatches("lan", "static", r.ip, r.mask, r.gateway)),
            Do(BuildDNSCommandBatches("lan", "manual", <<r.dns>>) \o SetLan6(r.dhcp6c) \o uciSetLanMasq(r.nat)
               \o UciCommitAndApply((IF lanZone THEN <<"firewall">> ELSE <<>>) \o <<"dhcp", "network">>)))

\* promptIp and promptMask take an address and a contiguous mask.
promptIpModify(f, ip, mask) ==
  IF ip < 0 \/ ~IsValidIpv4Mask(mask) THEN Refuse ELSE LanSetting(f, ip, mask, FALSE)

\* The script stages nothing of its own: it commits and reloads.
WanAccessAllow(f) ==
  IF f[F("wan.input")] = <<"ACCEPT">> THEN Do(<<>>)
  ELSE Do(<<Background(<<Set(F("wan.input"), "ACCEPT")>> \o UciCommitAndApply(<<"firewall">>))>>)

-----------------------------------------------------------------------------
(* Behaviours                                                              *)

GuideDefault ==
  [o \in GuideOptions |->
     CASE o = Opt("wan", "proto") -> <<"dhcp">> [] o = Opt("lan", "proto") -> <<"static">>
       [] o = Opt("lan", "ipaddr") -> <<[ip |-> 4, len |-> 2]>> [] o = D("lan.start") -> <<1>>
       [] o = D("lan.limit") -> <<2>> [] OTHER -> Unset]

NoGuideRequest == [kind |-> "none", writes |-> {}, hadPool |-> FALSE]

GuideNetInit ==
  /\ lanZone \in BOOLEAN
  /\ \E f \in {GuideDefault,
               [GuideDefault EXCEPT ![Opt("lan", "proto")] = <<"dhcp">>, ![Opt("lan", "ipaddr")] = Unset],
               [GuideDefault EXCEPT ![Opt("wan", "proto")] = Unset, ![D("lan.start")] = Unset]} :
       /\ gnet = [file |-> f, staged |-> f, live |-> f]
       /\ lanZone \/ f = GuideDefault
  /\ gasked = NoGuideRequest /\ stopped = FALSE /\ gserved = 0

GuideNetIdle ==
  /\ gnet = [file |-> GuideDefault, staged |-> GuideDefault, live |-> GuideDefault]
  /\ lanZone = FALSE /\ gasked = NoGuideRequest /\ stopped = FALSE /\ gserved = MaxGuideRequests

\* A request runs its plan, as far as it gets before the client goes away.
ServeGuide(req, plan) ==
  /\ gserved < MaxGuideRequests /\ gserved' = gserved + 1
  /\ \E k \in 0 .. Len(plan.cmds) :
       /\ gnet' = BatchRun(gnet, plan.cmds)[k]
       /\ gasked' = IF plan.ok /\ k = Len(plan.cmds) THEN [req EXCEPT !.writes = Written(plan.cmds)]
                    ELSE NoGuideRequest
  /\ UNCHANGED lanZone

Request(kind, r) ==
  [kind |-> kind, r |-> r, writes |-> {}, hadPool |-> gnet.file[D("lan.start")] # Unset /\ gnet.file[D("lan.limit")] # Unset]

DNSRequests == {[proto |-> p, dns |-> d] : p \in {"manual", "auto", "other"}, d \in {<<>>, <<"d1">>, <<"d1", "d2">>}}
PostGuideDnsConfig ==
  \E r \in DNSRequests, up \in SUBSET {"lan", "wan"} :
    LET way == outboundInterface(NetworkDump(gnet.live, up))
    IN  ServeGuide(Request("dns", [r EXCEPT !.dns = IF r.proto = "auto" THEN <<>> ELSE @] @@ [name |-> way.name]),
                   DNSConfigSet(r, way))
        /\ UNCHANGED stopped

ClientStatic == [proto |-> "static", ip |-> 6, mask |-> 12, gateway |-> 5, dnsproto |-> "manual", dns |-> <<"d2">>,
                 lanDhcp |-> FALSE]
ClientRequests ==
  {ClientStatic, [ClientStatic EXCEPT !.lanDhcp = TRUE], [ClientStatic EXCEPT !.proto = "pppoe"],
   [ClientStatic EXCEPT !.ip = BadAddr], [ClientStatic EXCEPT !.gateway = NoAddr],
   [ClientStatic EXCEPT !.dnsproto = "auto"], [ClientStatic EXCEPT !.dns = <<>>]}
  \union {[ClientStatic EXCEPT !.mask = m] : m \in BadMasks}
  \union {[ClientStatic EXCEPT !.proto = "dhcp", !.dnsproto = p, !.lanDhcp = l] : p \in {"manual", "auto"}, l \in BOOLEAN}
PostGuideClientMode ==
  \E r \in ClientRequests : ServeGuide(Request("client", r), ClientModeSet(gnet.file, r)) /\ UNCHANGED stopped

PPPoERequests == [account : {"", "a"}, password : {"p"}, lanDhcp : BOOLEAN]
PostGuidePppoe ==
  \E r \in PPPoERequests : ServeGuide(Request("pppoe", r), PPPoESet(gnet.file, r)) /\ UNCHANGED stopped

LanRequest == [ip |-> 4, mask |-> 12, dhcp |-> TRUE, start |-> 5, end |-> 7]
LanRequests ==
  {LanRequest, [LanRequest EXCEPT !.dhcp = FALSE], [LanRequest EXCEPT !.end = 6], [LanRequest EXCEPT !.end = 5],
   [LanRequest EXCEPT !.mask = 8], [LanRequest EXCEPT !.ip = 8], [LanRequest EXCEPT !.ip = BadAddr]}
  \union {[LanRequest EXCEPT !.mask = m] : m \in BadMasks}
PostGuideLan == \E r \in LanRequests : ServeGuide(Request("lan", r), LanSet(gnet.file, r)) /\ UNCHANGED stopped

GatewayRequest == [ip |-> 6, mask |-> 12, gateway |-> 4, dns |-> "d1", dhcp |-> FALSE, dhcp6c |-> TRUE, nat |-> TRUE]
GatewayRequests ==
  {GatewayRequest, [GatewayRequest EXCEPT !.dhcp = TRUE, !.nat = FALSE], [GatewayRequest EXCEPT !.dhcp6c = FALSE],
   [GatewayRequest EXCEPT !.ip = BadAddr], [GatewayRequest EXCEPT !.mask = 5], [GatewayRequest EXCEPT !.dns = ""]}
PostGuideGatewayRouter ==
  \E r \in GatewayRequests :
    /\ ServeGuide(Request("gateway", r), TransparentGatewaySet(r))
    /\ stopped' = (stopped \/ ~r.dhcp)

\* The console is another process, whose commands nobody cuts off.
ConsoleLan ==
  \E ip \in {7, BadAddr}, mask \in {12, 5} :
    /\ ServeGuide(Request("console", [ip |-> ip, mask |-> mask]), promptIpModify(gnet.file, ip, mask))
    /\ stopped' = TRUE
ConsoleWanAccess ==
  /\ IsWanPresent(gnet.file)
  /\ ServeGuide(Request("access", [input |-> "ACCEPT"]), WanAccessAllow(gnet.file))
  /\ UNCHANGED stopped

\* A request of another part commits one of the packages.
CommitElsewhere ==
  \E p \in {"network", "dhcp", "firewall"} :
    /\ gnet.staged # gnet.file
    /\ ServeGuide(NoGuideRequest, FailAfter(<<Background(UciCommitAndApply(<<p>>))>>))
    /\ UNCHANGED stopped

GuideNetNext == PostGuideDnsConfig \/ PostGuideClientMode \/ PostGuidePppoe \/ PostGuideLan
                \/ PostGuideGatewayRouter \/ ConsoleLan \/ ConsoleWanAccess \/ CommitElsewhere

GuideNetSpec == GuideNetInit /\ [][GuideNetNext]_guideNetVars

-----------------------------------------------------------------------------
(* Properties                                                              *)

GuideNetTypeOK ==
  /\ DOMAIN gnet = {"file", "staged", "live"}
  /\ \A side \in DOMAIN gnet :
       /\ DOMAIN gnet[side] = GuideOptions
       /\ \A i \in {"wan", "lan"} : Len(gnet[side][Opt(i, "ipaddr")]) <= 1 /\ Len(gnet[side][Opt(i, "dns")]) <= 2
       /\ gnet[side][D("lan.start")] \in {Unset} \union {<<n>> : n \in 0 .. Space - 1}
       /\ gnet[side][D("lan.limit")] \in {Unset} \union {<<n>> : n \in 1 .. Space - 1}
  /\ gserved \in 0 .. MaxGuideRequests

\* A pool was asked for, in the network of the LAN's address, and the file had one.
PoolOfLan ==
  /\ gasked.kind = "lan" /\ gasked.hadPool /\ gasked.r.dhcp
  /\ NetworkOf(gasked.r.start, gasked.r.mask) = NetworkOf(gasked.r.ip, gasked.r.mask)

\* A request that is answered with success is what the next reading of the form
\* shows, whatever requests that failed or were cut off have left staged.  (The
\* LAN's form without a pool leaves the DHCP server as it is; a pool that does
\* not fit the last part of an address, or is of another network, has no text.)
GuideAsAsked ==
  LET r == gasked.r
      wan == GetGuideClientMode(gnet.file)
      lan == ReadLANConfig(gnet.file)
      gw == ReadTransparentGateway(gnet.file)
  IN  /\ gasked.kind = "dns" => uciGetNetDNSClient(gnet.file, r.name) = [proto |-> r.proto, dns |-> r.dns]
      /\ gasked.kind = "client" =>
           /\ wan.proto = r.proto /\ wan.dns.proto = r.dnsproto
           /\ r.dnsproto = "manual" => wan.dns.dns = r.dns
           /\ r.proto = "static" => wan.addr = [ip |-> r.ip, mask |-> r.mask] /\ wan.gateway = r.gateway
           /\ r.lanDhcp => lan.dhcp
      /\ gasked.kind = "pppoe" =>
           wan.proto = "pppoe" /\ wan.account = <<r.account>> /\ wan.password = <<r.password>>
      /\ gasked.kind = "lan" =>
           /\ lan.addr = [ip |-> r.ip, mask |-> r.mask]
           /\ r.dhcp => lan.dhcp
           /\ r.mask = 12 /\ PoolOfLan => lan.range.start = r.start
      /\ gasked.kind = "gateway" =>
           /\ gw.addr = [ip |-> r.ip, mask |-> r.mask] /\ gw.gateway = r.gateway
           /\ gw.dns = r.dns /\ gw.dhcp = r.dhcp

\* A mode that was set has one way out, the interface it is about, and the LAN
\* is masqueraded as it says.
OneWayOut ==
  LET way == [i \in {"wan", "lan"} |-> gnet.file[Opt(i, "defaultroute")] # <<"0">>]
  IN  /\ gasked.kind \in {"client", "pppoe"} =>
           /\ way["wan"] /\ ~way["lan"]
           /\ lanZone => gnet.file[F("lan.masq")] = <<"">>
      /\ gasked.kind = "gateway" =>
           /\ way["lan"] /\ ~way["wan"]
           /\ lanZone => gnet.file[F("lan.masq")] = <<IF gasked.r.nat THEN "1" ELSE "">>

\* What dnsmasq hands out is between the two addresses of the form, if there was
\* a pool before.
PoolInside ==
  PoolOfLan =>
    LET first == NetworkOf(gasked.r.ip, gasked.r.mask) + gnet.file[D("lan.start")][1]
    IN  first >= gasked.r.start /\ first + gnet.file[D("lan.limit")][1] - 1 <= gasked.r.end

\* Nothing that a successful request wrote is left staged or not yet in use:
\* the list of packages it applies fits the commands it gave.
NothingLeftBehind == \A o \in gasked.writes : gnet.staged[o] = gnet.file[o] /\ gnet.live[o] = gnet.file[o]

\* The DHCP server of the LAN only stops when the gateway's form or the console says so.
DhcpKept == gnet.staged[D("lan.ignore")] = <<"1">> => stopped

\* The guide's network: every mode that was set leads out one way, shows and runs what was
\* asked, with a pool inside its bounds, and stops nothing it was not asked to.
GuideNetCorrect ==
  GuideNetTypeOK /\ GuideAsAsked /\ OneWayOut /\ PoolInside /\ NothingLeftBehind /\ DhcpKept
=============================================================================
