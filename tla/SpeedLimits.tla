----------------------------- MODULE SpeedLimits -----------------------------
(***************************************************************************)
(* LAN control: the speed limits of eqos, by address, and the blocked      *)
(* devices of the firewall, by MAC.                                        *)
(*                                                                         *)
(*   backend/service/lan_speed_limit*.go, lan_control_backend.go           *)
(*                                                                         *)
(* A rule is found in the file by its place among the sections of its type *)
(* and deleted, with a commit of its own, before the new one is added; the *)
(* last section that is staged is then filled in option by option.         *)
(***************************************************************************)
EXTENDS Integers, Sequences, FiniteSets, SequencesExt

CONSTANT MaxLimitRequests  \* bound on the requests of a behaviour

ASSUME LimAssumption == MaxLimitRequests \in Nat

VARIABLES lim,      \* eqos and firewall: the file, what is staged, what is in force
          limUncut, \* history: no request has been cut off yet
          limAsked, \* history: the last request, if it was answered with success
          limCount  \* how many there were

limVars == <<lim, limUncut, limAsked, limCount>>

LimIps == {"ip1", "ip2"}
LimMacs == {"AA", "BB"}
\* strings.ToUpper(strings.TrimSpace(mac))
normalizeMAC(mac) == CASE mac = "aa" -> "AA" [] mac = "bb" -> "BB" [] OTHER -> mac

\* A device of eqos; a rule of the firewall, which may be one of the user's own.
\* An option nobody has set, and a MAC nobody has given, is "none".
BlankDevice == [ip |-> "none", up |-> 0, down |-> 0]
BlankRule == [name |-> "none", target |-> "none", mac |-> "none"]
OwnRule == [name |-> "Allow-Ping", target |-> "ACCEPT", mac |-> "none"]
OwnReject == [name |-> "Mine", target |-> "REJECT", mac |-> "AA"]
buildBlockedRuleName(mac) == CASE mac = "AA" -> "BL_AA" [] mac = "BB" -> "BL_BB" [] OTHER -> "BL_"
BlockRule(mac) == [name |-> buildBlockedRuleName(mac), target |-> "REJECT", mac |-> mac]

buildBlockedDeviceRule(rule) == rule.mac # "none" /\ rule.name \in {"BL_AA", "BL_BB"} /\ rule.target = "REJECT"

-----------------------------------------------------------------------------
(* The list                                                                *)

\* ReadRuleLists, by go-uci.
ReadBlocks(side) == {rule.mac : rule \in {r \in Range(side.firewall) : buildBlockedDeviceRule(r)}}

\* Of the devices in the neighbour table, those that have an address.
MacsAt(arp, ip) == {e[2] : e \in {a \in arp : a[1] = ip}}

\* Mutant: the limit alone is shown.
MutMergeLanSpeedLimitedDeviceLists(side, arp) ==
  LET limit(n) == side.eqos[n]
      macs(n) == MacsAt(arp, limit(n).ip)
  IN  {[ip |-> limit(n).ip, mac |-> macs(n), access |-> TRUE] : n \in DOMAIN side.eqos}
      \union {[ip |-> e[1], mac |-> {e[2]}, access |-> FALSE] :
                e \in {a \in arp : a[2] \in ReadBlocks(side) /\ \A n \in DOMAIN side.eqos : macs(n) # {a[2]}}}
\* A block is shown with the first limit of its device, or by itself.
mergeLanSpeedLimitedDeviceLists(side, arp) ==
  LET limit(n) == side.eqos[n]
      macs(n) == MacsAt(arp, limit(n).ip)
      first(n) == \A k \in 1 .. n - 1 : macs(k) # macs(n)
  IN  {[ip |-> limit(n).ip, mac |-> macs(n), access |-> ~(macs(n) # {} /\ macs(n) \subseteq ReadBlocks(side) /\ first(n))] :
         n \in DOMAIN side.eqos}
      \union {[ip |-> e[1], mac |-> {e[2]}, access |-> FALSE] :
                e \in {a \in arp : a[2] \in ReadBlocks(side) /\ \A n \in DOMAIN side.eqos : macs(n) # {a[2]}}}

\* The list of all devices: the last limit of an address counts, and a block takes access
\* away whether there is a limit or not.
buildBestEffortSpeedLimitMaps(side) ==
  [ip \in {d.ip : d \in Range(side.eqos)} |->
     LET at == {n \in DOMAIN side.eqos : side.eqos[n].ip = ip} IN side.eqos[CHOOSE n \in at : \A k \in at : k <= n]]
mergeLanDeviceSpeedLimit(side, device) ==
  LET limits == buildBestEffortSpeedLimitMaps(side)
      limited == device[1] \in DOMAIN limits
      blocked == device[2] \in ReadBlocks(side)
  IN  [enabled |-> limited \/ blocked, access |-> ~blocked,
       up |-> IF limited THEN limits[device[1]].up ELSE 0, down |-> IF limited THEN limits[device[1]].down ELSE 0]

-----------------------------------------------------------------------------
(* The writes                                                              *)

LimCmd(op, cfg) == [op |-> op, cfg |-> cfg]

ExecLimit(s, c) ==
  CASE c.op = "del"    -> [s EXCEPT !.staged[c.cfg] = IF c.at \in DOMAIN @ THEN RemoveAt(@, c.at) ELSE @]
    [] c.op = "add"    -> [s EXCEPT !.staged[c.cfg] = Append(@, IF c.cfg = "eqos" THEN BlankDevice ELSE BlankRule)]
    [] c.op = "last"   -> [s EXCEPT !.staged[c.cfg] = [@ EXCEPT ![Len(@)][c.opt] = c.val]]
    [] c.op = "module" -> [s EXCEPT !.staged.module = c.val]
    [] c.op = "commit" -> [s EXCEPT !.file[c.cfg] = s.staged[c.cfg],
                                    !.file.module = IF c.cfg = "eqos" THEN s.staged.module ELSE @]
    [] c.op = "event"  -> [s EXCEPT !.live[c.cfg] = s.file[c.cfg],
                                    !.live.module = IF c.cfg = "eqos" THEN s.file.module ELSE @]

FirstOf(at) == {n \in at : \A k \in at : n <= k}
findSpeedLimitRuleMatchByIP(file, ip) == FirstOf({n \in DOMAIN file.eqos : file.eqos[n].ip = ip})
findSpeedLimitRuleMatchByMAC(file, mac) ==
  FirstOf({n \in DOMAIN file.firewall : buildBlockedDeviceRule(file.firewall[n]) /\ file.firewall[n].mac = mac})

DeleteSection(cfg, at) ==
  IF at = {} THEN <<>> ELSE <<[op |-> "del", cfg |-> cfg, at |-> CHOOSE k \in at : TRUE], LimCmd("commit", cfg)>>
SetLast(cfg, opt, val) == [op |-> "last", cfg |-> cfg, opt |-> opt, val |-> val]

\* Whatever the device has goes, and then one rule comes.
BuildSpeedLimitWritePlan(file, r) ==
  DeleteSection("eqos", findSpeedLimitRuleMatchByIP(file, r.ip))
  \o DeleteSection("firewall", findSpeedLimitRuleMatchByMAC(file, r.mac))

buildSpeedLimitWriteCommands(r) ==
  IF r.action = "delete" THEN <<>>
  ELSE IF r.access
  THEN <<LimCmd("add", "eqos"), SetLast("eqos", "ip", r.ip), SetLast("eqos", "down", r.down), SetLast("eqos", "up", r.up)>>
  ELSE <<LimCmd("add", "firewall"), SetLast("firewall", "name", buildBlockedRuleName(r.mac)), SetLast("firewall", "target", "REJECT"),
         SetLast("firewall", "mac", r.mac)>>

LimApply(cfg) == <<LimCmd("commit", cfg), LimCmd("event", cfg)>>

UpsertSpeedLimitRule(file, r) ==
  LET cmds == BuildSpeedLimitWritePlan(file, r) \o buildSpeedLimitWriteCommands(r)
  IN  IF cmds = <<>> THEN <<>> ELSE cmds \o LimApply("eqos") \o LimApply("firewall")

ApplyModuleConfig(r) == <<[op |-> "module", val |-> r], LimCmd("commit", "eqos")>>
\* A speed of none stands for the default.
SetSpeedLimitModule(r) ==
  ApplyModuleConfig([r EXCEPT !.up = IF @ = 0 THEN 200 ELSE @, !.down = IF @ = 0 THEN 2000 ELSE @])
  \o LimApply("eqos")

-----------------------------------------------------------------------------
(* Behaviours                                                              *)

NoLimit == [kind |-> "none"]
LimFile(eqos, firewall) == [eqos |-> eqos, firewall |-> firewall, module |-> [enabled |-> FALSE, up |-> 200, down |-> 2000]]

LimIdle ==
  /\ LET f == LimFile(<<>>, <<OwnRule, OwnReject>>) IN lim = [file |-> f, staged |-> f, live |-> f]
  /\ limUncut = TRUE /\ limAsked = NoLimit /\ limCount = 0
LimInit ==
  /\ \E eqos \in {<<>>, <<[ip |-> "ip2", up |-> 1, down |-> 1], [ip |-> "ip1", up |-> 1, down |-> 1]>>},
        firewall \in {<<OwnRule, OwnReject>>, <<OwnRule, BlockRule("BB"), BlockRule("AA"), OwnReject>>} :
       LET f == LimFile(eqos, firewall) IN lim = [file |-> f, staged |-> f, live |-> f]
  /\ limUncut = TRUE /\ limAsked = NoLimit /\ limCount = 0

\* A machine after each of the commands, one after the other.
LimRun(s, cmds) ==
  LET ran[k \in 0 .. Len(cmds)] == IF k = 0 THEN s ELSE ExecLimit(ran[k - 1], cmds[k]) IN ran

\* The plan, made from the file, as far as it gets before the client goes away.
ServeLimit(kind, r, cmds) ==
  /\ limCount < MaxLimitRequests /\ limCount' = limCount + 1
  /\ \E k \in 0 .. Len(cmds) :
       /\ lim' = LimRun(lim, cmds)[k]
       /\ limUncut' = (limUncut /\ k = Len(cmds))
       /\ limAsked' = IF k = Len(cmds) THEN [kind |-> kind, r |-> r] ELSE NoLimit

\* A form without an action, or without a MAC unless it deletes, is refused.
LimitForms ==
  {[action |-> a, ip |-> ip, mac |-> mac, access |-> x, up |-> 2, down |-> 3] :
     a \in {"add", "modify", "delete"}, ip \in LimIps, mac \in {"aa", "BB"}, x \in BOOLEAN}
  \union {[action |-> "delete", ip |-> "ip1", mac |-> "none", access |-> TRUE, up |-> 0, down |-> 0]}
PostLanSpeedLimitConfig ==
  \E q \in LimitForms : LET r == [q EXCEPT !.mac = normalizeMAC(@)] IN ServeLimit("rule", r, UpsertSpeedLimitRule(lim.file, r))
PostLanEnableSpeedLimit ==
  \E e \in BOOLEAN, up \in {0, 5} : LET r == [enabled |-> e, up |-> up, down |-> 0] IN ServeLimit("module", r, SetSpeedLimitModule(r))

LimNext == PostLanSpeedLimitConfig \/ PostLanEnableSpeedLimit
SpeedLimitsSpec == LimInit /\ [][LimNext]_limVars

-----------------------------------------------------------------------------
(* Properties                                                              *)

\* Sections have their options, and the speeds of the line are never none.
LimTypeOK ==
  /\ limCount \in 0 .. MaxLimitRequests /\ limUncut \in BOOLEAN
  /\ \A side \in DOMAIN lim :
       /\ lim[side].module.up \in {200, 5} /\ lim[side].module.down = 2000
       /\ \A d \in Range(lim[side].eqos) : DOMAIN d = DOMAIN BlankDevice
       /\ \A r \in Range(lim[side].firewall) : DOMAIN r = DOMAIN BlankRule

\* While no request has been cut off, the user's own rules of the firewall stay, in their
\* order, with nothing but blocks beside them, and no device has two limits or two blocks.
OwnRulesKept ==
  limUncut =>
    /\ \E m, n \in DOMAIN lim.file.firewall :
         /\ m < n /\ lim.file.firewall[m] = OwnRule /\ lim.file.firewall[n] = OwnReject
         /\ \A k \in DOMAIN lim.file.firewall \ {m, n} : buildBlockedDeviceRule(lim.file.firewall[k])
    /\ \A m, n \in DOMAIN lim.file.eqos : lim.file.eqos[m].ip = lim.file.eqos[n].ip => m = n
    /\ \A m, n \in DOMAIN lim.file.firewall :
         buildBlockedDeviceRule(lim.file.firewall[m]) /\ lim.file.firewall[m] = lim.file.firewall[n] => m = n

\* A form that was saved, none having been cut off before, is in force: a device has its
\* limit or its block, not both, and after a deletion neither.
LimitAsAsked ==
  limUncut /\ limAsked.kind = "rule" =>
    LET r == limAsked.r
    IN  /\ {d \in Range(lim.live.eqos) : d.ip = r.ip}
             = IF r.action # "delete" /\ r.access THEN {[ip |-> r.ip, up |-> r.up, down |-> r.down]} ELSE {}
        /\ r.mac # "none" => ((r.mac \in ReadBlocks(lim.live)) <=> (r.action # "delete" /\ ~r.access))

\* A blocked device that has one address is listed without access and never with it, in
\* the list of limited devices and in the list of all; and a device is in the first as
\* long as the second shows a limit for it.
BlockedIsShown ==
  limUncut =>
    \A arp \in {{<<"ip1", "AA">>, <<"ip2", "BB">>}, {<<"ip1", "BB">>, <<"ip2", "AA">>}, {<<"ip2", "AA">>}} :
      \A a \in arp :
        LET shown == mergeLanDeviceSpeedLimit(lim.file, a)
            listed == {j \in mergeLanSpeedLimitedDeviceLists(lim.file, arp) : j.mac = {a[2]}}
        IN  /\ a[2] \in ReadBlocks(lim.file) => {i.access : i \in listed} = {FALSE} /\ ~shown.access
            /\ shown.enabled <=> listed # {}

\* Limits and blocks: what was saved is in force and is shown by both lists, and the rules
\* of the user's own among them stay in place.
LimCorrect == LimTypeOK /\ OwnRulesKept /\ LimitAsAsked /\ BlockedIsShown
=============================================================================
