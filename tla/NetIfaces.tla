----------------------------- MODULE NetIfaces -----------------------------
(***************************************************************************)
(* The interface form: the list of interfaces, their protocols, ports and  *)
(* firewall zones, saved as a whole.                                       *)
(*                                                                         *)
(*   backend/modules/network/interfacewrite, interfaceinventory, portlist  *)
(*   backend/service/network_interface_*.go, network_port_list_store.go    *)
(*                                                                         *)
(* The form is filled from netifd's interfaces (what is live) and the      *)
(* firewall's file; a save compares it with those, never with what other   *)
(* requests have staged.                                                   *)
(***************************************************************************)
EXTENDS UciShell, FiniteSets

CONSTANT MaxSaves  \* bound on the saves of a behaviour

VARIABLES ifnet,  \* the packages network and firewall: file, staged, live
          extDev, \* the LAN's virtual ports (dsm-ext, pve-ext, vm-ext) that exist
          saved,  \* history: the last save, if it was answered with success
          whole,  \* history: no save has failed or was cut off
          saves   \* how many there were

ifVars == <<ifnet, extDev, saved, whole, saves>>

IfNames == {"lan", "wan", "guest", "loopback", "wan6"}
Ports == {"e0", "e1"}
Zones == <<"zlan", "zwan">>  \* in the order of the file
Proto(i) == <<"network", i \o ".proto">>   \* an interface is there when it has a protocol
Device(i) == <<"network", i \o ".device">>
Bridge(i) == <<"network", "br-" \o i>>     \* the device sections of that name, and their ports
Zone(z) == <<"firewall", z>>
IfOpts == {Proto(i) : i \in IfNames} \union {Device(i) : i \in IfNames} \union {Bridge(i) : i \in IfNames}
          \union {Zone(z) : z \in Range(Zones)}

Br(i) == "br-" \o i

-----------------------------------------------------------------------------
(* What is shown                                                           *)

\* netifd: an interface's bridge has the ports of the last section of its name.
BridgePorts(live, i) == IF live[Bridge(i)] = Unset THEN {} ELSE Range(live[Bridge(i)][Len(live[Bridge(i)])])

\* getPortStatus: the hardware ports and the bridge each is in.
getPortStatus(live) ==
  [p \in Ports |->
    LET in == {i \in IfNames : live[Device(i)] = <<Br(i)>> /\ p \in BridgePorts(live, i)}
    IN  IF in = {} THEN "" ELSE Br(CHOOSE i \in in : TRUE)]

\* "network.interface dump", without docker's and the loopback.
readSnapshots(live) ==
  {[name |-> i, proto |-> live[Proto(i)][1], port |-> Last1(live[Device(i)], "")]
     : i \in {j \in IfNames : live[Proto(j)] # Unset}}
ReadInventory(live) == {s \in readSnapshots(live) : s.name # "loopback"}

\* The last zone that lists a network is the one shown.
readFirewallBindings(file, i) ==
  LET in == {n \in DOMAIN Zones : i \in Range(file[Zone(Zones[n])])}
  IN  IF in = {} THEN "" ELSE Zones[CHOOSE n \in in : \A m \in in : m <= n]

resolveSlavePorts(master, device) ==
  LET slaves == {p \in Ports : master[p] = device}
  IN  IF device = "" THEN {} ELSE IF slaves = {} THEN {device} \intersect Ports ELSE slaves

ListInventory(s) ==
  {[name |-> t.name, proto |-> t.proto, ports |-> resolveSlavePorts(getPortStatus(s.live), t.port),
    zone |-> readFirewallBindings(s.file, t.name)] : t \in ReadInventory(s.live)}

\* Mutant: the interfaces of IPv6 are in the form too.
MutFilterGetConfig(inventory) == inventory
FilterGetConfig(inventory) == {t \in inventory : t.proto # "dhcpv6"}

\* The interfaces shown beside a port.
mergeMembership(master, snapshots, p) ==
  {t.name : t \in {u \in snapshots : u.port # "" /\ (u.port = p \/ u.port = master[p])}}

-----------------------------------------------------------------------------
(* What a save has the shell run: batches, each with the status of its     *)
(* last command                                                            *)

DelInterface(i) == [op |-> "delif", opt |-> Proto(i), dev |-> Device(i)]
NewDevice(i) == [op |-> "newdev", opt |-> Bridge(i)]
ClearPorts(i) == [op |-> "clear", opt |-> Bridge(i)]             \* of the first section of that name
AddPort(i, new, p) == [op |-> "port", opt |-> Bridge(i), new |-> new, port |-> p]

\* Deleting what is not there fails.
Fails(s, c) ==
  \/ c.op \in {"delif", "set"} /\ (c.op = "set" => c.val = Unset) /\ s.staged[c.opt] = Unset
  \/ c.op = "clear" /\ s.staged[c.opt][1] = <<>>

IfExec(s, c) ==
  CASE c.op = "delif"  -> [s EXCEPT !.staged[c.opt] = Unset, !.staged[c.dev] = Unset]
    [] c.op = "newdev" -> [s EXCEPT !.staged[c.opt] = Append(@, <<>>)]
    [] c.op = "clear"  -> [s EXCEPT !.staged[c.opt][1] = <<>>]
    [] c.op = "port"   -> [s EXCEPT !.staged[c.opt][IF c.new THEN Len(s.staged[c.opt]) ELSE 1] = Append(@, c.port)]
    [] OTHER -> ExecOne(s, c)

\* A command of a batch, and whether the batch ends with it; after a batch
\* that failed nothing runs.
IfStep(r, c) ==
  IF ~r.ok THEN r ELSE [s |-> IfExec(r.s, c.cmd), ok |-> ~(c.last /\ Fails(r.s, c.cmd))]
Batch(cmds) == [n \in DOMAIN cmds |-> [cmd |-> cmds[n], last |-> n = Len(cmds)]]

BuildDeletePlan(existing, configs) == {t.name : t \in existing} \ {c.name : c \in Range(configs)}
BuildDeleteCommands(names) ==
  LET order == SetToSeq(names) IN [n \in DOMAIN order |-> DelInterface(order[n])]

\* The virtual machines' ports stay with the LAN.
NormalizeDevices(name, devices) == IF name = "lan" THEN devices \o extDev ELSE devices

BuildBridgePlan(c, devices, file) ==
  LET new == file[Bridge(c.name)] = Unset
  IN  (IF new THEN <<NewDevice(c.name)>> ELSE <<ClearPorts(c.name), ClearPorts(c.name)>>)
      \o [n \in DOMAIN devices |-> AddPort(c.name, new, devices[n])]

BuildInterfacePlan(c, device, bridged) ==
  <<Set(Proto(c.name), c.proto)>>
  \o (IF bridged THEN <<>> ELSE <<Del(Device(c.name))>>)
  \o (IF device = "" THEN <<>> ELSE <<Set(Device(c.name), device)>>)

\* A network that is in a zone stays in it.
BuildFirewallBindingPlan(c, file) ==
  IF (\E z \in Range(Zones) : c.name \in Range(file[Zone(z)])) \/ c.zone \notin Range(Zones) THEN <<>>
  ELSE <<AddList(Zone(c.zone), c.name)>>

bridgedOf(c) == Len(c.devices) > 1 \/ c.name = "lan"
DeviceOf(c) ==
  IF bridgedOf(c) THEN Br(c.name)
  ELSE LET devices == NormalizeDevices(c.name, c.devices) IN IF devices = <<>> THEN "" ELSE devices[1]

\* ApplyPlan: the deletions, the bridges, the interfaces, the zones.
ApplyPlan(s, configs) ==
  LET each(Commands(_)) == FlattenSeq([n \in DOMAIN configs |-> Batch(Commands(configs[n]))])
      bridge(c) == IF bridgedOf(c) THEN BuildBridgePlan(c, NormalizeDevices(c.name, c.devices), s.file) ELSE <<>>
      interface(c) == BuildInterfacePlan(c, DeviceOf(c), bridgedOf(c))
      zone(c) == BuildFirewallBindingPlan(c, s.file)
  IN  Batch(BuildDeleteCommands(BuildDeletePlan(FilterGetConfig(ListInventory(s)), configs)))
      \o each(bridge) \o each(interface) \o each(zone)

ApplyConfigSet(s, configs) == ApplyPlan(s, configs) \o Batch(UciCommitAndApply(<<"firewall", "network">>))

-----------------------------------------------------------------------------
(* Behaviours                                                              *)

Conf(name, proto, devices, zone) == [name |-> name, proto |-> proto, devices |-> devices, zone |-> zone]
LanSection(devices) == Conf("lan", "static", devices, "zlan")
WanNet(devices) == Conf("wan", "dhcp", devices, "zwan")
GuestNet(zone, devices) == Conf("guest", "static", devices, zone)

\* Forms in which no port is used twice; an interface may have none.
Forms == {<<LanSection(<<"e1">>), WanNet(<<"e0">>)>>, <<LanSection(<<"e0", "e1">>)>>, <<LanSection(<<"e1">>), WanNet(<<>>)>>, <<LanSection(<<>>), WanNet(<<"e0", "e1">>)>>}
         \union {<<LanSection(<<"e1">>), GuestNet(z, <<"e0">>)>> : z \in {"zlan", "zwan", "other"}}

IfFile ==
  [o \in IfOpts |->
    CASE o = Proto("lan") -> <<"static">> [] o = Device("lan") -> <<Br("lan")>> [] o = Bridge("lan") -> <<<<"e1">>>>
      [] o = Proto("wan") -> <<"dhcp">> [] o = Device("wan") -> <<"e0">>
      [] o = Proto("loopback") -> <<"static">> [] o = Device("loopback") -> <<"lo">>
      [] o = Proto("wan6") -> <<"dhcpv6">> [] o = Device("wan6") -> <<"e0">>
      [] o = Zone("zlan") -> <<"lan">> [] o = Zone("zwan") -> <<"wan", "wan6">> [] OTHER -> Unset]

NoSave == [configs |-> <<>>, bound |-> {}]

IfInit ==
  /\ ifnet = [file |-> IfFile, staged |-> IfFile, live |-> IfFile]
  /\ extDev \in {<<>>, <<"dsm-ext">>}
  /\ saved = NoSave /\ whole = TRUE /\ saves = 0

IfIdle ==
  /\ ifnet = [file |-> IfFile, staged |-> IfFile, live |-> IfFile]
  /\ extDev = <<>> /\ saved = NoSave /\ whole = TRUE /\ saves = MaxSaves

\* A save, up to a batch that fails or to where the client goes away.
NetworkInterfacePostConfig ==
  \E configs \in Forms :
    LET cmds == ApplyConfigSet(ifnet, configs)
    IN  \E k \in 0 .. Len(cmds) :
          LET run == FoldLeft(IfStep, [s |-> ifnet, ok |-> TRUE], SubSeq(cmds, 1, k))
              done == run.ok /\ k = Len(cmds)
          IN  /\ saves < MaxSaves /\ saves' = saves + 1
              /\ ifnet' = run.s
              /\ whole' = (whole /\ done)
              /\ saved' = IF done THEN [configs |-> configs, bound |-> {i \in IfNames : readFirewallBindings(ifnet.file, i) # ""}]
                          ELSE NoSave
              /\ UNCHANGED extDev

IfNext == NetworkInterfacePostConfig
NetIfacesSpec == IfInit /\ [][IfNext]_ifVars

-----------------------------------------------------------------------------
(* Properties                                                              *)

\* Only an interface that is there has a device, and none but the LAN ever gets the
\* virtual port as its own.
IfTypeOK ==
  /\ DOMAIN ifnet = {"file", "staged", "live"}
  /\ \A side \in DOMAIN ifnet :
       /\ DOMAIN ifnet[side] = IfOpts
       /\ \A i \in IfNames : ifnet[side][Proto(i)] = Unset => ifnet[side][Device(i)] = Unset
       /\ \A i \in IfNames \ {"lan"} : ifnet[side][Device(i)] # <<"dsm-ext">>
  /\ saves \in 0 .. MaxSaves

\* The interfaces that the form does not show, the loopback and IPv6's, survive
\* every save, whether it succeeds, fails or is cut off.
UnlistedKept == \A i \in {"loopback", "wan6"}, side \in DOMAIN ifnet : ifnet[side][Proto(i)] = IfFile[Proto(i)]

\* After a save the form, read again from netifd and the firewall, and the list
\* of ports show what was saved: these interfaces and no other, their protocols
\* and their ports; a network that was in no zone is in the one it asked for.
SavedIsShown ==
  saved # NoSave /\ whole =>
    /\ {[name |-> t.name, proto |-> t.proto, ports |-> t.ports] : t \in FilterGetConfig(ListInventory(ifnet))}
       = {[name |-> c.name, proto |-> c.proto, ports |-> Range(c.devices)] : c \in Range(saved.configs)}
    /\ \A c \in Range(saved.configs) :
         /\ c.name \notin saved.bound => readFirewallBindings(ifnet.file, c.name) = IF c.zone = "other" THEN "" ELSE c.zone
         /\ \A p \in Ports :
              p \in Range(c.devices) <=> c.name \in mergeMembership(getPortStatus(ifnet.live), ReadInventory(ifnet.live), p)

\* A network is in one zone of the firewall, and once, unless a save that was
\* cut off has staged a zone that the next one does not see.
OneZoneEach ==
  whole => \A i \in IfNames : Cardinality({<<z, n>> \in Range(Zones) \X (1 .. 4) :
                                 n \in DOMAIN ifnet.file[Zone(z)] /\ ifnet.file[Zone(z)][n] = i}) <= 1

\* A saved LAN keeps its virtual ports, which the form does not show.
LanKeepsVirtual ==
  saved # NoSave /\ whole => Range(extDev) \subseteq BridgePorts(ifnet.live, "lan")

\* The interface form: a save is shown as it was made, in one zone each, and neither it
\* nor one that fails or is cut off takes away what the form does not show.
IfCorrect == IfTypeOK /\ UnlistedKept /\ SavedIsShown /\ OneZoneEach /\ LanKeepsVirtual
=============================================================================
