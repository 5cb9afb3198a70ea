-------------------------------- MODULE LanDhcp --------------------------------
(***************************************************************************)
(* LAN control over UCI's dhcp and floatip: static assignments, DHCP tags, *)
(* the gateway DHCP hands out and the float gateway.                       *)
(*                                                                         *)
(*   backend/service/lan_static_assignment_write_*.go, lan_dhcp_*.go,      *)
(*   lan_float_gateway_write_*.go, lan_global_config_usecase.go            *)
(*   backend/modules/lancontrol/staticassignment, floatgateway             *)
(*   backend/utils/batch_command.go, uci.go                                *)
(*                                                                         *)
(* A request reads the files (go-uci), turns what it has read into a list  *)
(* of uci commands, lets a shell run them and, if the shell succeeds,      *)
(* commits.  Commands work on the staged packages, reads see the files.    *)
(***************************************************************************)
EXTENDS Integers, Sequences, FiniteSets

CONSTANTS Reqs,              \* requests in progress at a time
          Macs, Ips,         \* devices and the addresses bound to them
          SetIPs, CheckIPs,  \* addresses of the float gateway and of the
                             \* side router it checks
          DhcpGateways,      \* addresses DHCP is told to hand out
          LanAddr, Nexthop,  \* of the LAN: its address, its default route
          UserTags,          \* names of tags the user makes
          MaxAuto,           \* bound on the hosts bound to automatic tags
          Null,              \* no address, no name, no tag
          ipToDhcpTag(_)     \* the name of the automatic tag of an address

\* The gateways other than the LAN's own two.
Gateways == SetIPs \union CheckIPs
Addrs == Gateways \union DhcpGateways \union {LanAddr, Nexthop}
AutoTags == {ipToDhcpTag(a) : a \in Addrs}
Tags == AutoTags \union UserTags

ASSUME LanAssumption ==
  /\ MaxAuto \in Nat
  /\ Null \notin Macs \union Ips \union Addrs \union Tags
  /\ AutoTags \intersect UserTags = {}
  /\ \A a, b \in Addrs : ipToDhcpTag(a) = ipToDhcpTag(b) => a = b

VARIABLES file,    \* the committed packages
          staged,  \* the packages with the changes staged on top of them
          req      \* the requests

vars == <<file, staged, req>>

Host == [mac : Macs \union {Null}, ip : Ips \union {Null}, tag : Tags \union {Null}]
Dhcp == [hosts : Seq(Host), tags : SUBSET Tags, option : DhcpGateways \union {Null}, ignore : BOOLEAN]
FloatIp == [main : BOOLEAN, enabled : BOOLEAN,
            setIP : SetIPs \union {Null}, checkIP : CheckIPs \union {Null}]
NoFloat == [main |-> FALSE, enabled |-> FALSE, setIP |-> Null, checkIP |-> Null]

\* A uci command: what it does, and to which host, tag, address or section.
\* An argument that is not used is zero or Null.
Cmd(op) == [op |-> op, i |-> 0, tag |-> Null, val |-> Null, main |-> NoFloat]

\* The input of ApplyStaticAssignment, without Hostname and TagTitle.  The
\* address is the one to bind: Null without BindIP.  Of a deletion only the
\* device is used: a tag can at most get it refused.
StaticInput ==
  [action : {"add"}, mac : Macs, ip : Ips \union {Null}, tag : Tags \union {Null}]
  \union [action : {"delete"}, mac : Macs, ip : {Null}, tag : {Null}]

NoInput == [action |-> "delete", mac |-> Null, ip |-> Null, tag |-> Null]

Idle == [at |-> "idle", input |-> NoInput, materialize |-> FALSE, cmds |-> <<>>,
         ok |-> TRUE, batch |-> FALSE, commit |-> <<>>]

TypeOK ==
  /\ file \in [dhcp : Dhcp, floatip : FloatIp]
  /\ staged \in [dhcp : Dhcp, floatip : FloatIp]
  /\ \A r \in Reqs :
       /\ req[r].at \in {"idle", "normalized", "run", "apply"}
       /\ req[r].input \in StaticInput \union {NoInput}
       /\ req[r].ok \in BOOLEAN
       /\ req[r].at \in {"run", "apply"} <=> req[r].cmds # <<>>

Init ==
  /\ file = [dhcp |-> [hosts |-> <<>>, tags |-> {}, option |-> Null, ignore |-> FALSE],
             floatip |-> NoFloat]
  /\ staged = file
  /\ req = [r \in Reqs |-> Idle]

-----------------------------------------------------------------------------
(* The uci command line: external.                                         *)

RemoveHost(hosts, i) == [k \in 1 .. Len(hosts) - 1 |-> IF k < i THEN hosts[k] ELSE hosts[k + 1]]

\* "@host[-1]", the last host, gets an option.
SetLast(hosts, opt, v) ==
  [k \in 1 .. Len(hosts) |-> IF k = Len(hosts) THEN [hosts[k] EXCEPT ![opt] = v] ELSE hosts[k]]

\* A command fails when what it names is not there.  Sections without a name
\* are counted as the package stands when the command runs.
Fails(c) ==
  \/ c.op = "unknown"
  \/ c.op = "del host" /\ c.i > Len(staged.dhcp.hosts)
  \/ c.op = "del tag" /\ c.tag \notin staged.dhcp.tags
  \/ c.op = "del option" /\ staged.dhcp.option = Null
  \/ c.op = "del ignore" /\ ~staged.dhcp.ignore
  \/ c.op = "del float" /\ ~staged.floatip.main

Exec(c) ==
  IF Fails(c) THEN staged ELSE
  CASE c.op = "del host"   -> [staged EXCEPT !.dhcp.hosts = RemoveHost(@, c.i)]
    [] c.op = "add host"   -> [staged EXCEPT !.dhcp.hosts =
                                 Append(@, [mac |-> Null, ip |-> Null, tag |-> Null])]
    [] c.op = "set mac"    -> [staged EXCEPT !.dhcp.hosts = SetLast(@, "mac", c.val)]
    [] c.op = "set ip"     -> [staged EXCEPT !.dhcp.hosts = SetLast(@, "ip", c.val)]
    [] c.op = "bind tag"   -> [staged EXCEPT !.dhcp.hosts = SetLast(@, "tag", c.tag)]
    [] c.op = "del tag"    -> [staged EXCEPT !.dhcp.tags = @ \ {c.tag}]
    [] c.op = "set tag"    -> [staged EXCEPT !.dhcp.tags = @ \union {c.tag}]
    [] c.op = "del option" -> [staged EXCEPT !.dhcp.option = Null]
    [] c.op = "add option" -> [staged EXCEPT !.dhcp.option = c.val]
    [] c.op = "del ignore" -> [staged EXCEPT !.dhcp.ignore = FALSE]
    [] c.op = "set ignore" -> [staged EXCEPT !.dhcp.ignore = TRUE]
    [] c.op = "del float"  -> [staged EXCEPT !.floatip = NoFloat]
    [] c.op = "set float"  -> [staged EXCEPT !.floatip = c.main]
    [] OTHER -> staged

Commit(c) ==
  CASE c.op = "commit dhcp" -> [file EXCEPT !.dhcp = staged.dhcp]
    [] c.op = "commit floatip" -> [file EXCEPT !.floatip = staged.floatip]
    [] OTHER -> file

-----------------------------------------------------------------------------
(* BatchRun, UCIBatchRun, UciCommitAndApply                                *)

DhcpCommit == <<Cmd("commit dhcp")>>
FloatCommit == <<Cmd("commit floatip"), Cmd("commit dhcp")>>

\* A list without commands is an error: nothing runs, nothing is committed.
Run(r, cmds, batch, commit) ==
  req' = [req EXCEPT ![r] =
            IF cmds = <<>> THEN Idle
            ELSE [Idle EXCEPT !.at = "run", !.cmds = cmds, !.batch = batch, !.commit = commit]]

\* The shell runs the next command.  Its own status is that of the last one;
\* "uci batch" passes over commands that fail and ends with success.
Command(r) ==
  LET c == Head(req[r].cmds)
      rest == Tail(req[r].cmds)
      ok == req[r].batch \/ ~Fails(c)
  IN  /\ req[r].at \in {"run", "apply"}
      /\ staged' = Exec(c)
      /\ file' = Commit(c)
      /\ req' = [req EXCEPT ![r] =
                   IF rest # <<>> THEN [@ EXCEPT !.cmds = rest, !.ok = ok]
                   ELSE IF req[r].at = "run" /\ ok
                     THEN [@ EXCEPT !.at = "apply", !.cmds = req[r].commit, !.ok = TRUE]
                   ELSE Idle]

-----------------------------------------------------------------------------
(* LoadLanState, BuildAutoDhcpPlan, buildGlobalDhcpTags                    *)

\* detectDhcpGateway; DHCP that is off hands out none.
DhcpGateway ==
  IF file.dhcp.ignore \/ file.dhcp.option = LanAddr THEN Null ELSE file.dhcp.option

\* The title a tag has: that of the first entry of the list with its name.
\* isDefault says that the LAN has the default route (a side router).
DefaultAddr(isDefault) == IF isDefault /\ DhcpGateway # Null THEN DhcpGateway ELSE LanAddr

AutoAddrs(isDefault) ==
  (IF isDefault /\ ~file.dhcp.ignore
     THEN {IF DhcpGateway = Null THEN Nexthop ELSE LanAddr} ELSE {})
  \union (IF file.floatip.enabled THEN {file.floatip.setIP, file.floatip.checkIP} \ {Null} ELSE {})

Listed(isDefault) ==
  {ipToDhcpTag(a) : a \in AutoAddrs(isDefault) \union {DefaultAddr(isDefault)}} \union file.dhcp.tags

\* NormalizeTag: one that is listed automatically and is not the default is to
\* be made; the default tag is no tag.
MaterializeAutoTag(tag, isDefault) ==
  tag \in {ipToDhcpTag(a) : a \in AutoAddrs(isDefault) \ {DefaultAddr(isDefault)}}

NormalizeTag(tag, isDefault) ==
  IF tag = ipToDhcpTag(DefaultAddr(isDefault)) THEN Null ELSE tag

-----------------------------------------------------------------------------
(* Static assignments                                                      *)

Hosts == file.dhcp.hosts

\* How many other devices are bound to automatic tags: for the bound MaxAuto.
AutoBound(mac) == Cardinality({i \in 1 .. Len(Hosts) : Hosts[i].tag \in AutoTags /\ Hosts[i].mac # mac})

\* ApplyStaticAssignment up to NormalizeTag; "modify" is an "add" from here on.
\* An "add" that says nothing ends here, and so does a tag that is not listed.
\* other: with Hostname, TagTitle or an address that is not to be bound.
StaticRequest(r) ==
  \E in \in StaticInput, modify, other, isDefault \in BOOLEAN :
    /\ req[r].at = "idle"
    /\ ~(in.action = "add" /\ ~modify /\ in.tag = Null /\ ~other /\ in.ip = Null)
    /\ in.tag = Null \/ in.tag \in Listed(isDefault)
    /\ in.tag \in AutoTags /\ in.action # "delete" => AutoBound(in.mac) < MaxAuto
    /\ req' = [req EXCEPT ![r] =
                 [Idle EXCEPT !.at = "normalized",
                              !.input = [in EXCEPT !.tag = NormalizeTag(@, isDefault)],
                              !.materialize = MaterializeAutoTag(in.tag, isDefault)]]
    /\ UNCHANGED <<file, staged>>

HasDuplicateIPConflict(in) ==
  /\ in.action # "delete" /\ in.ip # Null
  /\ \E i \in 1 .. Len(Hosts) : Hosts[i].mac \notin {in.mac, Null} /\ Hosts[i].ip = in.ip

\* Numbers of the hosts that satisfy a condition, in the order of the file.
Numbers(Test(_)) == SelectSeq([i \in 1 .. Len(Hosts) |-> i], Test)

\* One list of commands per number, one after the other.
DelHosts(numbers) == [k \in 1 .. Len(numbers) |-> [Cmd("del host") EXCEPT !.i = numbers[k]]]
DelAndCommit(numbers) ==
  [k \in 1 .. 2 * Len(numbers) |->
     IF k % 2 = 1 THEN DelHosts(numbers)[(k + 1) \div 2] ELSE Cmd("commit dhcp")]

When(test, c) == IF test THEN <<c>> ELSE <<>>

\* The hosts of the device go, each with a commit; then its new host is made.
BuildCommands(in, includeAutoTag) ==
  LET Old(i) == Hosts[i].mac = in.mac
  IN  DelAndCommit(Numbers(Old)) \o
      IF in.action = "delete" THEN <<>>
      ELSE When(includeAutoTag, [Cmd("set tag") EXCEPT !.tag = in.tag])
           \o <<Cmd("add host"), [Cmd("set mac") EXCEPT !.val = in.mac]>>
           \o When(in.tag # Null, [Cmd("bind tag") EXCEPT !.tag = in.tag])
           \o When(in.ip # Null, [Cmd("set ip") EXCEPT !.val = in.ip])

\* ApplyStaticAssignment of the store, with a reading of its own.
StaticApply(r) ==
  LET in == req[r].input
  IN  /\ req[r].at = "normalized"
      /\ IF HasDuplicateIPConflict(in) THEN req' = [req EXCEPT ![r] = Idle]
         ELSE Run(r, BuildCommands(in, req[r].materialize), FALSE, DhcpCommit)
      /\ UNCHANGED <<file, staged>>

-----------------------------------------------------------------------------
(* DHCP tags and the DHCP gateway                                          *)

\* buildDhcpTagCommands.  The hosts bound to the tag get "uci del ..." inside
\* of "uci batch", where a command has no "uci" in front: it is unknown.
TagCommands(action, tag) ==
  LET Bound(i) == Hosts[i].tag = tag
  IN  When(action # "add", [Cmd("del tag") EXCEPT !.tag = tag])
      \o When(action # "delete", [Cmd("set tag") EXCEPT !.tag = tag])
      \o IF action = "add" THEN <<>>
         ELSE [k \in 1 .. Len(Numbers(Bound)) |-> Cmd("unknown")]

\* SetDhcpTags; names of automatic tags are refused.
SetDhcpTags(r) ==
  \E action \in {"add", "modify", "delete"}, tag \in UserTags :
    /\ req[r].at = "idle"
    /\ Run(r, TagCommands(action, tag), TRUE, DhcpCommit)
    /\ UNCHANGED <<file, staged>>

GatewayCommands(enabled, gateway) ==
  IF enabled
    THEN <<Cmd("del ignore"), Cmd("del option"), Cmd("commit dhcp")>>
         \o When(gateway \notin {LanAddr, Null}, [Cmd("add option") EXCEPT !.val = gateway])
    ELSE <<Cmd("del option"), Cmd("set ignore")>>

SetDhcpGateway(r) ==
  \E enabled \in BOOLEAN, gateway \in DhcpGateways :
    /\ req[r].at = "idle"
    /\ Run(r, GatewayCommands(enabled, gateway), FALSE, DhcpCommit)
    /\ UNCHANGED <<file, staged>>

-----------------------------------------------------------------------------
(* The float gateway                                                       *)

ShouldCleanupDhcp(main) ==
  \/ file.floatip.enabled /\ ~main.enabled
  \/ file.floatip.setIP # main.setIP
  \/ file.floatip.checkIP # main.checkIP

\* Mutant: the hosts bound to the tags stay.
MutBuildDhcpCleanupPlan ==
  LET auto == file.dhcp.tags \intersect AutoTags
      tags == CHOOSE s \in [1 .. Cardinality(auto) -> auto] :
                \A i, j \in DOMAIN s : s[i] = s[j] => i = j
  IN  [k \in 1 .. Len(tags) |-> [Cmd("del tag") EXCEPT !.tag = tags[k]]]

\* All automatic tags, in some order, then the hosts bound to one of them.
BuildDhcpCleanupPlan ==
  LET auto == file.dhcp.tags \intersect AutoTags
      tags == CHOOSE s \in [1 .. Cardinality(auto) -> auto] :
                \A i, j \in DOMAIN s : s[i] = s[j] => i = j
      Bound(i) == Hosts[i].tag \in auto
  IN  [k \in 1 .. Len(tags) |-> [Cmd("del tag") EXCEPT !.tag = tags[k]]]
      \o DelHosts(Numbers(Bound))

\* buildFloatGatewayConfigCommands; the options of the section are one command.
\* A role other than "main" and "fallback" only removes the section.
FloatCommands(known, main) ==
  <<Cmd("del float"), Cmd("commit floatip")>>
  \o When(known, [Cmd("set float") EXCEPT !.main = main])

SetFloatGateway(r) ==
  \E known \in BOOLEAN, enabled \in BOOLEAN, setIP \in SetIPs, checkIP \in CheckIPs :
    LET main == [main |-> TRUE, enabled |-> enabled, setIP |-> setIP, checkIP |-> checkIP]
    IN  /\ req[r].at = "idle"
        /\ Run(r, FloatCommands(known, main)
                  \o (IF ShouldCleanupDhcp(main) THEN BuildDhcpCleanupPlan ELSE <<>>),
               FALSE, FloatCommit)
        /\ UNCHANGED <<file, staged>>

-----------------------------------------------------------------------------
\* Everything but the tags of the user and the float gateway.
Common(r) == StaticRequest(r) \/ StaticApply(r) \/ SetDhcpGateway(r) \/ Command(r)

Next == \E r \in Reqs : Common(r) \/ SetDhcpTags(r) \/ SetFloatGateway(r)

Spec == Init /\ [][Next]_vars

-----------------------------------------------------------------------------
AtRest == \A r \in Reqs : req[r].at = "idle"

\* A device has one host: whatever was assigned to it before, and however the
\* numbers of the hosts moved, the old one is gone when the new one is there.
UniqueMac ==
  AtRest => \A i, j \in 1 .. Len(Hosts) : Hosts[i].mac = Hosts[j].mac => i = j

\* No address is bound to two devices ("ip is already in use").
UniqueIp ==
  AtRest => \A i, j \in 1 .. Len(Hosts) : Hosts[i].ip = Hosts[j].ip /\ Hosts[i].ip # Null => i = j

\* A host bound to an automatic tag finds the tag in the file: the clean-up
\* of the float gateway takes tags and hosts together.
AutoTagExists ==
  AtRest => \A i \in 1 .. Len(Hosts) : Hosts[i].tag \in AutoTags => Hosts[i].tag \in file.dhcp.tags

\* A host bound to a tag of a gateway other than the LAN's two is bound to the
\* float gateway that is configured, not to an earlier one.
FloatTagCurrent ==
  AtRest /\ file.floatip.main =>
    \A i \in 1 .. Len(Hosts), g \in Gateways :
      Hosts[i].tag = ipToDhcpTag(g) =>
        file.floatip.enabled /\ g \in {file.floatip.setIP, file.floatip.checkIP}

\* A request leaves nothing staged that the next commit would bring in.
NothingStaged == AtRest => staged = file

\* LAN control: through any sequence of requests, and of deletions that move the numbers of
\* the hosts, devices and addresses stay unique, tags current, and nothing is left staged.
LanDhcpCorrect == TypeOK /\ UniqueMac /\ UniqueIp /\ AutoTagExists /\ FloatTagCurrent /\ NothingStaged
=============================================================================
