------------------------------- MODULE Wireless -------------------------------
(***************************************************************************)
(* The Wi-Fi requests over UCI's wireless and the guest network, for the   *)
(* three drivers.                                                          *)
(*                                                                         *)
(*   backend/service/wifi.go, wifi_qca.go, wifi_zx3000.go,                 *)
(*   wifi_glinet_mt3000.go                                                 *)
(*   backend/modules/wireless/setup, ifacecontrol, guestiface,             *)
(*   guestnetwork                                                          *)
(*                                                                         *)
(* A request reads the file (go-uci) and lets a shell run a list of        *)
(* commands.  The shell is killed when the client goes away, wherever it   *)
(* is; what it has staged stays for the next commit.                       *)
(***************************************************************************)
EXTENDS Integers, Sequences, FiniteSets

CONSTANTS WifiKeys,        \* keys of 8 to 20 characters
          ShortKey,        \* one that is too short
          MaxWifiRequests  \* bound on the requests of a behaviour

ASSUME WirelessAssumption == WifiKeys # {} /\ MaxWifiRequests \in Nat

VARIABLES wl,       \* the packages: in the files, staged, and what the radio runs
          radio,    \* the driver's type in the file
          selected, \* wifiSelector: the driver that was found
          asked,    \* history: the last request, if it was answered with success
          wserved   \* how many requests there were

wirelessVars == <<wl, radio, selected, asked, wserved>>

EmptyText == ""  \* no text
Bands == {"2g", "5g"}
Main == [b \in Bands |-> IF b = "2g" THEN "wifi2g" ELSE "wifi5g"]
Guest == [b \in Bands |-> IF b = "2g" THEN "guest2g" ELSE "guest5g"]
Extra == {"ap2", "wisp"} \* other interfaces on the 2g radio
Ifaces == {"wifi2g", "wifi5g", "guest2g", "guest5g"} \union Extra
BandOf(i) == IF i \in {"wifi5g", "guest5g"} THEN "5g" ELSE "2g"
IsGuest(i) == i \in {"guest2g", "guest5g"}
GuestParts == {"network", "dhcp", "firewall"}

-----------------------------------------------------------------------------
(* The drivers                                                             *)

None == "none"
NewQcaWifi ==
  [type |-> "qcawificfg80211",
   titles |-> <<"OPEN", "WPA2-PSK", "WPA/WPA2-PSK", "WPA3-SAE", "WPA2-PSK/WPA3-SEA">>,
   vals |-> <<"none", "psk2+ccmp", "psk-mixed+ccmp", "ccmp">>,
   hw |-> [b \in Bands |-> IF b = "2g" THEN <<"11ax/be", "11b/g/n/ax/be">>
                           ELSE <<"11ax/be", "11ac/ax/be", "11a/n/ac/ax/be">>]]
NewZX30000Wifi ==
  [type |-> "mt7981",
   titles |-> <<"OPEN", "WPA/WPA2-PSK", "WPA2-PSK/WPA3-SEA">>,
   vals |-> <<"none", "mixed-psk", "wpa2pskwpa3psk">>,
   hw |-> [b \in Bands |-> IF b = "2g" THEN <<"11axg">> ELSE <<"11axa">>]]
NewGLinetMT3000Wifi ==
  [type |-> "mtk",
   titles |-> <<"OPEN", "WPA2-PSK", "WPA/WPA2-PSK", "WPA3-SAE", "WPA2-PSK/WPA3-SEA">>,
   vals |-> <<"none", "psk2", "psk-mixed", "sae", "sae-mixed">>,
   hw |-> [b \in Bands |-> IF b = "2g" THEN <<"11b/g/n/ax">> ELSE <<"11a/n/ac/ax">>]]

\* In the order in which they register themselves.
Drivers == <<NewGLinetMT3000Wifi, NewQcaWifi, NewZX30000Wifi>>
\* The values of their tables.
EncValues == UNION {{Drivers[n].vals[k] : k \in DOMAIN Drivers[n].vals} : n \in 1 .. Len(Drivers)}

\* selectWifi: the driver found before if the file still has its type, else the
\* first that fits; 0 when there is none.
selectWifi ==
  LET fits == {n \in 1 .. Len(Drivers) : Drivers[n].type = radio}
  IN  IF selected \in fits THEN selected
      ELSE IF fits = {} THEN 0 ELSE CHOOSE n \in fits : \A m \in fits : n <= m

IndexOf(seq, x) == IF \E n \in DOMAIN seq : seq[n] = x THEN CHOOSE n \in DOMAIN seq : seq[n] = x ELSE 0

\* encryptTitle2Value of Qca: with the sae flag beside the value.
QcaEncryptTitle2Value(title) ==
  CASE title = "WPA2-PSK"          -> [enc |-> "psk2+ccmp", sae |-> FALSE]
    [] title = "WPA/WPA2-PSK"      -> [enc |-> "psk-mixed+ccmp", sae |-> FALSE]
    [] title = "WPA3-SAE"          -> [enc |-> "ccmp", sae |-> TRUE]
    [] title = "WPA2-PSK/WPA3-SEA" -> [enc |-> "psk2+ccmp", sae |-> TRUE]
    [] OTHER                       -> [enc |-> "none", sae |-> FALSE]

QcaEncryptValue2Title(enc, sae) ==
  CASE enc = "psk2+ccmp"      -> IF sae THEN "WPA2-PSK/WPA3-SEA" ELSE "WPA2-PSK"
    [] enc = "psk-mixed+ccmp" -> "WPA/WPA2-PSK"
    [] enc = "ccmp"           -> "WPA3-SAE"
    [] OTHER                  -> "OPEN"

\* The drivers for MediaTek have tables, value by value.
MtkTitle2Value(w, title) ==
  [enc |-> IF IndexOf(w.titles, title) = 0 THEN "none" ELSE w.vals[IndexOf(w.titles, title)], sae |-> FALSE]
MtkValue2Title(w, enc) == IF IndexOf(w.vals, enc) = 0 THEN "OPEN" ELSE w.titles[IndexOf(w.vals, enc)]
ZXEncryptTitle2Value(title) == MtkTitle2Value(NewZX30000Wifi, title)
ZXEncryptValue2Title(enc) == MtkValue2Title(NewZX30000Wifi, enc)
MTEncryptTitle2Value(title) == MtkTitle2Value(NewGLinetMT3000Wifi, title)
MTEncryptValue2Title(enc) == MtkValue2Title(NewGLinetMT3000Wifi, enc)

\* Qca keeps the hardware mode as what it requires of the clients.
title2Hw2G(title) == IF title = "11ax/be" THEN "ax" ELSE EmptyText
title2Hw5G(title) == CASE title = "11ax/be" -> "ax" [] title = "11ac/ax/be" -> "ac" [] OTHER -> EmptyText
hw2G2Title(require) == IF require = "ax" THEN "11ax/be" ELSE "11b/g/n/ax/be"
hw5G2Title(require) ==
  CASE require = "ax" -> "11ax/be" [] require = "ac" -> "11ac/ax/be" [] OTHER -> "11a/n/ac/ax/be"

\* Percent to dBm and back, in four steps.
webPowerVal2UciPowerVal(p) == IF p >= 100 THEN 30 ELSE IF p >= 70 THEN 21 ELSE IF p >= 50 THEN 15 ELSE 9
uciPowerVal2WebPowerVal(u) == IF u >= 30 THEN 100 ELSE IF u >= 21 THEN 70 ELSE IF u >= 15 THEN 50 ELSE 30

\* The widths of a request and the width in the file.
Htmodes == {"auto", "20", "40", "80", "160"}
Width(ht) == IF ht \in {"auto", "wide"} THEN "40" ELSE ht

-----------------------------------------------------------------------------
(* The package                                                             *)

DevRec == [off : BOOLEAN, channel : {"auto", "6"}, ht : {"20", "40", "80", "160"},
           require : {EmptyText, "ax", "ac"}, power : 0 .. 100, noscan : BOOLEAN]
IfRec == [there : BOOLEAN, off : BOOLEAN, key : WifiKeys, enc : EncValues, sae : BOOLEAN,
          hidden : BOOLEAN, network : {"lan", "guest"}]

\* One side of the packages: radios, interfaces and the parts of the guest network.
Config == [dev : [Bands -> DevRec], ifc : [Ifaces -> IfRec], guest : SUBSET GuestParts]

WirelessTypeOK ==
  /\ \A side \in {"file", "staged", "live"} : wl[side] \in Config
  /\ selected \in 0 .. Len(Drivers)
  /\ wserved \in 0 .. MaxWifiRequests

\* disableOfWireless: of a radio, of an interface.
RadioOff(s, b) == s.dev[b].off
IfaceOff(s, i) == s.ifc[i].there /\ s.ifc[i].off

\* A command: an option of a radio or an interface, a part of the guest
\* network, a commit, a reload.
SetDev(b, opt, val) == [op |-> "dev", at |-> b, opt |-> opt, val |-> val]
SetIf(i, opt, val) == [op |-> "ifc", at |-> i, opt |-> opt, val |-> val]
SetGuest(part) == [op |-> "guest", at |-> part, opt |-> EmptyText, val |-> EmptyText]
WifiCommit(part) == [op |-> "commit", at |-> part, opt |-> EmptyText, val |-> EmptyText]
ReloadCommand == [op |-> "reload", at |-> EmptyText, opt |-> EmptyText, val |-> EmptyText]

RunCommand(s, c) ==
  CASE c.op = "dev" -> [s EXCEPT !.staged.dev[c.at][c.opt] = c.val]
    [] c.op = "ifc" -> [s EXCEPT !.staged.ifc[c.at][c.opt] = c.val]
    [] c.op = "guest" -> [s EXCEPT !.staged.guest = @ \union {c.at}]
    [] c.op = "commit" /\ c.at = "wireless" ->
         [s EXCEPT !.file.dev = s.staged.dev, !.file.ifc = s.staged.ifc]
    [] c.op = "commit" /\ c.at # "wireless" ->
         [s EXCEPT !.file.guest = (@ \ {c.at}) \union (s.staged.guest \intersect {c.at})]
    [] c.op = "reload" -> [s EXCEPT !.live = s.file]
\* What is there after each of the commands.
WifiRun(s, cmds) ==
  LET ran[k \in 0 .. Len(cmds)] == IF k = 0 THEN s ELSE RunCommand(ran[k - 1], cmds[k]) IN ran

-----------------------------------------------------------------------------
(* WirelessInfo: what is shown of an interface                             *)

\* The defaults stand where the file has nothing.
Shown(s, i, title, ht, hw, power, off) ==
  [name |-> i, key |-> s.ifc[i].key, enc |-> title, hidden |-> s.ifc[i].there /\ s.ifc[i].hidden,
   network |-> IF s.ifc[i].there THEN s.ifc[i].network ELSE "lan",
   channel |-> s.dev[BandOf(i)].channel, ht |-> ht, hw |-> hw, power |-> power, off |-> off]

\* On 2g, 40 MHz is "auto", or a mode of its own when the radio does not scan.
ShownHt(s, b) ==
  IF b = "2g" /\ s.dev[b].ht = "40" THEN (IF s.dev[b].noscan THEN "wide" ELSE "auto") ELSE s.dev[b].ht

QcaWirelessInfo(s, i) ==
  LET b == BandOf(i)
      d == s.dev[b]
      title == IF s.ifc[i].there THEN QcaEncryptValue2Title(s.ifc[i].enc, s.ifc[i].sae) ELSE None
      power == IF d.power <= 0 \/ d.power > 100 THEN 100 ELSE d.power
  IN  Shown(s, i, title, ShownHt(s, b), IF b = "2g" THEN hw2G2Title(d.require) ELSE hw5G2Title(d.require),
            uciPowerVal2WebPowerVal(power), RadioOff(s, b) \/ IfaceOff(s, i))

\* The radio's own switch plays no part.
MtkWirelessInfo(w, s, i, EncryptValue2Title(_)) ==
  LET b == BandOf(i)
      d == s.dev[b]
      title == IF s.ifc[i].there THEN EncryptValue2Title(s.ifc[i].enc) ELSE None
  IN  Shown(s, i, title, ShownHt(s, b), Head(w.hw[b]), IF d.power <= 0 \/ d.power > 100 THEN 100 ELSE d.power,
            ~s.ifc[i].there \/ IfaceOff(s, i))
ZXWirelessInfo(s, i) == MtkWirelessInfo(NewZX30000Wifi, s, i, ZXEncryptValue2Title)
MTWirelessInfo(s, i) == MtkWirelessInfo(NewGLinetMT3000Wifi, s, i, MTEncryptValue2Title)

WirelessInfo(w, s, i) ==
  CASE w.type = "qcawificfg80211" -> QcaWirelessInfo(s, i)
    [] w.type = "mt7981" -> ZXWirelessInfo(s, i)
    [] w.type = "mtk" -> MTWirelessInfo(s, i)

\* ListIfaces: the four known ones, whether they are there or not, ...
QcaListIfaces(s) == [n \in 1 .. 4 |-> [name |-> <<"wifi5g", "wifi2g", "guest5g", "guest2g">>[n], index |-> 0]]

\* ... or those that are there, the others behind them with numbers of their own.
Listed(s, skipped) ==
  LET present(i) == IF s.ifc[i].there /\ i \notin skipped THEN <<i>> ELSE <<>>
      known == present("wifi5g") \o present("wifi2g") \o present("guest5g") \o present("guest2g")
      others == present("ap2") \o present("wisp")
      first == IF s.ifc["wifi2g"].there THEN 1 ELSE 0
  IN  [n \in 1 .. Len(known) |-> [name |-> known[n], index |-> 0]]
      \o [n \in 1 .. Len(others) |-> [name |-> others[n], index |-> first + n - 1]]
ZXListIfaces(s) == Listed(s, {"wisp"})

MTListIfaces(s) == Listed(s, {})
ListIfaces(w, s) ==
  CASE w.type = "qcawificfg80211" -> QcaListIfaces(s)
    [] w.type = "mt7981" -> ZXListIfaces(s)
    [] w.type = "mtk" -> MTListIfaces(s)

-----------------------------------------------------------------------------
(* The plans: the commands of a request, or none when it is refused        *)

Refused == [ok |-> FALSE, cmds |-> <<>>]
Planned(cmds) == [ok |-> TRUE, cmds |-> cmds]

\* What every edit of an interface sets.
IfaceCommands(r, ev) ==
  <<SetIf(r.name, "enc", ev.enc), SetIf(r.name, "key", r.key), SetIf(r.name, "sae", ev.sae),
    SetIf(r.name, "hidden", r.hidden)>>

\* The network restart, for another network, brings up the radios as well.
EditCommands(r, ev, hw) ==
  LET b == BandOf(r.name)
  IN  IfaceCommands(r, ev) \o <<SetDev(b, "channel", r.channel)>> \o hw
      \o <<SetDev(b, "ht", Width(r.ht)), SetIf(r.name, "network", r.network), WifiCommit("wireless"), ReloadCommand>>

QcaEditOneIface(s, r) ==
  LET b == BandOf(r.name)
  IN  IF r.ht \notin Htmodes \/ IndexOf(NewQcaWifi.hw[b], r.hw) = 0 \/ ~s.ifc[r.name].there THEN Refused
      ELSE Planned(EditCommands(r, QcaEncryptTitle2Value(r.enc),
             <<SetDev(b, "require", IF b = "2g" THEN title2Hw2G(r.hw) ELSE title2Hw5G(r.hw))>>))
MtkEditOneIface(w, s, r) ==
  IF r.ht \notin Htmodes \/ IndexOf(w.hw[BandOf(r.name)], r.hw) = 0 \/ ~s.ifc[r.name].there THEN Refused
  ELSE Planned(EditCommands(r, MtkTitle2Value(w, r.enc), <<>>))
ZXEditOneIface(s, r) == MtkEditOneIface(NewZX30000Wifi, s, r)
MTEditOneIface(s, r) == MtkEditOneIface(NewGLinetMT3000Wifi, s, r)
EditOneIface(w, s, r) ==
  CASE w.type = "qcawificfg80211" -> QcaEditOneIface(s, r)
    [] w.type = "mt7981" -> ZXEditOneIface(s, r)
    [] w.type = "mtk" -> MTEditOneIface(s, r)

\* WirelessEditIface: the encryption must be one of the titles; of a guest
\* interface only its own options are set.
EditGuest(s, r, ev) ==
  IF ~s.ifc[r.name].there THEN Refused
  ELSE Planned(IfaceCommands(r, ev) \o <<WifiCommit("wireless"), ReloadCommand>>)
QcaWirelessEditIface(s, r) ==
  IF IndexOf(NewQcaWifi.titles, r.enc) = 0 THEN Refused
  ELSE IF IsGuest(r.name) THEN EditGuest(s, r, QcaEncryptTitle2Value(r.enc))
  ELSE QcaEditOneIface(s, r)
ZXWirelessEditIface(s, r) ==
  IF IndexOf(NewZX30000Wifi.titles, r.enc) = 0 THEN Refused
  ELSE IF IsGuest(r.name) THEN EditGuest(s, r, ZXEncryptTitle2Value(r.enc))
  ELSE ZXEditOneIface(s, r)
MTWirelessEditIface(s, r) ==
  IF IndexOf(NewGLinetMT3000Wifi.titles, r.enc) = 0 THEN Refused
  ELSE IF IsGuest(r.name) THEN EditGuest(s, r, MTEncryptTitle2Value(r.enc))
  ELSE MTEditOneIface(s, r)
EditIface(w, s, r) ==
  CASE w.type = "qcawificfg80211" -> QcaWirelessEditIface(s, r)
    [] w.type = "mt7981" -> ZXWirelessEditIface(s, r)
    [] w.type = "mtk" -> MTWirelessEditIface(s, r)

PowerCommands(b, val) == Planned(<<SetDev(b, "power", val), WifiCommit("wireless"), ReloadCommand>>)
QcaSetPower(b, p) == PowerCommands(b, webPowerVal2UciPowerVal(p))
ZXSetPower(b, p) == PowerCommands(b, p)
MTSetPower(b, p) == PowerCommands(b, p)
SetPower(w, b, p) ==
  CASE w.type = "qcawificfg80211" -> QcaSetPower(b, p)
    [] w.type = "mt7981" -> ZXSetPower(b, p)
    [] w.type = "mtk" -> MTSetPower(b, p)

\* ifacecontrol.Plan.  What is as wanted is only reloaded.
Plan(i, enable, deviceDisabled, ifaceDisabled) ==
  IF (deviceDisabled \/ ifaceDisabled) # enable THEN <<ReloadCommand>>
  ELSE (IF enable /\ deviceDisabled THEN <<SetDev(BandOf(i), "off", FALSE)>> ELSE <<>>)
       \o <<SetIf(i, "off", ~enable), WifiCommit("wireless"), ReloadCommand>>

enableIface(s, i, enable) ==
  Plan(i, enable, RadioOff(s, BandOf(i)), ~RadioOff(s, BandOf(i)) /\ IfaceOff(s, i))

\* The part of the guest network is made unless the probe finds it.
PlanNetworkCommands(s) ==
  IF "network" \in s.guest THEN <<>> ELSE <<SetGuest("network"), WifiCommit("network")>>
\* The probe "uci -q dhcp.guest" is no command: the part is always made.
PlanDHCPCommands(s) == <<SetGuest("dhcp"), WifiCommit("dhcp")>>

\* Mutant: the zone is staged and not committed.
MutPlanFirewallCommands(s) == IF "firewall" \in s.guest THEN <<>> ELSE <<SetGuest("firewall")>>

PlanFirewallCommands(s) ==
  IF "firewall" \in s.guest THEN <<>> ELSE <<SetGuest("firewall"), WifiCommit("firewall")>>

\* WirelessEnableIface for a guest interface: two batches, the second only after
\* the marker of the first.  Without its section the request is refused before,
\* and EnableGuest, which would make the section, is not reached.
EnableGuestIface(s, i, enable) ==
  LET oldDisabled == s.ifc[i].off
  IN  IF oldDisabled # enable THEN <<ReloadCommand>>
      ELSE IF enable
        THEN PlanNetworkCommands(s) \o PlanDHCPCommands(s) \o PlanFirewallCommands(s)
             \o <<SetIf(i, "off", FALSE), WifiCommit("wireless"), ReloadCommand>>
      ELSE <<SetIf(i, "off", TRUE), WifiCommit("wireless"), ReloadCommand>>

EnableIface(s, i, enable) ==
  IF ~s.ifc[i].there THEN Refused
  ELSE IF IsGuest(i) THEN Planned(EnableGuestIface(s, i, enable))
  ELSE Planned(enableIface(s, i, enable))

ValidateQuickSetupRequest(key2, key5) == ShortKey \notin {key2, key5}

\* NormalizeQuickSetupRequest: "psk-mixed" is a value, not a title.
NormalizeQuickSetupRequest(i, key) ==
  [name |-> i, key |-> key, enc |-> "psk-mixed", hidden |-> FALSE, network |-> "lan",
   channel |-> "auto", ht |-> IF BandOf(i) = "2g" THEN "auto" ELSE "80",
   hw |-> IF BandOf(i) = "2g" THEN "11b/g/n/ax" ELSE "11a/n/ac/ax"]

\* Both interfaces, one after the other; nothing when the keys, as they are
\* compared, are those that are there (the names are left out of the model).
QuickSetup(w, s, key2, key5) ==
  LET first == EditOneIface(w, s, NormalizeQuickSetupRequest("wifi2g", key2))
      second == EditOneIface(w, s, NormalizeQuickSetupRequest("wifi5g", key5))
  IN  IF ~ValidateQuickSetupRequest(key2, key5) THEN Refused
      ELSE IF \A i \in {"wifi2g", "wifi5g"} : s.ifc[i].there /\ s.ifc[i].key = key2 THEN Planned(<<>>)
      ELSE IF ~first.ok THEN Refused
      ELSE [ok |-> second.ok, cmds |-> first.cmds \o second.cmds]

-----------------------------------------------------------------------------
(* Requests                                                                *)

DevDefault(w) == [off |-> FALSE, channel |-> "auto", ht |-> "40", require |-> EmptyText, power |-> 30, noscan |-> FALSE]
IfDefault(w, i) ==
  [there |-> TRUE, off |-> IsGuest(i), key |-> CHOOSE k \in WifiKeys : TRUE, enc |-> w.vals[2], sae |-> FALSE,
   hidden |-> FALSE, network |-> IF IsGuest(i) THEN "guest" ELSE "lan"]

NoRequest == [kind |-> "none", name |-> None]

\* The file of the firmware: guest interfaces are off, some interfaces may be
\* missing.  One that was used before has a radio that is off and does not scan,
\* and the guest network.
WirelessInit ==
  /\ radio \in {Drivers[n].type : n \in 1 .. Len(Drivers)} \union {None}
  /\ selected = 0 /\ asked = NoRequest /\ wserved = 0
  /\ \E first \in {[absent |-> {}, used |-> FALSE], [absent |-> {}, used |-> TRUE],
                   [absent |-> {"guest5g", "ap2", "wisp"}, used |-> FALSE], [absent |-> {"wifi2g"}, used |-> TRUE]} :
       LET n == IndexOf([m \in 1 .. Len(Drivers) |-> Drivers[m].type], radio)
           w == IF n = 0 THEN NewQcaWifi ELSE Drivers[n]
           Still(b) == first.used /\ b = "2g"
           c == [dev |-> [b \in Bands |-> [DevDefault(w) EXCEPT !.off = Still(b), !.noscan = Still(b)]],
                 ifc |-> [i \in Ifaces |-> [IfDefault(w, i) EXCEPT !.there = i \notin first.absent]],
                 guest |-> IF first.used THEN GuestParts ELSE {}]
       IN  wl = [file |-> c, staged |-> c, live |-> c]

WirelessIdle ==
  /\ radio = None /\ selected = 0 /\ asked = NoRequest /\ wserved = MaxWifiRequests
  /\ LET c == [dev |-> [b \in Bands |-> DevDefault(NewQcaWifi)],
               ifc |-> [i \in Ifaces |-> IfDefault(NewQcaWifi, i)], guest |-> {}]
     IN  wl = [file |-> c, staged |-> c, live |-> c]

\* Where a shell is killed: after its first command, before its last commit,
\* between that and the reload, or not at all.
Cuts(cmds) == {1, Len(cmds) - 2, Len(cmds) - 1, Len(cmds)} \intersect 0 .. Len(cmds)

\* A request whose plan is p: the shell runs k of its commands.
WifiServe(req, p) ==
  /\ wserved < MaxWifiRequests
  /\ selected' = selectWifi
  /\ \E k \in Cuts(p.cmds) :
       /\ wl' = WifiRun(wl, p.cmds)[k]
       /\ asked' = IF p.ok /\ k = Len(p.cmds) THEN req ELSE NoRequest
  /\ wserved' = wserved + 1
  /\ UNCHANGED radio

Wifi == Drivers[selectWifi]

WirelessEnableIface ==
  /\ selectWifi # 0
  /\ \E i \in Ifaces \ Extra, enable \in BOOLEAN :
       WifiServe([kind |-> "enable", name |-> i, enable |-> enable], EnableIface(wl.file, i, enable))

WebPowers == {0, 30, 50, 70, 100, 101}

\* What is out of range is the maximum.
WirelessSetDevicePower ==
  /\ selectWifi # 0
  /\ \E b \in Bands, web \in WebPowers :
       LET p == IF web <= 0 \/ web > 100 THEN 100 ELSE web
       IN  WifiServe([kind |-> "power", name |-> Main[b], power |-> p], SetPower(Wifi, b, p))

\* The form shows what is there; one thing in it is changed.
Edits(w, info) ==
  {[info EXCEPT !.enc = t] : t \in {w.titles[n] : n \in 1 .. Len(w.titles)}}
  \union {[info EXCEPT !.ht = ht] : ht \in Htmodes}
  \union {[info EXCEPT !.hw = hw] : hw \in {w.hw[BandOf(info.name)][n] : n \in DOMAIN w.hw[BandOf(info.name)]}}
  \union {[info EXCEPT !.channel = "6"], [info EXCEPT !.hidden = ~@], [info EXCEPT !.network = "guest"]}
  \union {[info EXCEPT !.key = k] : k \in WifiKeys}
WirelessEditIface ==
  /\ selectWifi # 0
  /\ \E i \in Ifaces \ Extra : \E r \in Edits(Wifi, WirelessInfo(Wifi, wl.file, i)) :
       WifiServe([kind |-> "edit", name |-> i, info |-> r], EditIface(Wifi, wl.file, r))

WirelessQuickSetupIface ==
  /\ selectWifi # 0
  /\ \E key2, key5 \in WifiKeys \union {ShortKey} :
       WifiServe([kind |-> "setup", name |-> "wifi2g", keys |-> <<key2, key5>>],
             QuickSetup(Wifi, wl.file, key2, key5))

\* Without a driver every request is refused.
NotCompatible ==
  /\ selectWifi = 0
  /\ WifiServe(NoRequest, Refused)

WirelessNext == WirelessEnableIface \/ WirelessSetDevicePower \/ WirelessEditIface
                \/ WirelessQuickSetupIface \/ NotCompatible

WirelessSpec == WirelessInit /\ [][WirelessNext]_wirelessVars

-----------------------------------------------------------------------------
(* Properties                                                              *)

\* A request that is answered with success is what the next listing shows,
\* through every conversion to values and back, whatever an earlier request
\* that was cut off has left staged.  (40 MHz on 2g is shown as "auto".)
AsAsked ==
  asked # NoRequest =>
    LET info == WirelessInfo(Drivers[selected], wl.file, asked.name)
    IN  /\ asked.kind = "edit" =>
             /\ info.enc = asked.info.enc /\ info.key = asked.info.key /\ info.hidden = asked.info.hidden
             /\ ~IsGuest(asked.name) =>
                  /\ Width(info.ht) = Width(asked.info.ht) /\ info.hw = asked.info.hw
                  /\ info.channel = asked.info.channel /\ info.network = asked.info.network
        /\ asked.kind = "power" => info.power = asked.power
        /\ asked.kind = "enable" /\ ~IsGuest(asked.name) =>
             (~wl.file.dev[BandOf(asked.name)].off /\ ~wl.file.ifc[asked.name].off) = asked.enable
        /\ asked.kind = "enable" /\ IsGuest(asked.name) => wl.file.ifc[asked.name].off = ~asked.enable
        /\ asked.kind = "setup" =>
             /\ wl.file.ifc["wifi2g"].key = asked.keys[1]
             /\ wl.file.ifc["wifi5g"].key \in {asked.keys[1], asked.keys[2]}

\* After a request that is answered with success the radio runs what the file
\* says, also when an earlier one was cut off between its commit and its reload
\* (the quick setup, which then does nothing, apart).
RadioCurrent == asked.kind \notin {"none", "setup"} => wl.live.dev = wl.file.dev /\ wl.live.ifc = wl.file.ifc

\* A guest interface is on the air only behind the guest zone of the firewall.
GuestIsolated ==
  \A b \in Bands : wl.live.ifc[Guest[b]].there /\ ~wl.live.ifc[Guest[b]].off => GuestParts \subseteq wl.file.guest

\* The interfaces of a radio that are no guests are numbered apart.
IndexPerBand ==
  selected # 0 =>
    LET list == ListIfaces(Drivers[selected], wl.file)
    IN  \A m, n \in DOMAIN list :
          m # n /\ ~IsGuest(list[m].name) /\ ~IsGuest(list[n].name) /\ BandOf(list[m].name) = BandOf(list[n].name)
            => list[m].index # list[n].index

\* A quick setup leaves the network encrypted: "psk-mixed ==> WPA/WPA2-PSK".
QuickSetupEncrypted ==
  asked.kind = "setup" => \A i \in {"wifi2g", "wifi5g"} : wl.file.ifc[i].enc # "none"

\* The Wi-Fi page: what was asked is shown and on the air, through three drivers'
\* conversions and cut-offs at any command, and guests are never let in unguarded.
WirelessCorrect == WirelessTypeOK /\ AsAsked /\ RadioCurrent /\ GuestIsolated /\ IndexPerBand
=============================================================================
