---------------------------- MODULE DhnsRecovery ----------------------------
(***************************************************************************)
(* The DHNS recovery worker: netifd's hotplug script and udhcpc's script   *)
(* report changes over HTTP, each report marks a flag in runtime.State and *)
(* starts the worker unless one runs; the worker drains the flags and acts *)
(* on a snapshot of the network until a drain finds nothing.               *)
(*                                                                         *)
(*   backend/modules/dhns/runtime/state.go  running, ifaceChange, ...      *)
(*   backend/service/dhns.go                dhnsChanging and its helpers   *)
(*                                                                         *)
(* A step of the worker ends where shared state, or a command whose effect *)
(* others see, follows: every event can fall between any two of them.      *)
(***************************************************************************)
EXTENDS DhnsPlan

CONSTANTS Workers,      \* goroutines that can run dhnsChanging
          Waiters,      \* goroutines that can wait for udhcpc's answer
          WanNets,      \* networks the WAN may get
          LanConfs,     \* what the user may configure for the LAN
          Leases,       \* what udhcpc's script may report
          MaxChanges,   \* bound on changes made by the user, cables and servers
          MaxLanChecks, \* bound on CheckLANHasIP goroutines in flight
          NoLease, NoWaiter

ASSUME RecoveryAssumption ==
  /\ WanNets \subseteq IPNet /\ LanConfs \subseteq LanConf
  /\ Leases \subseteq [valid : BOOLEAN, net : IPNet]
  /\ NoLease \notin Leases /\ NoWaiter \notin Waiters
  /\ MaxChanges \in Nat /\ MaxLanChecks \in Nat
  /\ NoSec \notin [net : WanNets, up : BOOLEAN] /\ NoSec \notin [up : BOOLEAN]

VARIABLES
  \* runtime.State, every field under its mutex
  running, ifaceChange, dhcpChange, lastDHCP, dhcpWaiter,
  \* the workers: program counter and locals
  pc, pend, snap, plan,
  \* the goroutines of startUdhcpc; ready: their buffered channel holds a
  \* token; notify: HandleDhcpValid took the channel and has not sent yet
  waiter, ready, notify,
  \* the router: UCI and netifd, udhcpc and its pid file, and whether the
  \* veth of the DHNS helper is a port of the bridge
  wan, lan, lanUp, planb, udhcpc, bridged, lanChecks,
  hotplug,  \* a change of an interface is still to be reported
  changes,  \* external changes so far
  seen      \* history: whether the last pass for an interface event read
            \* everything, was "loaded" only, or is "stale"

stateVars  == <<running, ifaceChange, dhcpChange, lastDHCP, dhcpWaiter>>
workerVars == <<pc, pend, snap, plan>>
waiterVars == <<waiter, ready, notify>>
routerVars == <<wan, lan, lanUp, planb, udhcpc, bridged, lanChecks,
                hotplug, changes, seen>>
vars == <<stateVars, workerVars, waiterVars, routerVars>>

-----------------------------------------------------------------------------
WanSec == {NoSec} \union [net : WanNets, up : BOOLEAN]

LanSec == [proto : {"static", "dhcp"}, gateway : BOOLEAN, net : IPNet, up : BOOLEAN]

Snap == [lan : {NoSec} \union LanSec, wan : WanSec,
         planb : {NoSec} \union [up : BOOLEAN]]

NoPend == [iface |-> FALSE, dhcp |-> FALSE, lease |-> NoLease]
NoSnap == [lan |-> NoSec, wan |-> NoSec, planb |-> NoSec]

PC == {"idle", "sleep", "drain", "finish", "probe", "load", "status", "stop",
       "links", "helper", "start", "run", "dhcp", "check", "planb"}

TypeOK ==
  /\ running \in BOOLEAN /\ ifaceChange \in BOOLEAN /\ dhcpChange \in BOOLEAN
  /\ lastDHCP \in Leases \union {NoLease}
  /\ dhcpWaiter \in Waiters \union {NoWaiter}
  /\ pc \in [Workers -> PC]
  /\ pend \in [Workers -> [iface : BOOLEAN, dhcp : BOOLEAN,
                           lease : Leases \union {NoLease}]]
  /\ snap \in [Workers -> Snap]
  /\ plan \in [Workers -> IfaceDecision]
  /\ waiter \in [Waiters -> {"idle", "waiting", "clearing", "sending"}]
  /\ ready \subseteq Waiters /\ notify \subseteq Waiters
  /\ wan \in WanSec /\ lan \in LanConf /\ lanUp \in BOOLEAN
  /\ planb \in {"absent", "down", "up"}
  /\ udhcpc \in {"none", "running", "dead", "foreign"}
  /\ bridged \in BOOLEAN /\ hotplug \in BOOLEAN
  /\ lanChecks \in 0 .. MaxLanChecks /\ changes \in 0 .. MaxChanges
  /\ seen \in {"stale", "loaded", "read"}

Init ==
  /\ running = FALSE /\ ifaceChange = FALSE /\ dhcpChange = FALSE
  /\ lastDHCP = NoLease /\ dhcpWaiter = NoWaiter
  /\ pc = [w \in Workers |-> "idle"]
  /\ pend = [w \in Workers |-> NoPend]
  /\ snap = [w \in Workers |-> NoSnap]
  /\ plan = [w \in Workers |-> NoDecision]
  /\ waiter = [q \in Waiters |-> "idle"] /\ ready = {} /\ notify = {}
  /\ wan \in WanSec /\ lan \in LanConfs /\ lanUp = TRUE
  /\ planb \in {"absent", "down"}
  /\ udhcpc \in {"none", "dead"}     \* a pid file may survive a restart
  /\ bridged \in BOOLEAN /\ lanChecks = 0 /\ changes = 0
  /\ hotplug = TRUE                  \* the interfaces come up at boot
  /\ seen = "stale"

-----------------------------------------------------------------------------
(* runtime.State *)

\* Mutant: the check of running is forgotten.
MutEnsureRunning ==
  /\ running' = TRUE
  /\ \E w \in Workers : pc[w] = "idle" /\ pc' = [pc EXCEPT ![w] = "sleep"]

\* ensureRunningLocked, and the "go dhnsChanging()" its TRUE answer leads to.
ensureRunning ==
  /\ running' = TRUE
  /\ IF running
       THEN UNCHANGED pc
       ELSE \E w \in Workers : pc[w] = "idle" /\ pc' = [pc EXCEPT ![w] = "sleep"]

\* sentIfaceEvent = MarkIfaceChange plus the start of the worker.
sentIfaceEvent ==
  /\ ifaceChange' = TRUE
  /\ ensureRunning
  /\ UNCHANGED <<dhcpChange, lastDHCP, dhcpWaiter, pend, snap, plan>>

\* Mutant: dhcpChange is left set.
MutResetDHCP == lastDHCP' = NoLease /\ UNCHANGED dhcpChange

\* What ResetDHCP does.
ResetDHCP == lastDHCP' = NoLease /\ dhcpChange' = FALSE

-----------------------------------------------------------------------------
(* The reports *)

\* HandleDhnsChange, action "ifaceEvent": the report of the latest change.
IfaceEvent ==
  /\ hotplug /\ hotplug' = FALSE
  /\ sentIfaceEvent
  /\ UNCHANGED <<waiterVars, wan, lan, lanUp, planb, udhcpc, bridged, lanChecks, changes, seen>>

\* HandleDhnsChange, action "uciChange", or the report of an earlier change
\* that a later one has overtaken: no news, but an event all the same.
UciEvent ==
  /\ changes < MaxChanges /\ changes' = changes + 1
  /\ sentIfaceEvent
  /\ UNCHANGED <<waiterVars, wan, lan, lanUp, planb, udhcpc, bridged, lanChecks, hotplug, seen>>

\* Mutant: the waiter's channel is handed out and stays registered.
MutHandleDhcpValid ==
  \E lease \in Leases :
    /\ changes < MaxChanges /\ changes' = changes + 1
    /\ notify' = notify \union ({dhcpWaiter} \ {NoWaiter})
    /\ dhcpChange' = TRUE /\ lastDHCP' = lease
    /\ ensureRunning
    /\ UNCHANGED <<dhcpWaiter, ifaceChange, pend, snap, plan, waiter, ready,
                   wan, lan, lanUp, planb, udhcpc, bridged, lanChecks, hotplug, seen>>

\* HandleDhcpValid up to the send: MarkDHCPValid takes the waiter's channel.
\* udhcpc's script may still report when udhcpc has been killed meanwhile.
HandleDhcpValid ==
  \E lease \in Leases :
    /\ changes < MaxChanges /\ changes' = changes + 1
    /\ notify' = notify \union ({dhcpWaiter} \ {NoWaiter})
    /\ dhcpWaiter' = NoWaiter
    /\ dhcpChange' = TRUE /\ lastDHCP' = lease
    /\ ensureRunning
    /\ UNCHANGED <<ifaceChange, pend, snap, plan, waiter, ready,
                   wan, lan, lanUp, planb, udhcpc, bridged, lanChecks, hotplug, seen>>

\* The rest of HandleDhcpValid: the non-blocking send on a channel of size 1
\* that nobody reads any more once its goroutine is gone.
Notify(q) ==
  /\ q \in notify /\ notify' = notify \ {q}
  /\ ready' = ready \union {p \in {q} : waiter[p] # "idle"}
  /\ UNCHANGED <<stateVars, workerVars, waiter, routerVars>>

-----------------------------------------------------------------------------
(* The goroutine of startUdhcpc *)

GotDhcpEvent(q) ==
  /\ waiter[q] = "waiting" /\ q \in ready
  /\ waiter' = [waiter EXCEPT ![q] = "idle"]
  /\ ready' = ready \ {q}
  /\ UNCHANGED <<stateVars, workerVars, notify, routerVars>>

\* tick.C; with a token there as well, select may choose either.
DhcpTimeout(q) ==
  /\ waiter[q] = "waiting"
  /\ waiter' = [waiter EXCEPT ![q] = "clearing"]
  /\ UNCHANGED <<stateVars, workerVars, ready, notify, routerVars>>

\* Its ClearDHCPWaiter, whoever is registered by now.
ClearDHCPWaiter(q) ==
  /\ waiter[q] = "clearing"
  /\ waiter' = [waiter EXCEPT ![q] = "sending"]
  /\ dhcpWaiter' = NoWaiter
  /\ UNCHANGED <<running, ifaceChange, dhcpChange, lastDHCP, workerVars,
                 ready, notify, routerVars>>

\* Its sentIfaceEvent; the channel is garbage when the goroutine returns.
TimeoutEvent(q) ==
  /\ waiter[q] = "sending"
  /\ waiter' = [waiter EXCEPT ![q] = "idle"]
  /\ ready' = ready \ {q}
  /\ sentIfaceEvent
  /\ UNCHANGED <<notify, routerVars>>

-----------------------------------------------------------------------------
(* dhnsChanging, one pass of its loop *)

\* "continue": back to the drain, the loop's locals gone.
Continue(w) ==
  /\ pc' = [pc EXCEPT ![w] = "drain"]
  /\ pend' = [pend EXCEPT ![w] = NoPend]
  /\ snap' = [snap EXCEPT ![w] = NoSnap]
  /\ plan' = [plan EXCEPT ![w] = NoDecision]

Goto(w, label) == pc' = [pc EXCEPT ![w] = label] /\ UNCHANGED <<pend, snap, plan>>

\* The three seconds that let a burst of events settle.
Sleep(w) ==
  /\ pc[w] = "sleep"
  /\ Goto(w, "drain")
  /\ UNCHANGED <<stateVars, waiterVars, routerVars>>

\* Mutant: the drain leaves ifaceChange set.
MutDrain(w) ==
  /\ pc[w] = "drain"
  /\ pend' = [pend EXCEPT ![w] = [iface |-> ifaceChange, dhcp |-> dhcpChange,
                                  lease |-> lastDHCP]]
  /\ dhcpChange' = FALSE
  /\ pc' = [pc EXCEPT ![w] = IF ifaceChange THEN "load"
                             ELSE IF dhcpChange THEN "probe" ELSE "finish"]
  /\ UNCHANGED <<running, ifaceChange, lastDHCP, dhcpWaiter, snap, plan,
                 waiterVars, routerVars>>

Drain(w) ==
  /\ pc[w] = "drain"
  /\ pend' = [pend EXCEPT ![w] = [iface |-> ifaceChange, dhcp |-> dhcpChange,
                                  lease |-> lastDHCP]]
  /\ ifaceChange' = FALSE /\ dhcpChange' = FALSE
  /\ pc' = [pc EXCEPT ![w] = IF ifaceChange THEN "load"
                             ELSE IF dhcpChange THEN "probe" ELSE "finish"]
  /\ UNCHANGED <<running, lastDHCP, dhcpWaiter, snap, plan, waiterVars, routerVars>>

\* Mutant: Finish clears the whole state.
MutFinish(w) ==
  /\ pc[w] = "finish"
  /\ running' = FALSE /\ ifaceChange' = FALSE /\ dhcpChange' = FALSE
  /\ pc' = [pc EXCEPT ![w] = "idle"]
  /\ pend' = [pend EXCEPT ![w] = NoPend]
  /\ UNCHANGED <<lastDHCP, dhcpWaiter, snap, plan, waiterVars, routerVars>>

\* The deferred Finish of the return that an empty drain leads to.
Finish(w) ==
  /\ pc[w] = "finish"
  /\ running' = FALSE
  /\ pc' = [pc EXCEPT ![w] = "idle"]
  /\ pend' = [pend EXCEPT ![w] = NoPend]
  /\ UNCHANGED <<ifaceChange, dhcpChange, lastDHCP, dhcpWaiter, snap, plan,
                 waiterVars, routerVars>>

\* "Ignore dhcp change when the network is OK"
Probe(w) ==
  /\ pc[w] = "probe"
  /\ \/ Continue(w)
     \/ Goto(w, "load")
  /\ UNCHANGED <<stateVars, waiterVars, routerVars>>

\* uci.LoadConfig and dhnsGetNetSections; without a lan section, "continue".
Load(w) ==
  /\ pc[w] = "load"
  /\ IF CollectLan(lan) = NoSec
       THEN Continue(w)
       ELSE /\ snap' = [snap EXCEPT ![w] =
                 [lan |-> CollectLan(lan),
                  wan |-> IF wan = NoSec THEN NoSec ELSE [wan EXCEPT !.up = FALSE],
                  planb |-> IF planb = "absent" THEN NoSec ELSE [up |-> FALSE]]]
            /\ pc' = [pc EXCEPT ![w] = "status"]
            /\ UNCHANGED <<pend, plan>>
  /\ seen' = IF pend[w].iface THEN "loaded" ELSE seen
  /\ UNCHANGED <<stateVars, waiterVars,
                 wan, lan, lanUp, planb, udhcpc, bridged, lanChecks, hotplug, changes>>

\* getIfaceStatus for each section; a ubus call that fails reads as down.
getIfaceStatus(s, answered) ==
  [lan |-> [s.lan EXCEPT !.up = lanUp /\ "lan" \in answered],
   wan |-> IF s.wan = NoSec THEN NoSec
           ELSE [s.wan EXCEPT !.up = IsUp(wan) /\ "wan" \in answered],
   planb |-> IF s.planb = NoSec THEN NoSec
             ELSE [up |-> planb = "up" /\ "planb" \in answered]]

\* PlanIfaceChange; the network is only probed when its answer counts.
Decide(s, netOK) ==
  LET networkOK == ~IsUp(s.wan) /\ ~lanNeedsDHNS(s.lan) /\ netOK
  IN  PlanIfaceChange(s.lan, s.wan, s.planb, networkOK)

\* The states of the sections, and for an interface event the decision.
Status(w) ==
  /\ pc[w] = "status"
  /\ \E answered \in SUBSET {"lan", "wan", "planb"}, netOK \in BOOLEAN :
       LET s == getIfaceStatus(snap[w], answered)
           all == answered = {"lan", "wan", "planb"}
       IN  /\ snap' = [snap EXCEPT ![w] = s]
           /\ IF pend[w].iface
                THEN /\ plan' = [plan EXCEPT ![w] = Decide(s, netOK)]
                     /\ pc' = [pc EXCEPT ![w] = "stop"]
                     /\ seen' = IF seen = "loaded" /\ all THEN "read" ELSE seen
                ELSE /\ pc' = [pc EXCEPT ![w] = "dhcp"]
                     /\ UNCHANGED <<plan, seen>>
  /\ UNCHANGED <<stateVars, pend, waiterVars,
                 wan, lan, lanUp, planb, udhcpc, bridged, lanChecks, hotplug, changes>>

\* stopUdhcpc: kills what the pid file names and removes the file.
stopUdhcpc == udhcpc' = "none" /\ ResetDHCP

Stop(w) ==
  /\ pc[w] = "stop"
  /\ IF plan[w].stopUdhcpc THEN stopUdhcpc ELSE UNCHANGED <<udhcpc, lastDHCP, dhcpChange>>
  /\ Goto(w, "links")
  /\ UNCHANGED <<running, ifaceChange, dhcpWaiter, waiterVars,
                 wan, lan, lanUp, planb, bridged, lanChecks, hotplug, changes, seen>>

\* ifdown planb, ifup lan, and the goroutine of CheckLANHasIP.
Links(w) ==
  /\ pc[w] = "links"
  /\ LET down == plan[w].ifdownPlanB \/ plan[w].ifdownPlanBAndIfupLAN
         up   == plan[w].ifdownPlanBAndIfupLAN \/ plan[w].ifupLAN
     IN  /\ planb' = IF down /\ planb = "up" THEN "down" ELSE planb
         /\ lanUp' \in IF up THEN {lanUp, TRUE} ELSE {lanUp}
         /\ hotplug' = (hotplug \/ planb' # planb \/ lanUp' # lanUp)
  /\ lanChecks' = IF plan[w].checkLANHasIP /\ lanChecks < MaxLanChecks
                    THEN lanChecks + 1 ELSE lanChecks
  /\ Goto(w, "helper")
  /\ UNCHANGED <<stateVars, waiterVars, wan, lan, udhcpc, bridged, changes, seen>>

\* startDhns.  The helper is a process the worker knows nothing of but what
\* it answers, which is a free choice wherever the worker asks.  Unless it is
\* alive, its veth is put into the bridge if it is not there, and that
\* reloads the network.
startDhns == bridged' \in {bridged, TRUE}

\* Mutant: the bridge is edited whether or not the veth is a port of it.
MutSetupStaticIPInOtherNS(net) ==
  IF StaticIPFor(net) = NoIP
    THEN UNCHANGED <<bridged, hotplug>>
    ELSE startDhns /\ hotplug' = TRUE

\* setupStaticIPInOtherNS, on the snapshot's LAN network.
setupStaticIPInOtherNS(net) ==
  IF StaticIPFor(net) = NoIP
    THEN UNCHANGED <<bridged, hotplug>>     \* stopDhns
    ELSE startDhns /\ hotplug' = (hotplug \/ bridged' # bridged)

\* The conflict check (it edits the real LAN from the snapshot's networks)
\* and the start or stop of the helper.
Helper(w) ==
  /\ pc[w] = "helper"
  /\ IF plan[w].checkWANLANConflict
       THEN \E lanDHCPDisabled \in BOOLEAN :
              LET p == PlanWANLANConflict(snap[w].wan.net, snap[w].lan, lanDHCPDisabled)
              IN  IF p.newIP # NoIP
                    THEN /\ lan' = SetIpaddr(lan, p.newIP) /\ hotplug' = TRUE
                         /\ UNCHANGED bridged
                    ELSE /\ UNCHANGED lan
                         /\ IF p.needDHNS THEN setupStaticIPInOtherNS(snap[w].lan.net)
                            ELSE UNCHANGED <<bridged, hotplug>>
       ELSE /\ UNCHANGED lan
            /\ IF plan[w].setupStaticIPInOtherNS
                 THEN setupStaticIPInOtherNS(snap[w].lan.net)
                 ELSE UNCHANGED <<bridged, hotplug>>
  /\ IF plan[w].startUdhcpc THEN Goto(w, "start") ELSE Continue(w)
  /\ UNCHANGED <<stateVars, waiterVars,
                 wan, lanUp, planb, udhcpc, lanChecks, changes, seen>>

\* After startUdhcpc: the lease of the same drain, if there is one.
AfterStart(w) == IF pend[w].dhcp THEN Goto(w, "dhcp") ELSE Continue(w)

\* startUdhcpc up to the command.  A pid file that names a live process,
\* its own or another's, means it runs already.
Start(w) ==
  /\ pc[w] = "start"
  /\ \/ /\ udhcpc \in {"running", "foreign"}
        /\ AfterStart(w)
        /\ UNCHANGED <<udhcpc, dhcpWaiter, waiter>>
     \/ /\ udhcpc \in {"none", "dead"}
        /\ udhcpc' = "none"
        /\ IF dhcpWaiter # NoWaiter
             THEN UNCHANGED <<dhcpWaiter, waiter>>
             ELSE \E q \in Waiters :
                    /\ waiter[q] = "idle" /\ q \notin notify
                    /\ dhcpWaiter' = q
                    /\ waiter' = [waiter EXCEPT ![q] = "waiting"]
        /\ Goto(w, "run")
  /\ UNCHANGED <<running, ifaceChange, dhcpChange, lastDHCP, ready, notify,
                 wan, lan, lanUp, planb, bridged, lanChecks, hotplug, changes, seen>>

\* Its command: udhcpc stays, or writes its pid file and dies, or never runs.
Run(w) ==
  /\ pc[w] = "run"
  /\ udhcpc' \in {"running", "dead", "none"}
  /\ AfterStart(w)
  /\ UNCHANGED <<stateVars, waiterVars,
                 wan, lan, lanUp, planb, bridged, lanChecks, hotplug, changes, seen>>

\* The lease: start the helper, PlanDHCPChange, and on a conflict with the
\* LAN take planb down again.
Dhcp(w) ==
  /\ pc[w] = "dhcp"
  /\ \E ok \in BOOLEAN :
       LET d == PlanDHCPChange(snap[w].lan, snap[w].planb, pend[w].lease)
           restart == ok /\ d.restartLAN
       IN  /\ startDhns
           /\ planb' = IF restart /\ planb = "up" THEN "down" ELSE planb
           /\ lanUp' \in IF restart THEN {lanUp, TRUE} ELSE {lanUp}
           /\ IF ok /\ d.valid /\ ~d.conflict THEN Goto(w, "check") ELSE Continue(w)
  /\ hotplug' = (hotplug \/ bridged' # bridged \/ planb' # planb \/ lanUp' # lanUp)
  /\ UNCHANGED <<stateVars, waiterVars, wan, lan, udhcpc, lanChecks, changes, seen>>

\* Try the lease in the helper's namespace, then probe the network again.
Check(w) ==
  /\ pc[w] = "check"
  /\ \/ /\ Continue(w)                       \* check network failed
        /\ UNCHANGED <<udhcpc, lastDHCP, dhcpChange>>
     \/ stopUdhcpc /\ Continue(w)            \* the network is OK by now
     \/ /\ Goto(w, "planb")
        /\ UNCHANGED <<udhcpc, lastDHCP, dhcpChange>>
  /\ UNCHANGED <<running, ifaceChange, dhcpWaiter, waiterVars,
                 wan, lan, lanUp, planb, bridged, lanChecks, hotplug, changes, seen>>

\* Plan B: stop udhcpc, configure planb if the snapshot had none, ifup planb
\* unless it was up, stop the helper.
PlanB(w) ==
  /\ pc[w] = "planb"
  /\ stopUdhcpc
  /\ LET d == PlanDHCPChange(snap[w].lan, snap[w].planb, pend[w].lease)
         conf == IF d.createPlanB /\ planb = "absent" THEN "down" ELSE planb
     IN  planb' \in IF d.ifupPlanB THEN {conf, "up"} ELSE {conf}
  /\ hotplug' = (hotplug \/ planb' # planb)
  /\ Continue(w)
  /\ UNCHANGED <<running, ifaceChange, dhcpWaiter, waiterVars,
                 wan, lan, lanUp, bridged, lanChecks, changes, seen>>

\* The end of a CheckLANHasIP goroutine: the LAN has an address, or ifup lan.
LanCheck ==
  /\ lanChecks > 0 /\ lanChecks' = lanChecks - 1
  /\ lanUp' \in {lanUp, TRUE}
  /\ hotplug' = (hotplug \/ lanUp' # lanUp)
  /\ UNCHANGED <<stateVars, workerVars, waiterVars,
                 wan, lan, planb, udhcpc, bridged, changes, seen>>

-----------------------------------------------------------------------------
(* The world: external *)

\* Cables, servers and users change interfaces; netifd reports each change.
InterfaceChange ==
  /\ changes < MaxChanges /\ changes' = changes + 1
  /\ \/ wan' \in WanSec \ {wan} /\ UNCHANGED <<lan, lanUp, planb>>
     \/ lan' \in LanConfs \ {lan} /\ UNCHANGED <<wan, lanUp, planb>>
     \/ lanUp' = ~lanUp /\ UNCHANGED <<wan, lan, planb>>
     \/ planb = "up" /\ planb' = "down" /\ UNCHANGED <<wan, lan, lanUp>>
  /\ hotplug' = TRUE /\ seen' = "stale"
  /\ UNCHANGED <<stateVars, workerVars, waiterVars, udhcpc, bridged, lanChecks>>

\* udhcpc dies and leaves its pid file; later its pid belongs to another.
ProcessChange ==
  /\ changes < MaxChanges /\ changes' = changes + 1
  /\ \/ udhcpc = "running" /\ udhcpc' = "dead"
     \/ udhcpc = "dead" /\ udhcpc' = "foreign"
  /\ UNCHANGED <<stateVars, workerVars, waiterVars,
                 wan, lan, lanUp, planb, bridged, lanChecks, hotplug, seen>>

-----------------------------------------------------------------------------
Worker(w) == \/ Sleep(w) \/ Drain(w) \/ Finish(w) \/ Probe(w) \/ Load(w)
             \/ Status(w) \/ Stop(w) \/ Links(w) \/ Helper(w) \/ Start(w)
             \/ Run(w) \/ Dhcp(w) \/ Check(w) \/ PlanB(w)

Waiter(q) == GotDhcpEvent(q) \/ DhcpTimeout(q) \/ ClearDHCPWaiter(q) \/ TimeoutEvent(q)

Next ==
  \/ IfaceEvent \/ UciEvent \/ HandleDhcpValid
  \/ \E q \in Waiters : Notify(q) \/ Waiter(q)
  \/ \E w \in Workers : Worker(w)
  \/ LanCheck \/ InterfaceChange \/ ProcessChange

Spec == Init /\ [][Next]_vars

\* Goroutines run, timers fire, and netifd's reports arrive; nothing is
\* assumed of the changes they report.
Fairness ==
  /\ \A w \in Workers : WF_vars(Worker(w))
  /\ \A q \in Waiters : WF_vars(Waiter(q)) /\ WF_vars(Notify(q))
  /\ WF_vars(IfaceEvent) /\ WF_vars(LanCheck)

FairSpec == Spec /\ Fairness

-----------------------------------------------------------------------------
Active(w) == pc[w] # "idle"

\* running is TRUE exactly while one goroutine is in dhnsChanging: passes
\* never overlap, and no event is left to a worker that is not there.
SingleWorker ==
  /\ running <=> \E w \in Workers : Active(w)
  /\ \A v, w \in Workers : Active(v) /\ Active(w) => v = w

\* The branch that dereferences dhcpGot is only reached with a lease, though
\* ResetDHCP clears lastDHCP and dhcpChange at other times than Drain does.
LeasePresent ==
  \A w \in Workers :
    pc[w] \in {"dhcp", "check", "planb"} => pend[w].lease # NoLease

\* A registered channel belongs to a goroutine that still waits, or is about
\* to clear the registration, and whose token nobody holds: otherwise
\* RegisterDHCPWaiter would refuse every later waiter and no timeout would
\* ever restart the recovery.
WaiterAlive ==
  dhcpWaiter # NoWaiter =>
    /\ waiter[dhcpWaiter] \in {"waiting", "clearing"}
    /\ dhcpWaiter \notin notify \union ready

\* Whoever waits for a lease is registered or has been notified: the state
\* test says of registration "did not expect second waiter to register".
ExclusiveWaiter ==
  \A q \in Waiters :
    waiter[q] = "waiting" => dhcpWaiter = q \/ q \in notify \union ready

\* Nothing is on its way: no unreported change, no marked event, no worker.
Quiescent == ~hotplug /\ ~ifaceChange /\ ~running

\* Every change of an interface is loaded by a pass after it happened: the
\* drain, the snapshot and the change may come in any order.
NoChangeForgotten == Quiescent => seen # "stale"

\* At rest after a pass that could read everything: with the WAN up, or a
\* LAN that has its own way out, plan B is down and no udhcpc of ours asks
\* for leases on the LAN.  Late leases, stale snapshots and passes for a
\* lease only (they do not look at the WAN) must all be made good.
RecoveryGoal ==
  (/\ Quiescent /\ seen = "read" /\ CollectLan(lan) # NoSec
   /\ IsUp(wan) \/ lanNeedsDHNS(CollectLan(lan)))
    => planb # "up" /\ udhcpc # "running"

\* At rest, an up WAN and a plain static LAN overlap only without a spare
\* address: the edit of a snapshot that was already stale is made good too.
AddressGoal ==
  (Quiescent /\ seen = "read" /\ CollectLan(lan) # NoSec /\ IsUp(wan)) =>
    \/ lanNeedsDHNS(CollectLan(lan))
    \/ ~Overlaps(wan.net, CollectLan(lan).net)
    \/ NoConflictIP(wan.net, CollectLan(lan).net) = NoIP

\* The goroutine of startUdhcpc ends, whoever took or cleared its channel.
WaiterEnds == \A q \in Waiters : waiter[q] # "idle" ~> waiter[q] = "idle"

\* An event marked while the worker has not made its last drain is drained:
\* every pass ends, whatever its commands did.
MarkedIsDrained ==
  (ifaceChange /\ running /\ \A w \in Workers : pc[w] # "finish") ~> ~ifaceChange

\* The worker does not feed itself: its commands change interfaces and are
\* reported back to it, but unless udhcpc keeps timing out it comes to rest.
ComesToRest ==
  []<><<\E q \in Waiters : TimeoutEvent(q)>>_vars \/ []<>~running

\* "Timeout, sent ifaceChange event again": a marked event is acted upon.
EventHandled == ifaceChange ~> ~ifaceChange

\* What the worker is for: at rest, after everything could be read, plan B and udhcpc are
\* off unless they are called for, and WAN and LAN are apart.
RestGoal == RecoveryGoal /\ AddressGoal

\* Goroutines and events come to their ends: a waiter, whoever took its channel, and an
\* event that was marked in time.
DhnsProgress == WaiterEnds /\ MarkedIsDrained
=============================================================================
