-------------------------- MODULE DhnsRecoveryProofs --------------------------
(***************************************************************************)
(* The safety of the recovery worker for any number of workers, waiters,   *)
(* networks, leases and changes: its bookkeeping, and what it has reached  *)
(* when it comes to rest.                                                  *)
(***************************************************************************)
EXTENDS DhnsRecovery, TLAPS

-----------------------------------------------------------------------------
(* What a step of the worker does to its program counter. *)

\* Every step of an active worker but Finish leaves it active and leaves
\* running and the other workers alone.
LEMMA WorkerStaysActive ==
  ASSUME NEW w \in Workers, Worker(w), pc \in [Workers -> PC]
  PROVE  /\ Active(w)
         /\ \/ /\ Finish(w)
            \/ /\ running' = running
               /\ \E l \in PC \ {"idle"} : pc' = [pc EXCEPT ![w] = l]
<1> USE DEF PC, Active
<1>1. CASE Sleep(w)
  BY <1>1 DEF Sleep, Goto, stateVars
<1>2. CASE Drain(w)
  <2>1. PICK l \in {"load", "probe", "finish"} : pc' = [pc EXCEPT ![w] = l]
    BY <1>2 DEF Drain
  <2> QED BY <1>2, <2>1 DEF Drain
<1>3. CASE Finish(w)
  BY <1>3 DEF Finish
<1>4. CASE Probe(w)
  BY <1>4 DEF Probe, Goto, Continue, stateVars
<1>5. CASE Load(w)
  BY <1>5 DEF Load, Continue, stateVars
<1>6. CASE Status(w)
  BY <1>6 DEF Status, stateVars
<1>7. CASE Stop(w)
  BY <1>7 DEF Stop, Goto
<1>8. CASE Links(w)
  BY <1>8 DEF Links, Goto, stateVars
<1>9. CASE Helper(w)
  BY <1>9 DEF Helper, Goto, Continue, stateVars
<1>10. CASE Start(w)
  BY <1>10 DEF Start, AfterStart, Goto, Continue
<1>11. CASE Run(w)
  BY <1>11 DEF Run, AfterStart, Goto, Continue, stateVars
<1>12. CASE Dhcp(w)
  BY <1>12 DEF Dhcp, Goto, Continue, stateVars
<1>13. CASE Check(w)
  BY <1>13 DEF Check, Goto, Continue
<1>14. CASE PlanB(w)
  BY <1>14 DEF PlanB, Goto, Continue
<1> QED BY <1>1, <1>2, <1>3, <1>4, <1>5, <1>6, <1>7, <1>8, <1>9, <1>10,
           <1>11, <1>12, <1>13, <1>14 DEF Worker

\* The steps that are no worker's, split by what they do to runtime.State.
LEMMA OtherSteps ==
  ASSUME [Next]_vars
  PROVE  \/ \E w \in Workers : Worker(w)
         \/ IfaceEvent \/ UciEvent \/ HandleDhcpValid
         \/ \E q \in Waiters : \/ Notify(q) \/ GotDhcpEvent(q) \/ DhcpTimeout(q)
                               \/ ClearDHCPWaiter(q) \/ TimeoutEvent(q)
         \/ LanCheck \/ InterfaceChange \/ ProcessChange
         \/ UNCHANGED vars
BY DEF Next, Waiter

-----------------------------------------------------------------------------
(* One worker *)

Control == pc \in [Workers -> PC] /\ running \in BOOLEAN /\ SingleWorker

\* Starting a worker only when none is recorded as running keeps it single.
LEMMA EnsureRunningSafe ==
  ASSUME Control, ensureRunning
  PROVE  Control'
<1>1. CASE running
  BY <1>1 DEF Control, ensureRunning, SingleWorker, Active
<1>2. CASE ~running
  <2>1. \A w \in Workers : pc[w] = "idle"
    BY <1>2 DEF Control, SingleWorker, Active
  <2>2. PICK w \in Workers : pc' = [pc EXCEPT ![w] = "sleep"]
    BY <1>2 DEF ensureRunning
  <2> QED BY <2>1, <2>2 DEF Control, ensureRunning, SingleWorker, Active, PC
<1> QED BY <1>1, <1>2

\* Every step keeps the worker single.
LEMMA ControlInductive ==
  ASSUME Control, [Next]_vars
  PROVE  Control'
<1>1. ASSUME NEW w \in Workers, Worker(w) PROVE Control'
  <2>1. Active(w) /\ pc \in [Workers -> PC]
    BY <1>1, WorkerStaysActive DEF Control
  <2>2. CASE Finish(w)
    BY <2>1, <2>2 DEF Finish, Control, SingleWorker, Active, PC
  <2>3. CASE /\ running' = running
             /\ \E l \in PC \ {"idle"} : pc' = [pc EXCEPT ![w] = l]
    BY <2>1, <2>3 DEF Control, SingleWorker, Active
  <2> QED BY <1>1, <2>1, <2>2, <2>3, WorkerStaysActive
<1>2. CASE IfaceEvent
  BY <1>2, EnsureRunningSafe DEF IfaceEvent, sentIfaceEvent
<1>3. CASE UciEvent
  BY <1>3, EnsureRunningSafe DEF UciEvent, sentIfaceEvent
<1>4. CASE HandleDhcpValid
  BY <1>4, EnsureRunningSafe DEF HandleDhcpValid
<1>5. ASSUME NEW q \in Waiters, TimeoutEvent(q) PROVE Control'
  BY <1>5, EnsureRunningSafe DEF TimeoutEvent, sentIfaceEvent
<1>6. CASE UNCHANGED <<pc, running>>
  BY <1>6 DEF Control, SingleWorker, Active
<1>7. ASSUME NEW q \in Waiters,
             Notify(q) \/ GotDhcpEvent(q) \/ DhcpTimeout(q) \/ ClearDHCPWaiter(q)
      PROVE  UNCHANGED <<pc, running>>
  BY <1>7 DEF Notify, GotDhcpEvent, DhcpTimeout, ClearDHCPWaiter, stateVars, workerVars
<1>8. LanCheck \/ InterfaceChange \/ ProcessChange \/ UNCHANGED vars
        => UNCHANGED <<pc, running>>
  BY DEF LanCheck, InterfaceChange, ProcessChange, vars, stateVars, workerVars
<1> QED BY <1>1, <1>2, <1>3, <1>4, <1>5, <1>6, <1>7, <1>8, OtherSteps

\* The passes of dhnsChanging never overlap, and State.running tells exactly
\* whether one is under way.
THEOREM OneWorker == Spec => []SingleWorker
<1>1. Init => Control
  BY DEF Init, Control, SingleWorker, Active, PC
<1>2. Control /\ [Next]_vars => Control'
  BY ControlInductive
<1>3. Control => SingleWorker
  BY DEF Control
<1> QED BY <1>1, <1>2, <1>3, PTL DEF Spec

-----------------------------------------------------------------------------
(* The lease *)

Locals == /\ pc \in [Workers -> PC]
          /\ pend \in [Workers -> [iface : BOOLEAN, dhcp : BOOLEAN,
                                   lease : Leases \union {NoLease}]]

\* A marked lease is there, a drained one is kept with its mark, and every
\* way into the lease's branch goes through a drain that had the mark.
LeaseInv ==
  /\ ifaceChange \in BOOLEAN /\ dhcpChange \in BOOLEAN
  /\ lastDHCP \in Leases \union {NoLease}
  /\ Locals
  /\ dhcpChange => lastDHCP # NoLease
  /\ \A w \in Workers :
       /\ pend[w].dhcp => pend[w].lease # NoLease
       /\ pc[w] \in {"probe", "dhcp", "check", "planb"} => pend[w].dhcp
       /\ pc[w] \in {"load", "status"} => pend[w].iface \/ pend[w].dhcp

\* "continue" leads to a state without locals.
LEMMA ContinueLocals ==
  ASSUME NEW w \in Workers, Locals, Continue(w)
  PROVE  /\ Locals'
         /\ pc'[w] = "drain" /\ pend'[w].dhcp = FALSE
         /\ \A v \in Workers \ {w} : pc'[v] = pc[v] /\ pend'[v] = pend[v]
BY DEF Continue, Locals, NoPend, PC

\* A jump leaves the drained event alone.
LEMMA GotoLocals ==
  ASSUME NEW w \in Workers, NEW l \in PC, Locals, Goto(w, l)
  PROVE  /\ Locals' /\ pend' = pend /\ pc'[w] = l
         /\ \A v \in Workers \ {w} : pc'[v] = pc[v]
BY DEF Goto, Locals

\* Every step keeps marked and drained leases.
LEMMA LeaseInductive ==
  ASSUME LeaseInv, [Next]_vars
  PROVE  LeaseInv'
<1> USE DEF LeaseInv
<1>0. ASSUME NEW w \in Workers,
             \/ Continue(w)
             \/ Goto(w, "drain") \/ Goto(w, "links") \/ Goto(w, "helper")
             \/ Goto(w, "start") \/ Goto(w, "run")
             \/ pend[w].dhcp /\ (Goto(w, "dhcp") \/ Goto(w, "check") \/ Goto(w, "planb"))
             \/ pend[w].iface /\ Goto(w, "load")
             \/ pend[w].dhcp /\ Goto(w, "load"),
             UNCHANGED <<ifaceChange, lastDHCP, dhcpChange>> \/ (ResetDHCP /\ UNCHANGED ifaceChange)
      PROVE  LeaseInv'
  <2>1. /\ ifaceChange' \in BOOLEAN /\ dhcpChange' \in BOOLEAN
        /\ lastDHCP' \in Leases \union {NoLease}
        /\ dhcpChange' => lastDHCP' # NoLease
    <3>1. CASE UNCHANGED <<ifaceChange, lastDHCP, dhcpChange>>
      BY <3>1
    <3>2. CASE ResetDHCP /\ UNCHANGED ifaceChange
      BY <3>2 DEF ResetDHCP
    <3> QED BY <1>0, <3>1, <3>2
  <2>2. CASE Continue(w)
    BY <2>1, <2>2, ContinueLocals
  <2>3. ASSUME NEW l \in PC, Goto(w, l),
               l \in {"drain", "links", "helper", "start", "run"} \/ pend[w].dhcp
                 \/ (pend[w].iface /\ l = "load")
        PROVE  LeaseInv'
    BY <2>1, <2>3, GotoLocals
  <2> QED BY <1>0, <2>2, <2>3 DEF PC
<1>1. ASSUME NEW w \in Workers, Worker(w) PROVE LeaseInv'
  <2>1. CASE Sleep(w)
    BY <1>0, <2>1 DEF Sleep, stateVars
  <2>2. CASE Drain(w)
    BY <2>2 DEF Drain, Locals, PC
  <2>3. CASE Finish(w)
    BY <2>3 DEF Finish, Locals, PC, NoPend
  <2>4. CASE Probe(w)
    BY <1>0, <2>4 DEF Probe, stateVars
  <2>5. CASE Load(w)
    <3>1. CASE CollectLan(lan) = NoSec
      BY <1>0, <2>5, <3>1 DEF Load, stateVars
    <3>2. CASE CollectLan(lan) # NoSec
      BY <2>5, <3>2 DEF Load, stateVars, Locals, PC
    <3> QED BY <3>1, <3>2
  <2>6. CASE Status(w)
    <3>1. /\ UNCHANGED <<stateVars, pend>>
          /\ \/ pc' = [pc EXCEPT ![w] = "stop"]
             \/ pc' = [pc EXCEPT ![w] = "dhcp"] /\ ~pend[w].iface
          /\ pc[w] = "status"
      BY <2>6 DEF Status
    <3> QED BY <3>1 DEF stateVars, Locals, PC
  <2>7. CASE Stop(w)
    BY <1>0, <2>7 DEF Stop, stopUdhcpc
  <2>8. CASE Links(w)
    BY <1>0, <2>8 DEF Links, stateVars
  <2>9. CASE Helper(w)
    BY <1>0, <2>9 DEF Helper, stateVars
  <2>10. CASE Start(w)
    BY <1>0, <2>10 DEF Start, AfterStart
  <2>11. CASE Run(w)
    BY <1>0, <2>11 DEF Run, AfterStart, stateVars
  <2>12. CASE Dhcp(w)
    BY <1>0, <2>12 DEF Dhcp, stateVars
  <2>13. CASE Check(w)
    BY <1>0, <2>13 DEF Check, stopUdhcpc
  <2>14. CASE PlanB(w)
    BY <1>0, <2>14 DEF PlanB, stopUdhcpc
  <2> QED BY <1>1, <2>1, <2>2, <2>3, <2>4, <2>5, <2>6, <2>7, <2>8, <2>9, <2>10,
             <2>11, <2>12, <2>13, <2>14 DEF Worker
<1>2. ASSUME ensureRunning, UNCHANGED pend, ifaceChange' \in BOOLEAN,
             dhcpChange' \in BOOLEAN, lastDHCP' \in Leases \union {NoLease},
             dhcpChange' => lastDHCP' # NoLease
      PROVE  LeaseInv'
  <2>1. CASE pc' = pc
    BY <1>2, <2>1 DEF Locals
  <2>2. CASE \E w \in Workers : pc' = [pc EXCEPT ![w] = "sleep"]
    BY <1>2, <2>2 DEF Locals, PC
  <2> QED BY <1>2, <2>1, <2>2 DEF ensureRunning
<1>3. CASE IfaceEvent
  BY <1>2, <1>3 DEF IfaceEvent, sentIfaceEvent
<1>4. CASE UciEvent
  BY <1>2, <1>4 DEF UciEvent, sentIfaceEvent
<1>5. CASE HandleDhcpValid
  BY <1>2, <1>5, RecoveryAssumption DEF HandleDhcpValid
<1>6. ASSUME NEW q \in Waiters, TimeoutEvent(q) PROVE LeaseInv'
  BY <1>2, <1>6 DEF TimeoutEvent, sentIfaceEvent
<1>7. CASE UNCHANGED <<pc, pend, ifaceChange, dhcpChange, lastDHCP>>
  BY <1>7 DEF Locals
<1>8. ASSUME NEW q \in Waiters,
             Notify(q) \/ GotDhcpEvent(q) \/ DhcpTimeout(q) \/ ClearDHCPWaiter(q)
      PROVE  UNCHANGED <<pc, pend, ifaceChange, dhcpChange, lastDHCP>>
  BY <1>8 DEF Notify, GotDhcpEvent, DhcpTimeout, ClearDHCPWaiter, stateVars, workerVars
<1>9. LanCheck \/ InterfaceChange \/ ProcessChange \/ UNCHANGED vars
        => UNCHANGED <<pc, pend, ifaceChange, dhcpChange, lastDHCP>>
  BY DEF LanCheck, InterfaceChange, ProcessChange, vars, stateVars, workerVars
<1> QED BY <1>1, <1>3, <1>4, <1>5, <1>6, <1>7, <1>8, <1>9, OtherSteps

\* Nothing is marked at the start.
LEMMA LeaseInit == Init => LeaseInv
<1> SUFFICES ASSUME Init PROVE LeaseInv
  OBVIOUS
<1>1. Locals
  BY DEF Init, Locals, NoPend, PC
<1>2. \A w \in Workers : pc[w] = "idle" /\ pend[w].dhcp = FALSE
  BY DEF Init, NoPend
<1>3. /\ ifaceChange \in BOOLEAN /\ dhcpChange \in BOOLEAN
      /\ lastDHCP \in Leases \union {NoLease}
      /\ dhcpChange = FALSE
  BY DEF Init
<1> QED BY <1>1, <1>2, <1>3 DEF LeaseInv

\* dhnsChanging never reaches PlanDHCPChange or the helper's setup with a nil
\* dhcpGot, whenever ResetDHCP falls between MarkDHCPValid and Drain.
THEOREM LeaseNeverNil == Spec => []LeasePresent
<1>1. Init => LeaseInv
  BY LeaseInit
<1>2. LeaseInv /\ [Next]_vars => LeaseInv'
  BY LeaseInductive
<1>3. LeaseInv => LeasePresent
  BY DEF LeaseInv, LeasePresent
<1> QED BY <1>1, <1>2, <1>3, PTL DEF Spec

-----------------------------------------------------------------------------
(* No change is forgotten *)

\* A change that no pass has loaded is unreported, or marked, or drained by a
\* worker that is about to load.
Tracked ==
  seen = "stale" =>
    \/ hotplug
    \/ ifaceChange
    \/ \E w \in Workers : pc[w] = "load" /\ pend[w].iface

\* Steps that neither load nor drain nor lower a flag keep the track.
LEMMA TrackKept ==
  ASSUME Tracked, seen' = "stale" => seen = "stale",
         hotplug => hotplug', ifaceChange => ifaceChange',
         \A w \in Workers : pc[w] = "load" => pc'[w] = "load" /\ pend'[w] = pend[w]
  PROVE  Tracked'
BY DEF Tracked

\* Every step keeps the track of a change.
LEMMA TrackInductive ==
  ASSUME Control, LeaseInv, Tracked, [Next]_vars
  PROVE  Tracked'
<1>1. ASSUME NEW w \in Workers, Worker(w) PROVE Tracked'
  <2> USE DEF Locals, LeaseInv
  <2>0. ASSUME pc[w] # "load", UNCHANGED ifaceChange,
               hotplug => hotplug', seen' = "stale" => seen = "stale",
               \A v \in Workers \ {w} : pc'[v] = pc[v] /\ pend'[v] = pend[v]
        PROVE  Tracked'
    BY <2>0, TrackKept
  <2>a. ASSUME NEW l \in PC, Goto(w, l)
        PROVE  \A v \in Workers \ {w} : pc'[v] = pc[v] /\ pend'[v] = pend[v]
    BY <2>a, GotoLocals
  <2>b. ASSUME Continue(w)
        PROVE  \A v \in Workers \ {w} : pc'[v] = pc[v] /\ pend'[v] = pend[v]
    BY <2>b, ContinueLocals
  <2>1. CASE Sleep(w)
    BY <2>0, <2>1, <2>a DEF Sleep, stateVars, routerVars, PC
  <2>2. CASE Drain(w)
    <3>1. CASE ifaceChange
      <4>1. pc'[w] = "load" /\ pend'[w].iface
        BY <2>2, <3>1 DEF Drain
      <4> QED BY <4>1 DEF Tracked
    <3>2. CASE ~ifaceChange
      <4>1. /\ hotplug' = hotplug /\ seen' = seen /\ pc[w] # "load"
            /\ \A v \in Workers \ {w} : pc'[v] = pc[v] /\ pend'[v] = pend[v]
        BY <2>2 DEF Drain, routerVars
      <4> QED BY <4>1, <3>2 DEF Tracked
    <3> QED BY <3>1, <3>2
  <2>3. CASE Finish(w)
    BY <2>0, <2>3 DEF Finish, routerVars
  <2>4. CASE Probe(w)
    BY <2>0, <2>4, <2>a, <2>b DEF Probe, stateVars, routerVars, PC
  <2>5. CASE Load(w)
    <3>1. CASE pend[w].iface
      BY <2>5, <3>1 DEF Load, Tracked
    <3>2. CASE ~pend[w].iface
      <4>1. /\ hotplug' = hotplug /\ ifaceChange' = ifaceChange /\ seen' = seen
            /\ pc[w] = "load"
        BY <2>5, <3>2 DEF Load, stateVars
      <4>2. \A v \in Workers : pc[v] = "load" => v = w
        BY <4>1 DEF Control, SingleWorker, Active
      <4> QED BY <4>1, <4>2, <3>2 DEF Tracked
    <3> QED BY <3>1, <3>2
  <2>6. CASE Status(w)
    <3>1. /\ pc[w] # "load" /\ ifaceChange' = ifaceChange /\ hotplug' = hotplug
          /\ seen' \in {seen, "read"}
      BY <2>6 DEF Status, stateVars
    <3>2. \A v \in Workers \ {w} : pc'[v] = pc[v] /\ pend'[v] = pend[v]
      BY <2>6 DEF Status
    <3> QED BY <2>0, <3>1, <3>2
  <2>7. CASE Stop(w)
    BY <2>0, <2>7, <2>a DEF Stop, PC
  <2>8. CASE Links(w)
    BY <2>0, <2>8, <2>a DEF Links, stateVars, PC
  <2>9. CASE Helper(w)
    <3>1. hotplug => hotplug'
      BY <2>9 DEF Helper, setupStaticIPInOtherNS
    <3> QED BY <2>0, <2>9, <2>a, <2>b, <3>1 DEF Helper, stateVars, PC
  <2>10. CASE Start(w)
    BY <2>0, <2>10, <2>a, <2>b DEF Start, AfterStart, PC
  <2>11. CASE Run(w)
    BY <2>0, <2>11, <2>a, <2>b DEF Run, AfterStart, stateVars, PC
  <2>12. CASE Dhcp(w)
    BY <2>0, <2>12, <2>a, <2>b DEF Dhcp, stateVars, PC
  <2>13. CASE Check(w)
    BY <2>0, <2>13, <2>a, <2>b DEF Check, PC
  <2>14. CASE PlanB(w)
    BY <2>0, <2>14, <2>b DEF PlanB
  <2> QED BY <1>1, <2>1, <2>2, <2>3, <2>4, <2>5, <2>6, <2>7, <2>8, <2>9, <2>10,
             <2>11, <2>12, <2>13, <2>14 DEF Worker
<1>2. ensureRunning =>
        \A w \in Workers : pc[w] = "load" => pc'[w] = "load"
  BY DEF ensureRunning, Control
<1>3. CASE IfaceEvent
  BY <1>3 DEF IfaceEvent, sentIfaceEvent, Tracked
<1>4. CASE UciEvent
  BY <1>4 DEF UciEvent, sentIfaceEvent, Tracked
<1>5. CASE HandleDhcpValid
  BY <1>2, <1>5, TrackKept DEF HandleDhcpValid
<1>6. ASSUME NEW q \in Waiters, TimeoutEvent(q) PROVE Tracked'
  BY <1>6 DEF TimeoutEvent, sentIfaceEvent, Tracked
<1>7. CASE InterfaceChange
  BY <1>7 DEF InterfaceChange, Tracked
<1>8. CASE UNCHANGED <<pc, pend, ifaceChange, seen>> /\ (hotplug => hotplug')
  BY <1>8, TrackKept
<1>9. ASSUME NEW q \in Waiters,
             Notify(q) \/ GotDhcpEvent(q) \/ DhcpTimeout(q) \/ ClearDHCPWaiter(q)
      PROVE  UNCHANGED <<pc, pend, ifaceChange, seen, hotplug>>
  BY <1>9 DEF Notify, GotDhcpEvent, DhcpTimeout, ClearDHCPWaiter,
              stateVars, workerVars, routerVars
<1>10. LanCheck \/ ProcessChange \/ UNCHANGED vars
         => UNCHANGED <<pc, pend, ifaceChange, seen>> /\ (hotplug => hotplug')
  <2>1. LanCheck => UNCHANGED <<pc, pend, ifaceChange, seen>> /\ (hotplug => hotplug')
    BY DEF LanCheck, stateVars, workerVars
  <2>2. ProcessChange \/ UNCHANGED vars
          => UNCHANGED <<pc, pend, ifaceChange, seen, hotplug>>
    BY DEF ProcessChange, vars, stateVars, workerVars, routerVars
  <2> QED BY <2>1, <2>2
<1> QED BY <1>1, <1>3, <1>4, <1>5, <1>6, <1>7, <1>8, <1>9, <1>10, OtherSteps

\* Whatever the order of netifd's change, its report, the drain and the load:
\* when nothing is pending, the last pass for an interface event loaded the
\* configuration after the last change.
THEOREM ChangesAreLoaded == Spec => []NoChangeForgotten
<1> DEFINE Inv == Control /\ LeaseInv /\ Tracked
<1>1. Init => Inv
  <2>1. Init => Control
    BY DEF Init, Control, SingleWorker, Active, PC
  <2>2. Init => LeaseInv
    BY LeaseInit
  <2>3. Init => Tracked
    BY DEF Init, Tracked
  <2> QED BY <2>1, <2>2, <2>3
<1>2. Inv /\ [Next]_vars => Inv'
  BY ControlInductive, LeaseInductive, TrackInductive
<1>3. Inv => NoChangeForgotten
  BY DEF Control, SingleWorker, Active, Tracked, NoChangeForgotten, Quiescent
<1> HIDE DEF Inv
<1> QED BY <1>1, <1>2, <1>3, PTL DEF Spec

-----------------------------------------------------------------------------
(* The waiters *)

WaiterInv ==
  /\ waiter \in [Waiters -> {"idle", "waiting", "clearing", "sending"}]
  /\ ready \subseteq Waiters /\ notify \subseteq Waiters
  /\ dhcpWaiter \in Waiters \union {NoWaiter}
  /\ \A q \in ready : waiter[q] # "idle"
  /\ WaiterAlive

\* Every step keeps a registered channel with its goroutine.
LEMMA WaiterInductive ==
  ASSUME WaiterInv, [Next]_vars
  PROVE  WaiterInv'
<1> USE RecoveryAssumption DEF WaiterInv, WaiterAlive
<1>1. CASE UNCHANGED <<waiter, ready, notify, dhcpWaiter>>
  BY <1>1
<1>2. ASSUME NEW w \in Workers, Worker(w) PROVE WaiterInv'
  <2>1. CASE Start(w)
    <3>1. CASE UNCHANGED <<waiter, dhcpWaiter>>
      BY <1>1, <2>1, <3>1 DEF Start
    <3>2. CASE \E q \in Waiters :
                 /\ waiter[q] = "idle" /\ q \notin notify
                 /\ dhcpWaiter' = q
                 /\ waiter' = [waiter EXCEPT ![q] = "waiting"]
      BY <2>1, <3>2 DEF Start
    <3> QED BY <2>1, <3>1, <3>2 DEF Start
  <2>2. CASE Sleep(w) \/ Drain(w) \/ Finish(w) \/ Probe(w) \/ Load(w) \/ Status(w)
             \/ Stop(w)
    BY <1>1, <2>2 DEF Sleep, Drain, Finish, Probe, Load, Status, Stop,
                      stateVars, waiterVars
  <2>3. CASE Links(w) \/ Helper(w) \/ Run(w) \/ Dhcp(w) \/ Check(w) \/ PlanB(w)
    BY <1>1, <2>3 DEF Links, Helper, Run, Dhcp, Check, PlanB, stateVars, waiterVars
  <2> QED BY <1>2, <2>1, <2>2, <2>3 DEF Worker
<1>3. CASE IfaceEvent \/ UciEvent
  BY <1>1, <1>3 DEF IfaceEvent, UciEvent, sentIfaceEvent, waiterVars
<1>4. CASE HandleDhcpValid
  <2>1. /\ UNCHANGED <<waiter, ready>> /\ dhcpWaiter' = NoWaiter
        /\ notify' \subseteq Waiters
    BY <1>4 DEF HandleDhcpValid
  <2> QED BY <2>1
<1>5. ASSUME NEW q \in Waiters, Notify(q) PROVE WaiterInv'
  <2>1. /\ UNCHANGED <<waiter, dhcpWaiter>> /\ q \in notify /\ notify' = notify \ {q}
        /\ ready' = ready \union {p \in {q} : waiter[p] # "idle"}
    BY <1>5 DEF Notify, stateVars
  <2> QED BY <2>1
<1>6. ASSUME NEW q \in Waiters, GotDhcpEvent(q) PROVE WaiterInv'
  BY <1>6 DEF GotDhcpEvent, stateVars
<1>7. ASSUME NEW q \in Waiters, DhcpTimeout(q) PROVE WaiterInv'
  BY <1>7 DEF DhcpTimeout, stateVars
<1>8. ASSUME NEW q \in Waiters, ClearDHCPWaiter(q) PROVE WaiterInv'
  BY <1>8 DEF ClearDHCPWaiter
<1>9. ASSUME NEW q \in Waiters, TimeoutEvent(q) PROVE WaiterInv'
  BY <1>9 DEF TimeoutEvent, sentIfaceEvent
<1>10. LanCheck \/ InterfaceChange \/ ProcessChange \/ UNCHANGED vars
         => UNCHANGED <<waiter, ready, notify, dhcpWaiter>>
  BY DEF LanCheck, InterfaceChange, ProcessChange, vars, stateVars, waiterVars
<1> QED BY <1>1, <1>2, <1>3, <1>4, <1>5, <1>6, <1>7, <1>8, <1>9, <1>10, OtherSteps

\* RegisterDHCPWaiter is never blocked by the channel of a goroutine that has
\* returned or whose token is already on its way.
THEOREM RegisteredWaiterIsAlive == Spec => []WaiterAlive
<1>1. Init => WaiterInv
  BY RecoveryAssumption DEF Init, WaiterInv, WaiterAlive
<1>2. WaiterInv /\ [Next]_vars => WaiterInv'
  BY WaiterInductive
<1>3. WaiterInv => WaiterAlive
  BY DEF WaiterInv
<1> QED BY <1>1, <1>2, <1>3, PTL DEF Spec

-----------------------------------------------------------------------------
(* Types *)

\* The types the invariants above do not cover.
SnapOK == /\ snap \in [Workers -> Snap]
          /\ plan \in [Workers -> IfaceDecision]
          /\ \A w \in Workers : pc[w] = "status" => snap[w].lan # NoSec

RouterOK ==
  /\ wan \in WanSec /\ lan \in LanConf /\ lanUp \in BOOLEAN
  /\ planb \in {"absent", "down", "up"}
  /\ udhcpc \in {"none", "running", "dead", "foreign"}
  /\ bridged \in BOOLEAN /\ hotplug \in BOOLEAN
  /\ lanChecks \in 0 .. MaxLanChecks /\ changes \in 0 .. MaxChanges
  /\ seen \in {"stale", "loaded", "read"}

\* PlanIfaceChange answers with a decision whatever it is given.
LEMMA PlanIfaceChangeType ==
  ASSUME NEW l, NEW v, NEW p, NEW ok
  PROVE  PlanIfaceChange(l, v, p, ok) \in IfaceDecision
BY DEF PlanIfaceChange, IfaceDecision, NoDecision, IsUp, lanNeedsDHNS

\* Editing the address of a well-formed section leaves it well-formed.
LEMMA HelperEditType ==
  ASSUME NEW c \in LanConf, NEW net, NEW l, NEW d,
         PlanWANLANConflict(net, l, d).newIP # NoIP
  PROVE  SetIpaddr(c, PlanWANLANConflict(net, l, d).newIP) \in LanConf
<1>1. PlanWANLANConflict(net, l, d).newIP \in Addr
  BY SpareAssumption DEF PlanWANLANConflict, NoConflictIP
<1> QED BY <1>1 DEF SetIpaddr, LanConf

\* Every step keeps snapshots and plans well-formed.
LEMMA SnapInductive ==
  ASSUME Control, LeaseInv, RouterOK, SnapOK, [Next]_vars
  PROVE  SnapOK'
<1> USE DEF SnapOK
<1>0. pc \in [Workers -> PC]
  BY DEF Control
<1>1. ASSUME NEW w \in Workers, Continue(w) PROVE SnapOK'
  BY <1>0, <1>1 DEF Continue, Snap, NoSnap, WanSec, NoDecision, IfaceDecision
<1>2. ASSUME NEW w \in Workers, NEW l \in PC \ {"status"},
             pc' = [pc EXCEPT ![w] = l], UNCHANGED <<snap, plan>>
      PROVE  SnapOK'
  BY <1>0, <1>2
<1>3. ASSUME NEW w \in Workers, Worker(w) PROVE SnapOK'
  <2>1. CASE Sleep(w) \/ Drain(w) \/ Finish(w) \/ Probe(w)
    BY <2>1, <1>1, <1>2 DEF Sleep, Drain, Finish, Probe, Goto, PC
  <2>2. CASE Load(w)
    <3>1. CASE CollectLan(lan) = NoSec
      BY <2>2, <3>1, <1>1 DEF Load
    <3>2. CASE CollectLan(lan) # NoSec
      <4>1. CollectLan(lan) \in LanSec
        BY <3>2 DEF CollectLan, RouterOK, LanConf, LanSec, IPNet
      <4> DEFINE s == [lan |-> CollectLan(lan),
                       wan |-> IF wan = NoSec THEN NoSec ELSE [wan EXCEPT !.up = FALSE],
                       planb |-> IF planb = "absent" THEN NoSec ELSE [up |-> FALSE]]
      <4>2. s \in Snap /\ s.lan # NoSec
        BY <3>2, <4>1 DEF Snap, RouterOK, WanSec
      <4>3. /\ snap' = [snap EXCEPT ![w] = s] /\ plan' = plan
            /\ pc' = [pc EXCEPT ![w] = "status"]
        BY <2>2, <3>2 DEF Load
      <4> HIDE DEF s
      <4> QED BY <1>0, <4>2, <4>3
    <3> QED BY <3>1, <3>2
  <2>3. CASE Status(w)
    <3>1. snap[w].lan \in LanSec /\ snap[w].wan \in WanSec
          /\ snap[w].planb \in {NoSec} \union [up : BOOLEAN]
      BY <2>3 DEF Status, Snap
    <3>2. \A a \in SUBSET {"lan", "wan", "planb"} : getIfaceStatus(snap[w], a) \in Snap
      BY <3>1 DEF getIfaceStatus, Snap, LanSec, WanSec, IsUp
    <3>3. \A x, ok : Decide(x, ok) \in IfaceDecision
      BY PlanIfaceChangeType DEF Decide
    <3>4. \E s \in Snap :
             /\ snap' = [snap EXCEPT ![w] = s]
             /\ \/ /\ \E d \in IfaceDecision : plan' = [plan EXCEPT ![w] = d]
                   /\ pc' = [pc EXCEPT ![w] = "stop"]
                \/ plan' = plan /\ pc' = [pc EXCEPT ![w] = "dhcp"]
      BY <2>3, <3>2, <3>3 DEF Status
    <3> QED BY <1>0, <3>4
  <2>4. CASE Stop(w) \/ Links(w)
    BY <2>4, <1>2 DEF Stop, Links, Goto, PC
  <2>5. CASE Helper(w) \/ Start(w) \/ Run(w)
    BY <2>5, <1>1, <1>2 DEF Helper, Start, Run, AfterStart, Goto, PC
  <2>6. CASE Dhcp(w) \/ Check(w) \/ PlanB(w)
    BY <2>6, <1>1, <1>2 DEF Dhcp, Check, PlanB, Goto, PC
  <2> QED BY <1>3, <2>1, <2>2, <2>3, <2>4, <2>5, <2>6 DEF Worker
<1>4. ASSUME ensureRunning, UNCHANGED <<snap, plan>> PROVE SnapOK'
  BY <1>0, <1>2, <1>4 DEF ensureRunning, PC
<1>5. CASE IfaceEvent \/ UciEvent \/ HandleDhcpValid
  BY <1>4, <1>5 DEF IfaceEvent, UciEvent, HandleDhcpValid, sentIfaceEvent
<1>6. ASSUME NEW q \in Waiters, TimeoutEvent(q) PROVE SnapOK'
  BY <1>4, <1>6 DEF TimeoutEvent, sentIfaceEvent
<1>7. ASSUME NEW q \in Waiters,
             Notify(q) \/ GotDhcpEvent(q) \/ DhcpTimeout(q) \/ ClearDHCPWaiter(q)
      PROVE  SnapOK'
  BY <1>7 DEF Notify, GotDhcpEvent, DhcpTimeout, ClearDHCPWaiter, workerVars
<1>8. CASE LanCheck \/ InterfaceChange \/ ProcessChange \/ UNCHANGED vars
  BY <1>8 DEF LanCheck, InterfaceChange, ProcessChange, vars, workerVars
<1> QED BY <1>3, <1>5, <1>6, <1>7, <1>8, OtherSteps

\* Every step keeps the router's state well-formed.
LEMMA RouterInductive ==
  ASSUME RouterOK, [Next]_vars
  PROVE  RouterOK'
<1> USE RecoveryAssumption DEF RouterOK
<1>0. /\ changes < MaxChanges => changes + 1 \in 0 .. MaxChanges
      /\ lanChecks < MaxLanChecks => lanChecks + 1 \in 0 .. MaxLanChecks
  OBVIOUS
<1>1. ASSUME NEW w \in Workers, Worker(w) PROVE RouterOK'
  <2>1. CASE Sleep(w) \/ Drain(w) \/ Finish(w) \/ Probe(w)
    BY <2>1 DEF Sleep, Drain, Finish, Probe, routerVars
  <2>2. CASE Load(w) \/ Status(w)
    <3>1. UNCHANGED <<wan, lan, lanUp, planb, udhcpc, bridged, lanChecks, hotplug, changes>>
          /\ seen' \in {seen, "loaded", "read"}
      BY <2>2 DEF Load, Status
    <3> QED BY <3>1
  <2>3. CASE Stop(w)
    BY <2>3 DEF Stop, stopUdhcpc
  <2>4. CASE Links(w)
    <3>1. lanChecks' \in 0 .. MaxLanChecks
      BY <1>0, <2>4 DEF Links
    <3>2. /\ planb' \in {planb, "down"} /\ lanUp' \in {lanUp, TRUE}
          /\ UNCHANGED <<wan, lan, udhcpc, bridged, changes, seen>>
      BY <2>4 DEF Links
    <3>3. hotplug' \in BOOLEAN
      BY <2>4 DEF Links
    <3> QED BY <3>1, <3>2, <3>3
  <2>5. CASE Helper(w)
    <3>1. /\ UNCHANGED <<wan, lanUp, planb, udhcpc, lanChecks, changes, seen>>
          /\ bridged' \in BOOLEAN
      BY <2>5 DEF Helper, setupStaticIPInOtherNS, startDhns
    <3>2. hotplug' \in BOOLEAN
      BY <2>5 DEF Helper, setupStaticIPInOtherNS
    <3>3. lan' \in LanConf
      BY <2>5, HelperEditType DEF Helper
    <3> QED BY <3>1, <3>2, <3>3
  <2>6. CASE Start(w) \/ Run(w)
    <3>1. UNCHANGED <<wan, lan, lanUp, planb, bridged, lanChecks, hotplug, changes, seen>>
          /\ udhcpc' \in {udhcpc, "running", "dead", "none"}
      BY <2>6 DEF Start, Run
    <3> QED BY <3>1
  <2>7. CASE Dhcp(w)
    BY <2>7 DEF Dhcp, startDhns
  <2>8. CASE Check(w)
    BY <2>8 DEF Check, stopUdhcpc
  <2>9. CASE PlanB(w)
    BY <2>9 DEF PlanB, stopUdhcpc
  <2> QED BY <1>1, <2>1, <2>2, <2>3, <2>4, <2>5, <2>6, <2>7, <2>8, <2>9 DEF Worker
<1>2. CASE IfaceEvent \/ UciEvent \/ HandleDhcpValid
  <2>1. changes' \in 0 .. MaxChanges
    BY <1>0, <1>2 DEF IfaceEvent, UciEvent, HandleDhcpValid
  <2>2. /\ UNCHANGED <<wan, lan, lanUp, planb, udhcpc, bridged, lanChecks, seen>>
        /\ hotplug' \in {hotplug, FALSE}
    BY <1>2 DEF IfaceEvent, UciEvent, HandleDhcpValid
  <2> QED BY <2>1, <2>2
<1>3. ASSUME NEW q \in Waiters,
             \/ Notify(q) \/ GotDhcpEvent(q) \/ DhcpTimeout(q)
             \/ ClearDHCPWaiter(q) \/ TimeoutEvent(q)
      PROVE  RouterOK'
  BY <1>3 DEF Notify, GotDhcpEvent, DhcpTimeout, ClearDHCPWaiter, TimeoutEvent, routerVars
<1>4. CASE LanCheck
  <2>1. lanChecks' \in 0 .. MaxLanChecks
    BY <1>4 DEF LanCheck
  <2>2. /\ lanUp' \in {lanUp, TRUE}
        /\ UNCHANGED <<wan, lan, planb, udhcpc, bridged, changes, seen>>
    BY <1>4 DEF LanCheck
  <2>3. hotplug' \in BOOLEAN
    BY <1>4 DEF LanCheck
  <2> QED BY <2>1, <2>2, <2>3
<1>5. CASE InterfaceChange
  <2>1. changes' \in 0 .. MaxChanges
    BY <1>0, <1>5 DEF InterfaceChange
  <2>2. /\ wan' \in WanSec /\ lan' \in LanConf
        /\ planb' \in {planb, "down"}
    BY <1>5 DEF InterfaceChange
  <2>3. lanUp' \in BOOLEAN
    BY <1>5 DEF InterfaceChange
  <2>4. /\ UNCHANGED <<udhcpc, bridged, lanChecks>>
        /\ hotplug' = TRUE /\ seen' = "stale"
    BY <1>5 DEF InterfaceChange
  <2> QED BY <2>1, <2>2, <2>3, <2>4
<1>6. CASE ProcessChange
  <2>1. changes' \in 0 .. MaxChanges
    BY <1>0, <1>6 DEF ProcessChange
  <2>2. /\ udhcpc' \in {"dead", "foreign"}
        /\ UNCHANGED <<wan, lan, lanUp, planb, bridged, lanChecks, hotplug, seen>>
    BY <1>6 DEF ProcessChange
  <2> QED BY <2>1, <2>2
<1>7. CASE UNCHANGED vars
  BY <1>7 DEF vars, routerVars
<1> QED BY <1>1, <1>2, <1>3, <1>4, <1>5, <1>6, <1>7, OtherSteps

\* The types of all the state: what runtime.State, dhnsChanging's locals and
\* the router can hold.
THEOREM TypeCorrect == Spec => []TypeOK
<1> DEFINE Inv == Control /\ LeaseInv /\ WaiterInv /\ RouterOK /\ SnapOK
<1>1. Init => Inv
  <2> SUFFICES ASSUME Init PROVE Inv
    OBVIOUS
  <2>1. Control
    BY DEF Init, Control, SingleWorker, Active, PC
  <2>2. LeaseInv
    BY LeaseInit
  <2>3. WaiterInv
    BY RecoveryAssumption DEF Init, WaiterInv, WaiterAlive
  <2>4. RouterOK
    BY RecoveryAssumption DEF Init, RouterOK
  <2>5. SnapOK
    BY DEF Init, SnapOK, Snap, NoSnap, WanSec, NoDecision, IfaceDecision
  <2> QED BY <2>1, <2>2, <2>3, <2>4, <2>5
<1>2. Inv /\ [Next]_vars => Inv'
  BY ControlInductive, LeaseInductive, WaiterInductive, RouterInductive, SnapInductive
<1>3. Inv => TypeOK
  BY DEF Control, LeaseInv, Locals, WaiterInv, RouterOK, SnapOK, TypeOK
<1> HIDE DEF Inv
<1> QED BY <1>1, <1>2, <1>3, PTL DEF Spec

-----------------------------------------------------------------------------
(* At rest *)

\* Another pass for an interface event is still to load the configuration.
Owed == hotplug \/ ifaceChange \/ \E w \in Workers : pc[w] = "load" /\ pend[w].iface

\* The last such pass read everything and nothing has happened since that asks
\* for another one.
Fresh == seen = "read" /\ ~Owed

OwnWay == lanNeedsDHNS(CollectLan(lan))
WantedOff == CollectLan(lan) # NoSec /\ (IsUp(wan) \/ OwnWay)
Clash ==
  /\ CollectLan(lan) # NoSec /\ IsUp(wan) /\ ~OwnWay
  /\ Overlaps(wan.net, CollectLan(lan).net)
  /\ NoConflictIP(wan.net, CollectLan(lan).net) # NoIP

\* A snapshot agrees with the configuration as it is now.
SameConf(s) ==
  /\ CollectLan(lan) # NoSec
  /\ lanNeedsDHNS(s.lan) = OwnWay /\ s.lan.net = CollectLan(lan).net
  /\ IsUp(wan) => s.wan # NoSec /\ s.wan.net = wan.net

Planning == {"stop", "links", "helper"}
Asking == {"start", "run"}

\* A pass that has loaded: what it loaded is as it was, unless a change came since.
LoadedOK(w) ==
  pc[w] = "status" /\ pend[w].iface =>
    /\ seen # "read"
    /\ seen = "loaded" => SameConf(snap[w])
    /\ planb = "up" => snap[w].planb # NoSec

\* A pass that has decided: its plan is the right one for the network as it is.
PlannedOK(w) ==
  Fresh /\ WantedOff =>
    /\ pc[w] = "stop" => plan[w].stopUdhcpc
    /\ pc[w] \in {"stop", "links"} /\ planb = "up" => plan[w].ifdownPlanB \/ plan[w].ifdownPlanBAndIfupLAN
    /\ pc[w] \in Planning =>
         /\ ~plan[w].startUdhcpc /\ SameConf(snap[w])
         /\ IsUp(wan) /\ ~OwnWay => plan[w].checkWANLANConflict
    /\ pc[w] \notin Asking

\* What is not as it should be is still to be done by the pass that is under way.
StillToDo ==
  Fresh =>
    /\ WantedOff /\ planb = "up" => \E w \in Workers : pc[w] \in {"stop", "links"}
    /\ WantedOff /\ udhcpc = "running" => \E w \in Workers : pc[w] = "stop"
    /\ Clash => \E w \in Workers : pc[w] \in Planning

RestInv == StillToDo /\ \A w \in Workers : LoadedOK(w) /\ PlannedOK(w)

\* Steps that are no worker's, and change neither the configuration nor plan B.
LEMMA RestOutside ==
  ASSUME RestInv, UNCHANGED <<pend, snap, plan, wan, lan, planb, seen>>, Owed => Owed',
         udhcpc' = "running" => udhcpc = "running",
         \A w \in Workers : pc'[w] = pc[w] \/ (pc[w] = "idle" /\ pc'[w] = "sleep")
  PROVE  RestInv'
<1>1. Fresh' => Fresh
  BY DEF Fresh
<1>2. WantedOff' = WantedOff /\ Clash' = Clash /\ OwnWay' = OwnWay
  BY DEF WantedOff, Clash, OwnWay
<1>3. ASSUME NEW w \in Workers PROVE SameConf(snap[w])' = SameConf(snap[w])
  BY <1>2 DEF SameConf
<1>4. StillToDo'
  BY <1>1, <1>2 DEF StillToDo, RestInv, Planning
<1>5. ASSUME NEW w \in Workers PROVE LoadedOK(w)'
  BY <1>3 DEF LoadedOK, RestInv
<1>6. ASSUME NEW w \in Workers PROVE PlannedOK(w)'
  BY <1>1, <1>2, <1>3 DEF PlannedOK, RestInv, Planning, Asking
<1> QED BY <1>4, <1>5, <1>6 DEF RestInv

\* While a worker runs, the others are idle before and after its step.
OnlyOne(w) == \A v \in Workers \ {w} : pc[v] = "idle" /\ pc'[v] = "idle"

LEMMA RestOfOne ==
  ASSUME NEW w \in Workers, OnlyOne(w), StillToDo', LoadedOK(w)', PlannedOK(w)'
  PROVE  RestInv'
<1>1. ASSUME NEW v \in Workers \ {w} PROVE LoadedOK(v)' /\ PlannedOK(v)'
  BY <1>1 DEF OnlyOne, LoadedOK, PlannedOK, Planning, Asking
<1> QED BY <1>1 DEF RestInv

\* Steps of a pass outside the decision: they leave the configuration, and what
\* they switch on they report.
LEMMA RestQuiet ==
  ASSUME NEW w \in Workers, RestInv, OnlyOne(w),
         UNCHANGED <<wan, lan, seen>>, Owed => Owed',
         planb' = "up" => planb = "up" \/ Owed',
         udhcpc' = "running" => udhcpc = "running",
         pc[w] \notin Planning, pc'[w] \notin Planning \union Asking,
         pc'[w] = "status" => ~pend'[w].iface
  PROVE  RestInv'
<1>1. Fresh' => Fresh
  BY DEF Fresh
<1>2. WantedOff' = WantedOff /\ Clash' = Clash
  BY DEF WantedOff, Clash, OwnWay
<1>3. \A v \in Workers : pc[v] \notin Planning
  BY DEF OnlyOne, Planning
<1>4. Fresh => ~(WantedOff /\ planb = "up") /\ ~(WantedOff /\ udhcpc = "running") /\ ~Clash
  BY <1>3 DEF RestInv, StillToDo, Planning
<1>5. Fresh' => ~(WantedOff' /\ planb' = "up") /\ ~(WantedOff' /\ udhcpc' = "running") /\ ~Clash'
  BY <1>1, <1>2, <1>4 DEF Fresh
<1>6. StillToDo'
  BY <1>5 DEF StillToDo
<1>7. LoadedOK(w)'
  BY DEF LoadedOK
<1>8. PlannedOK(w)'
  BY DEF PlannedOK, Planning, Asking
<1> QED BY <1>6, <1>7, <1>8, RestOfOne

\* What PlanIfaceChange decides when plan B is not wanted.
LEMMA DecisionRight ==
  ASSUME NEW l, NEW v, NEW p, NEW ok, IsUp(v) \/ lanNeedsDHNS(l)
  PROVE  LET d == PlanIfaceChange(l, v, p, ok)
         IN  /\ d.stopUdhcpc = TRUE /\ d.startUdhcpc = FALSE
             /\ IsUp(v) /\ ~lanNeedsDHNS(l) => d.checkWANLANConflict = TRUE
             /\ p # NoSec /\ IsUp(p) => d.ifdownPlanB \/ d.ifdownPlanBAndIfupLAN
<1>1. CASE IsUp(v)
  BY <1>1 DEF PlanIfaceChange, NoDecision
<1>2. CASE ~IsUp(v)
  BY <1>2 DEF PlanIfaceChange, NoDecision
<1> QED BY <1>1, <1>2

\* Load.
LEMMA RestLoad ==
  ASSUME NEW w \in Workers, RestInv, OnlyOne(w), Load(w), Control, LeaseInv, RouterOK, SnapOK
  PROVE  RestInv'
<1>0. /\ pc[w] = "load" /\ UNCHANGED <<wan, lan, planb, udhcpc, hotplug, ifaceChange>>
  BY DEF Load, stateVars
<1>1. CASE ~pend[w].iface
  <2>1. seen' = seen
    BY <1>1 DEF Load
  <2>2. Owed => Owed'
    BY <1>0, <1>1 DEF Owed, OnlyOne
  <2>3. pc'[w] \in {"drain", "status"}
    BY DEF Load, Continue, Control
  <2>4. pc'[w] = "status" => ~pend'[w].iface
    BY <1>1 DEF Load, Continue, Control
  <2> QED BY <1>0, <2>1, <2>2, <2>3, <2>4, RestQuiet DEF Planning, Asking
<1>2. CASE pend[w].iface
  <2>1. seen' = "loaded"
    BY <1>2 DEF Load
  <2>2. ~Fresh'
    BY <2>1 DEF Fresh
  <2>3. StillToDo' /\ PlannedOK(w)'
    BY <2>2 DEF StillToDo, PlannedOK
  <2>4. LoadedOK(w)'
    <3>1. CASE CollectLan(lan) = NoSec
      <4>1. pc'[w] = "drain"
        BY <3>1 DEF Load, Continue, Control
      <4> QED BY <4>1 DEF LoadedOK
    <3>2. CASE CollectLan(lan) # NoSec
      <4> DEFINE s == [lan |-> CollectLan(lan),
                       wan |-> IF wan = NoSec THEN NoSec ELSE [wan EXCEPT !.up = FALSE],
                       planb |-> IF planb = "absent" THEN NoSec ELSE [up |-> FALSE]]
      <4>1. snap' = [snap EXCEPT ![w] = s]
        BY <3>2, Zenon DEF Load
      <4>2. OwnWay' = OwnWay /\ CollectLan(lan)' = CollectLan(lan)
        BY <1>0 DEF OwnWay
      <4>3. snap'[w] = s
        BY <4>1 DEF SnapOK
      <4>4. IsUp(wan) => s.wan # NoSec /\ s.wan.net = wan.net
        BY RecoveryAssumption DEF IsUp, WanSec, RouterOK
      <4>5. lanNeedsDHNS(s.lan) = OwnWay /\ s.lan.net = CollectLan(lan).net
        BY DEF OwnWay
      <4>6. planb = "up" => s.planb # NoSec
        <5>1. [up |-> FALSE] \in [up : BOOLEAN]
          OBVIOUS
        <5>2. planb = "up" => s.planb = [up |-> FALSE]
          OBVIOUS
        <5> QED BY <5>1, <5>2, RecoveryAssumption
      <4> HIDE DEF s
      <4>7. SameConf(snap[w])'
        BY <1>0, <3>2, <4>2, <4>3, <4>4, <4>5 DEF SameConf
      <4> QED BY <1>0, <2>1, <4>3, <4>6, <4>7 DEF LoadedOK
    <3> QED BY <3>1, <3>2
  <2> QED BY <2>3, <2>4, RestOfOne
<1> QED BY <1>1, <1>2

\* What a pass reads when everything answers is what there is.
LEMMA StatusRight ==
  ASSUME NEW s \in Snap, s.lan # NoSec, SameConf(s), planb = "up" => s.planb # NoSec, RouterOK
  PROVE  LET r == getIfaceStatus(s, {"lan", "wan", "planb"})
         IN  /\ SameConf(r)
             /\ IsUp(r.wan) = IsUp(wan)
             /\ planb = "up" => r.planb # NoSec /\ IsUp(r.planb)
<1> DEFINE r == getIfaceStatus(s, {"lan", "wan", "planb"})
<1>1. /\ r.lan = [s.lan EXCEPT !.up = lanUp]
      /\ r.wan = IF s.wan = NoSec THEN NoSec ELSE [s.wan EXCEPT !.up = IsUp(wan)]
      /\ r.planb = IF s.planb = NoSec THEN NoSec ELSE [up |-> planb = "up"]
  BY DEF getIfaceStatus, RouterOK, IsUp
<1> HIDE DEF r
<1>2. s.lan \in LanSec /\ s.wan \in WanSec
  BY DEF Snap
<1>3. r.lan.proto = s.lan.proto /\ r.lan.gateway = s.lan.gateway /\ r.lan.net = s.lan.net
  BY <1>1, <1>2 DEF LanSec
<1>4. lanNeedsDHNS(r.lan) = lanNeedsDHNS(s.lan)
  BY <1>3 DEF lanNeedsDHNS
<1>5. IsUp(wan) \in BOOLEAN
  BY DEF IsUp, RouterOK, WanSec
<1>6. s.wan # NoSec => r.wan \in [net : WanNets, up : BOOLEAN] /\ r.wan.net = s.wan.net /\ r.wan.up = IsUp(wan)
  BY <1>1, <1>2, <1>5 DEF WanSec
<1>7. s.wan # NoSec => r.wan # NoSec
  BY <1>6, RecoveryAssumption
<1>8. IsUp(r.wan) = IsUp(wan)
  <2>1. CASE s.wan = NoSec
    BY <2>1, <1>1 DEF IsUp, SameConf
  <2>2. CASE s.wan # NoSec
    BY <2>2, <1>5, <1>6, <1>7 DEF IsUp
  <2> QED BY <2>1, <2>2
<1>9. SameConf(r)
  BY <1>3, <1>4, <1>6, <1>7 DEF SameConf
<1>10. planb = "up" => r.planb # NoSec /\ IsUp(r.planb)
  <2> SUFFICES ASSUME planb = "up" PROVE r.planb # NoSec /\ IsUp(r.planb)
    OBVIOUS
  <2>1. r.planb = [up |-> TRUE]
    BY <1>1
  <2>2. [up |-> TRUE] \in [up : BOOLEAN]
    OBVIOUS
  <2>3. r.planb # NoSec /\ r.planb.up = TRUE
    BY <2>1, <2>2, RecoveryAssumption
  <2> QED BY <2>3 DEF IsUp
<1> QED BY <1>8, <1>9, <1>10 DEF r

\* Status.
LEMMA RestStatus ==
  ASSUME NEW w \in Workers, RestInv, OnlyOne(w), Status(w), Control, LeaseInv, RouterOK, SnapOK
  PROVE  RestInv'
<1>0. pc[w] = "status" /\ UNCHANGED <<wan, lan, planb, udhcpc, hotplug, ifaceChange, pend>>
  BY DEF Status, stateVars
<1>1. CASE ~pend[w].iface
  <2>1. seen' = seen /\ pc'[w] = "dhcp"
    BY <1>1 DEF Status, Control
  <2>2. Owed => Owed'
    BY <1>0 DEF Owed, OnlyOne
  <2> QED BY <1>0, <2>1, <2>2, RestQuiet DEF Planning, Asking
<1>2. CASE pend[w].iface
  <2>1. PICK answered \in SUBSET {"lan", "wan", "planb"}, netOK \in BOOLEAN :
          LET s == getIfaceStatus(snap[w], answered)
              all == answered = {"lan", "wan", "planb"}
          IN  /\ snap' = [snap EXCEPT ![w] = s]
              /\ plan' = [plan EXCEPT ![w] = Decide(s, netOK)]
              /\ pc' = [pc EXCEPT ![w] = "stop"]
              /\ seen' = IF seen = "loaded" /\ all THEN "read" ELSE seen
    BY <1>2 DEF Status
  <2> DEFINE s == getIfaceStatus(snap[w], answered)
  <2>2. /\ snap'[w] = s /\ plan'[w] = Decide(s, netOK) /\ pc'[w] = "stop"
    BY <2>1 DEF SnapOK, Control
  <2>3. seen # "read" /\ LoadedOK(w)
    BY <1>0, <1>2 DEF RestInv, LoadedOK
  <2>4. seen' = "read" => seen = "loaded" /\ answered = {"lan", "wan", "planb"}
    BY <2>1, <2>3
  <2>5. StillToDo'
    BY <2>2 DEF StillToDo, Planning
  <2>6. LoadedOK(w)'
    BY <2>2 DEF LoadedOK
  <2> DEFINE Right == /\ plan'[w].stopUdhcpc = TRUE /\ plan'[w].startUdhcpc = FALSE
                      /\ planb = "up" => plan'[w].ifdownPlanB \/ plan'[w].ifdownPlanBAndIfupLAN
                      /\ IsUp(wan) /\ ~OwnWay => plan'[w].checkWANLANConflict
                      /\ SameConf(snap'[w])
  <2>7. Fresh' /\ WantedOff' => Right
    <3> SUFFICES ASSUME Fresh', WantedOff' PROVE Right
      OBVIOUS
    <3>1. seen = "loaded" /\ answered = {"lan", "wan", "planb"}
      BY <2>4 DEF Fresh
    <3>2. SameConf(snap[w]) /\ (planb = "up" => snap[w].planb # NoSec)
      BY <1>0, <1>2, <2>3, <3>1 DEF LoadedOK
    <3>3. snap[w] \in Snap /\ snap[w].lan # NoSec
      BY <1>0 DEF SnapOK
    <3>4. /\ SameConf(s) /\ IsUp(s.wan) = IsUp(wan)
          /\ planb = "up" => s.planb # NoSec /\ IsUp(s.planb)
      BY <3>1, <3>2, <3>3, StatusRight
    <3> HIDE DEF s
    <3>5. IsUp(wan) \/ OwnWay
      BY <1>0 DEF WantedOff, OwnWay
    <3>6. IsUp(s.wan) \/ lanNeedsDHNS(s.lan)
      BY <3>4, <3>5 DEF SameConf
    <3> DEFINE ok == ~IsUp(s.wan) /\ ~lanNeedsDHNS(s.lan) /\ netOK
               d == PlanIfaceChange(s.lan, s.wan, s.planb, ok)
    <3>7. plan'[w] = d
      BY <2>2 DEF Decide
    <3> HIDE DEF ok
    <3>8. /\ d.stopUdhcpc = TRUE /\ d.startUdhcpc = FALSE
          /\ IsUp(s.wan) /\ ~lanNeedsDHNS(s.lan) => d.checkWANLANConflict = TRUE
          /\ s.planb # NoSec /\ IsUp(s.planb) => d.ifdownPlanB \/ d.ifdownPlanBAndIfupLAN
      BY <3>6, DecisionRight, Zenon
    <3> HIDE DEF d
    <3> QED BY <2>2, <3>4, <3>7, <3>8 DEF SameConf
  <2>8. PlannedOK(w)'
    <3>1. SameConf(snap'[w]) => SameConf(snap[w])'
      BY <1>0 DEF SameConf, OwnWay
    <3>2. OwnWay' = OwnWay
      BY <1>0 DEF OwnWay
    <3> HIDE DEF s
    <3>3. IsUp(wan)' = IsUp(wan) /\ planb' = planb
      BY <1>0 DEF IsUp
    <3>4. Right => /\ plan'[w].stopUdhcpc /\ ~plan'[w].startUdhcpc
                   /\ planb' = "up" => plan'[w].ifdownPlanB \/ plan'[w].ifdownPlanBAndIfupLAN
                   /\ IsUp(wan)' /\ ~OwnWay' => plan'[w].checkWANLANConflict
                   /\ SameConf(snap[w])'
      BY <3>1, <3>2, <3>3
    <3> HIDE DEF Right
    <3> QED BY <2>2, <2>7, <3>4 DEF PlannedOK, Planning, Asking
  <2> QED BY <2>5, <2>6, <2>8, RestOfOne
<1> QED BY <1>1, <1>2

\* Stop: udhcpc is off when it is to be.
LEMMA RestStop ==
  ASSUME NEW w \in Workers, RestInv, OnlyOne(w), Stop(w), Control
  PROVE  RestInv'
<1>1. /\ pc[w] = "stop" /\ pc'[w] = "links"
      /\ UNCHANGED <<wan, lan, planb, seen, hotplug, ifaceChange, pend, plan, snap>>
      /\ plan[w].stopUdhcpc => udhcpc' = "none"
  BY DEF Stop, Goto, Control, stopUdhcpc
<1>2. Fresh' => Fresh
  BY <1>1 DEF Fresh, Owed, OnlyOne
<1>3. WantedOff' = WantedOff /\ Clash' = Clash /\ OwnWay' = OwnWay /\ SameConf(snap[w])' = SameConf(snap[w])
  BY <1>1 DEF WantedOff, Clash, OwnWay, SameConf
<1>4. PlannedOK(w)
  BY DEF RestInv
<1>5. PlannedOK(w)'
  BY <1>1, <1>2, <1>3, <1>4 DEF PlannedOK, Planning, Asking
<1>6. Fresh' /\ WantedOff' => udhcpc' # "running"
  BY <1>1, <1>2, <1>3, <1>4 DEF PlannedOK
<1>7. StillToDo'
  BY <1>1, <1>6 DEF StillToDo, Planning
<1>8. LoadedOK(w)'
  BY <1>1 DEF LoadedOK
<1> QED BY <1>5, <1>7, <1>8, RestOfOne

\* Links: plan B is down when it is to be.
LEMMA RestLinks ==
  ASSUME NEW w \in Workers, RestInv, OnlyOne(w), Links(w), Control
  PROVE  RestInv'
<1>1. /\ pc[w] = "links" /\ pc'[w] = "helper"
      /\ UNCHANGED <<wan, lan, seen, ifaceChange, pend, plan, snap, udhcpc>>
      /\ hotplug => hotplug'
      /\ plan[w].ifdownPlanB \/ plan[w].ifdownPlanBAndIfupLAN => planb' # "up"
      /\ planb' = "up" => planb = "up"
  BY DEF Links, Goto, Control, stateVars
<1>2. Fresh' => Fresh
  BY <1>1 DEF Fresh, Owed, OnlyOne
<1>3. WantedOff' = WantedOff /\ Clash' = Clash /\ OwnWay' = OwnWay /\ SameConf(snap[w])' = SameConf(snap[w])
  BY <1>1 DEF WantedOff, Clash, OwnWay, SameConf
<1>4. PlannedOK(w)
  BY DEF RestInv
<1>5. PlannedOK(w)'
  BY <1>1, <1>2, <1>3, <1>4 DEF PlannedOK, Planning, Asking
<1>6. Fresh' /\ WantedOff' => planb' # "up"
  BY <1>1, <1>2, <1>3, <1>4 DEF PlannedOK
<1>7. Fresh' /\ WantedOff' => udhcpc' # "running"
  <2>1. Fresh /\ WantedOff => udhcpc # "running"
    BY <1>1 DEF RestInv, StillToDo, OnlyOne
  <2> QED BY <2>1, <1>1, <1>2, <1>3
<1>8. StillToDo'
  BY <1>1, <1>6, <1>7 DEF StillToDo, Planning
<1>9. LoadedOK(w)'
  BY <1>1 DEF LoadedOK
<1> QED BY <1>5, <1>8, <1>9, RestOfOne

\* Helper: the LAN's address is edited when it clashes, and that is reported.
LEMMA RestHelper ==
  ASSUME NEW w \in Workers, RestInv, OnlyOne(w), Helper(w), Control
  PROVE  RestInv'
<1>1. pc[w] = "helper" /\ UNCHANGED <<wan, seen, ifaceChange, planb, udhcpc>>
  BY DEF Helper, stateVars
<1>2. pc'[w] = IF plan[w].startUdhcpc THEN "start" ELSE "drain"
  BY DEF Helper, Goto, Continue, Control
<1>3. hotplug => hotplug'
  BY DEF Helper, setupStaticIPInOtherNS
<1>4. lan' # lan => hotplug'
  BY DEF Helper
<1>5. plan[w].checkWANLANConflict /\ ~lanNeedsDHNS(snap[w].lan)
      /\ Overlaps(snap[w].wan.net, snap[w].lan.net)
      /\ NoConflictIP(snap[w].wan.net, snap[w].lan.net) # NoIP => hotplug'
  <2> DEFINE p(d) == PlanWANLANConflict(snap[w].wan.net, snap[w].lan, d)
  <2>1. ~lanNeedsDHNS(snap[w].lan) /\ Overlaps(snap[w].wan.net, snap[w].lan.net)
          => \A d : p(d).newIP = NoConflictIP(snap[w].wan.net, snap[w].lan.net)
    BY DEF PlanWANLANConflict
  <2>2. plan[w].checkWANLANConflict => \E d \in BOOLEAN : p(d).newIP # NoIP => hotplug'
    BY DEF Helper
  <2> HIDE DEF p
  <2> QED BY <2>1, <2>2
<1>6. Fresh' => Fresh /\ lan' = lan
  BY <1>1, <1>3, <1>4 DEF Fresh, Owed, OnlyOne
<1>7. Fresh' => WantedOff' = WantedOff /\ Clash' = Clash
  BY <1>1, <1>6 DEF WantedOff, Clash, OwnWay
<1>8. Fresh /\ WantedOff => planb # "up" /\ udhcpc # "running"
  BY <1>1 DEF RestInv, StillToDo, OnlyOne
<1>9. Fresh /\ WantedOff => /\ ~plan[w].startUdhcpc /\ SameConf(snap[w])
                            /\ IsUp(wan) /\ ~OwnWay => plan[w].checkWANLANConflict
  BY <1>1 DEF RestInv, PlannedOK, Planning
<1>10. Fresh' => ~Clash
  <2>1. Clash => WantedOff
    BY DEF Clash, WantedOff
  <2>2. Fresh /\ Clash => hotplug'
    BY <1>5, <1>9, <2>1 DEF Clash, SameConf
  <2> QED BY <1>6, <2>2 DEF Fresh, Owed
<1>11. StillToDo'
  BY <1>1, <1>6, <1>7, <1>8, <1>10 DEF StillToDo
<1>12. PlannedOK(w)'
  <2>1. Fresh' /\ WantedOff' => pc'[w] = "drain"
    BY <1>2, <1>6, <1>7, <1>9
  <2> QED BY <2>1 DEF PlannedOK, Planning, Asking
<1>13. LoadedOK(w)'
  BY <1>2 DEF LoadedOK
<1> QED BY <1>11, <1>12, <1>13, RestOfOne

\* Start and Run are only reached when udhcpc may run.
LEMMA RestAsk ==
  ASSUME NEW w \in Workers, RestInv, OnlyOne(w), Start(w) \/ Run(w), Control
  PROVE  RestInv'
<1>1. pc[w] \in Asking /\ UNCHANGED <<wan, lan, seen, ifaceChange, hotplug, planb>>
  BY DEF Start, Run, stateVars, Asking
<1>2. pc'[w] \in {"run", "dhcp", "drain"}
  BY DEF Start, Run, AfterStart, Goto, Continue, Control
<1>3. Fresh' => Fresh
  BY <1>1 DEF Fresh, Owed, OnlyOne, Asking
<1>4. WantedOff' = WantedOff /\ (Clash' => WantedOff)
  BY <1>1 DEF WantedOff, Clash, OwnWay
<1>5. Fresh => ~WantedOff
  BY <1>1 DEF RestInv, PlannedOK
<1>6. StillToDo' /\ PlannedOK(w)'
  BY <1>3, <1>4, <1>5 DEF StillToDo, PlannedOK
<1>7. LoadedOK(w)'
  BY <1>2 DEF LoadedOK
<1> QED BY <1>6, <1>7, RestOfOne

\* The steps of a pass outside the decision.
LEMMA RestOthers ==
  ASSUME NEW w \in Workers, RestInv, OnlyOne(w), Control, LeaseInv,
         \/ Sleep(w) \/ Drain(w) \/ Finish(w) \/ Probe(w) \/ Dhcp(w) \/ Check(w) \/ PlanB(w)
  PROVE  RestInv'
<1> USE DEF Planning, Asking
<1>1. UNCHANGED <<wan, lan, seen>>
  BY DEF Sleep, Drain, Finish, Probe, Dhcp, Check, PlanB, routerVars
<1>2. /\ pc[w] \in {"sleep", "drain", "finish", "probe", "dhcp", "check", "planb"}
      /\ pc'[w] \in {"drain", "load", "probe", "finish", "idle", "check", "planb"}
  <2>1. CASE Sleep(w) \/ Probe(w)
    BY <2>1 DEF Sleep, Probe, Goto, Continue, Control
  <2>2. CASE Drain(w) \/ Finish(w)
    BY <2>2 DEF Drain, Finish, Control
  <2>3. CASE Dhcp(w) \/ Check(w) \/ PlanB(w)
    BY <2>3 DEF Dhcp, Check, PlanB, Goto, Continue, Control
  <2> QED BY <2>1, <2>2, <2>3
<1>3. hotplug => hotplug'
  BY DEF Sleep, Drain, Finish, Probe, Dhcp, Check, PlanB, routerVars
<1>4. ifaceChange => ifaceChange' \/ (pc'[w] = "load" /\ pend'[w].iface)
  <2>1. CASE Drain(w)
    <3>1. pc' = [pc EXCEPT ![w] = IF ifaceChange THEN "load" ELSE IF dhcpChange THEN "probe" ELSE "finish"]
          /\ pend' = [pend EXCEPT ![w] = [iface |-> ifaceChange, dhcp |-> dhcpChange, lease |-> lastDHCP]]
      BY <2>1 DEF Drain
    <3> QED BY <3>1 DEF Control, LeaseInv, Locals
  <2>2. CASE ~Drain(w)
    BY <2>2 DEF Sleep, Finish, Probe, Dhcp, Check, PlanB, stateVars
  <2> QED BY <2>1, <2>2
<1>5. \A v \in Workers : ~(pc[v] = "load")
  BY <1>2 DEF OnlyOne
<1>6. Owed => Owed'
  BY <1>3, <1>4, <1>5 DEF Owed
<1>7. planb' = "up" => planb = "up" \/ hotplug'
  <2>1. CASE Sleep(w) \/ Drain(w) \/ Finish(w) \/ Probe(w) \/ Check(w)
    BY <2>1 DEF Sleep, Drain, Finish, Probe, Check, routerVars
  <2>2. CASE Dhcp(w)
    BY <2>2 DEF Dhcp
  <2>3. CASE PlanB(w)
    BY <2>3 DEF PlanB
  <2> QED BY <2>1, <2>2, <2>3
<1>8. udhcpc' = "running" => udhcpc = "running"
  <2>1. CASE Sleep(w) \/ Drain(w) \/ Finish(w) \/ Probe(w) \/ Dhcp(w)
    BY <2>1 DEF Sleep, Drain, Finish, Probe, Dhcp, routerVars
  <2>2. CASE Check(w) \/ PlanB(w)
    BY <2>2 DEF Check, PlanB, stopUdhcpc
  <2> QED BY <2>1, <2>2
<1>9. planb' = "up" => planb = "up" \/ Owed'
  BY <1>7 DEF Owed
<1> QED BY <1>1, <1>2, <1>6, <1>8, <1>9, RestQuiet

\* Every step keeps what is still to do with those who will do it.
LEMMA RestInductive ==
  ASSUME Control, LeaseInv, RouterOK, SnapOK, RestInv, [Next]_vars
  PROVE  RestInv'
<1>1. ASSUME NEW w \in Workers, Worker(w) PROVE RestInv'
  <2>1. OnlyOne(w)
    <3>1. Active(w) /\ \A v \in Workers \ {w} : pc[v] = "idle"
      BY <1>1, WorkerStaysActive DEF Control, SingleWorker, Active
    <3>2. \A v \in Workers \ {w} : pc'[v] = pc[v]
      BY <1>1, WorkerStaysActive DEF Control, Finish
    <3> QED BY <3>1, <3>2 DEF OnlyOne
  <2> QED BY <1>1, <2>1, RestOthers, RestLoad, RestStatus, RestStop, RestLinks, RestHelper, RestAsk DEF Worker
<1>2. ASSUME ensureRunning
      PROVE  \A w \in Workers : pc'[w] = pc[w] \/ (pc[w] = "idle" /\ pc'[w] = "sleep")
  BY <1>2 DEF ensureRunning, Control
<1>3. ASSUME sentIfaceEvent, UNCHANGED <<wan, lan, planb, seen, udhcpc>> PROVE RestInv'
  <2>1. Owed'
    BY <1>3 DEF sentIfaceEvent, Owed
  <2> QED BY <1>2, <1>3, <2>1, RestOutside DEF sentIfaceEvent
<1>4. CASE IfaceEvent \/ UciEvent
  BY <1>3, <1>4 DEF IfaceEvent, UciEvent
<1>5. ASSUME NEW q \in Waiters, TimeoutEvent(q) PROVE RestInv'
  BY <1>3, <1>5 DEF TimeoutEvent, routerVars
<1>6. CASE HandleDhcpValid
  <2>1. /\ ensureRunning /\ UNCHANGED <<pend, snap, plan, wan, lan, planb, seen, udhcpc, hotplug, ifaceChange>>
    BY <1>6 DEF HandleDhcpValid
  <2>2. Owed => Owed'
    BY <1>2, <2>1 DEF Owed
  <2> QED BY <1>2, <2>1, <2>2, RestOutside
<1>7. ASSUME UNCHANGED <<pc, pend, snap, plan, wan, lan, planb, seen, ifaceChange>>, hotplug => hotplug',
             udhcpc' = "running" => udhcpc = "running"
      PROVE  RestInv'
  <2>1. Owed => Owed'
    BY <1>7 DEF Owed
  <2> QED BY <1>7, <2>1, RestOutside
<1>8. ASSUME NEW q \in Waiters,
             Notify(q) \/ GotDhcpEvent(q) \/ DhcpTimeout(q) \/ ClearDHCPWaiter(q)
      PROVE  RestInv'
  <2>1. UNCHANGED <<pc, pend, snap, plan, wan, lan, planb, seen, ifaceChange, hotplug, udhcpc>>
    BY <1>8 DEF Notify, GotDhcpEvent, DhcpTimeout, ClearDHCPWaiter, stateVars, workerVars, routerVars
  <2> QED BY <1>7, <2>1
<1>9. CASE LanCheck \/ ProcessChange \/ UNCHANGED vars
  <2>1. UNCHANGED <<pc, pend, snap, plan, wan, lan, planb, seen, ifaceChange>>
    BY <1>9 DEF LanCheck, ProcessChange, vars, stateVars, workerVars, routerVars
  <2>2. hotplug => hotplug'
    BY <1>9 DEF LanCheck, ProcessChange, vars, routerVars
  <2>3. udhcpc' = "running" => udhcpc = "running"
    BY <1>9 DEF LanCheck, ProcessChange, vars, routerVars
  <2> QED BY <1>7, <2>1, <2>2, <2>3
<1>10. CASE InterfaceChange
  <2>1. /\ seen' = "stale" /\ UNCHANGED <<pc, pend, snap, plan>> /\ (planb' = "up" => planb = "up")
    BY <1>10 DEF InterfaceChange, workerVars
  <2>2. ~Fresh'
    BY <2>1 DEF Fresh
  <2>3. StillToDo' /\ \A w \in Workers : PlannedOK(w)'
    BY <2>2 DEF StillToDo, PlannedOK
  <2>4. ASSUME NEW w \in Workers PROVE LoadedOK(w)'
    BY <2>1 DEF LoadedOK, RestInv
  <2> QED BY <2>3, <2>4 DEF RestInv
<1> QED BY <1>1, <1>4, <1>5, <1>6, <1>8, <1>9, <1>10, OtherSteps

\* Whatever the order of changes, reports, leases, timeouts and passes: when
\* nothing is on its way and the last pass for an interface event could read
\* everything, plan B and udhcpc are off unless they are called for, and the WAN
\* and a plain LAN are apart if a spare address allows it.
THEOREM RestIsReached == Spec => []RestGoal
<1> DEFINE Inv == Control /\ LeaseInv /\ RouterOK /\ SnapOK /\ RestInv
<1>1. Init => Inv
  <2> SUFFICES ASSUME Init PROVE Inv
    OBVIOUS
  <2>1. Control
    BY DEF Init, Control, SingleWorker, Active, PC
  <2>2. LeaseInv
    BY LeaseInit
  <2>3. RouterOK
    BY RecoveryAssumption DEF Init, RouterOK
  <2>4. SnapOK
    BY DEF Init, SnapOK, Snap, NoSnap, WanSec, NoDecision, IfaceDecision
  <2>5. ~Fresh /\ \A w \in Workers : pc[w] = "idle"
    BY DEF Init, Fresh
  <2>6. RestInv
    BY <2>5 DEF RestInv, StillToDo, LoadedOK, PlannedOK
  <2> QED BY <2>1, <2>2, <2>3, <2>4, <2>6
<1>2. Inv /\ [Next]_vars => Inv'
  BY ControlInductive, LeaseInductive, RouterInductive, SnapInductive, RestInductive
<1>3. Inv => RestGoal
  <2> SUFFICES ASSUME Inv, Quiescent, seen = "read" PROVE RestGoal
    BY DEF RestGoal, RecoveryGoal, AddressGoal
  <2>1. \A w \in Workers : pc[w] = "idle"
    BY DEF Quiescent, Control, SingleWorker, Active
  <2>2. Fresh
    BY <2>1 DEF Fresh, Owed, Quiescent
  <2>3. ~(WantedOff /\ planb = "up") /\ ~(WantedOff /\ udhcpc = "running") /\ ~Clash
    BY <2>1, <2>2 DEF RestInv, StillToDo, Planning
  <2> QED BY <2>3 DEF RestGoal, RecoveryGoal, AddressGoal, WantedOff, Clash, OwnWay
<1> HIDE DEF Inv
<1> QED BY <1>1, <1>2, <1>3, PTL DEF Spec
=============================================================================
