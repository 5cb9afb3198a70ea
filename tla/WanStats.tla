------------------------------- MODULE WanStats -------------------------------
(***************************************************************************)
(* The WAN traffic sampler: one goroutine that samples the outbound device *)
(* every wanStatTimeTick while somebody asks, stops by itself when nobody  *)
(* has asked for a while, and keeps the last few samples for the page.     *)
(*                                                                         *)
(*   backend/service/wan_stats.go  run, runOnce, fetchItems, GetItems      *)
(*                                                                         *)
(* lastRunningTime is kept as its age, idle.  The duration an average is   *)
(* taken over is left out: it is at least one millisecond by construction. *)
(***************************************************************************)
EXTENDS Naturals, Sequences

CONSTANTS Callers,    \* goroutines that call GetItems
          Devs,       \* network devices
          TickSec,    \* wanStatTimeTick (5 s)
          StopTicks,  \* ticks without a request after which to stop (10)
          Slots,      \* samples kept (12)
          MaxFetch,   \* bound on the seconds a fetch takes
          MaxBytes,   \* bound on the byte counters
          MaxResets,  \* bound on resets of the counters
          NoDev, NoCaller

ASSUME StatsAssumption ==
  /\ TickSec \in Nat \ {0} /\ StopTicks \in Nat /\ Slots \in Nat \ {0}
  /\ MaxFetch \in Nat /\ MaxBytes \in Nat /\ MaxResets \in Nat
  /\ NoDev \notin Devs /\ NoCaller \notin Callers

VARIABLES
  tm,          \* the timer: seconds left, 0 when it has fired, or Off
  isRunning, idle, lastItem, items,  \* WanStats
  fetchStatCh, \* channel of size 1: the caller whose request it holds
  pc,          \* the goroutine: in its select, or in fetchItems for a caller
               \* or (NoCaller) for a tick, with the device name it has read
  caller,      \* GetItems: idle, sending, waiting
  dev, count, resets  \* the router: the outbound device, the counters

vars == <<tm, isRunning, idle, lastItem, items, fetchStatCh, pc, caller,
          dev, count, resets>>
router == <<dev, count, resets>>

Off == TickSec + 1
Stop == StopTicks * TickSec
\* From here on the age of lastRunningTime makes no difference any more.
MaxIdle == Stop + TickSec + MaxFetch + 1

Counter == [rx : 0 .. MaxBytes, tx : 0 .. MaxBytes]

\* A sample: the counters of dev at its two ends and, as history, how many
\* resets of counters there had been by then.
Sample == [dev : Devs, from : Counter, to : Counter,
           born : 0 .. MaxResets, done : 0 .. MaxResets]

TypeOK ==
  /\ tm \in 0 .. Off /\ isRunning \in BOOLEAN /\ idle \in 0 .. MaxIdle
  /\ lastItem \in [dev : Devs \union {NoDev}, from : Counter, born : 0 .. MaxResets]
  /\ items \in Seq(Sample) /\ Len(items) <= Slots
  /\ fetchStatCh \in Callers \union {NoCaller}
  /\ pc \in [at : {"select", "fetch"}, for : Callers \union {NoCaller},
             name : Devs \union {NoDev}, spent : 0 .. MaxFetch]
  /\ caller \in [Callers -> {"idle", "sending", "waiting"}]
  /\ dev \in Devs \union {NoDev} /\ count \in [Devs -> Counter]
  /\ resets \in 0 .. MaxResets

Zero == [rx |-> 0, tx |-> 0]
InSelect == [at |-> "select", for |-> NoCaller, name |-> NoDev, spent |-> 0]

\* run arms the timer although nothing is sampled yet.
Init ==
  /\ tm = TickSec /\ isRunning = FALSE
  /\ idle = MaxIdle                \* the zero time.Time
  /\ lastItem = [dev |-> NoDev, from |-> Zero, born |-> 0]
  /\ items = <<>> /\ fetchStatCh = NoCaller /\ pc = InSelect
  /\ caller = [c \in Callers |-> "idle"]
  /\ dev \in Devs \union {NoDev} /\ count = [d \in Devs |-> Zero] /\ resets = 0

\* The sampler as if it were never started.
WanIdle ==
  /\ tm = Off /\ isRunning = FALSE /\ idle = MaxIdle
  /\ lastItem = [dev |-> NoDev, from |-> Zero, born |-> 0]
  /\ items = <<>> /\ fetchStatCh = NoCaller /\ pc = InSelect
  /\ caller = [c \in Callers |-> "idle"]
  /\ dev = NoDev /\ count = [d \in Devs |-> Zero] /\ resets = 0

-----------------------------------------------------------------------------
(* GetItems *)

GetItems(c) ==
  /\ caller[c] = "idle" /\ caller' = [caller EXCEPT ![c] = "sending"]
  /\ UNCHANGED <<tm, isRunning, idle, lastItem, items, fetchStatCh, pc, router>>

SendRequest(c) ==
  /\ caller[c] = "sending" /\ fetchStatCh = NoCaller
  /\ fetchStatCh' = c
  /\ caller' = [caller EXCEPT ![c] = "waiting"]
  /\ UNCHANGED <<tm, isRunning, idle, lastItem, items, pc, router>>

-----------------------------------------------------------------------------
(* runOnce *)

Fetch(c) == pc' = [at |-> "fetch", for |-> c, name |-> dev, spent |-> 0]

\* A request while running: the samples there are.
ServeOld ==
  /\ pc.at = "select" /\ fetchStatCh # NoCaller /\ isRunning
  /\ idle' = 0
  /\ caller' = [caller EXCEPT ![fetchStatCh] = "idle"]
  /\ fetchStatCh' = NoCaller
  /\ UNCHANGED <<tm, isRunning, lastItem, items, pc, router>>

\* A request while stopped: stop and drain the timer, arm it, then fetch.
ServeNew ==
  /\ pc.at = "select" /\ fetchStatCh # NoCaller /\ ~isRunning
  /\ tm' = TickSec /\ isRunning' = TRUE /\ idle' = 0
  /\ Fetch(fetchStatCh)
  /\ fetchStatCh' = NoCaller
  /\ UNCHANGED <<lastItem, items, caller, router>>

\* Mutant: the sampler runs on for one more tick.
MutExpired == idle > Stop + TickSec

\* lastRunningTime.Add(10 * wanStatTimeTick).Before(now)
Expired == idle > Stop

TickStop ==
  /\ pc.at = "select" /\ tm = 0 /\ Expired
  /\ isRunning' = FALSE /\ tm' = Off
  /\ UNCHANGED <<idle, lastItem, items, fetchStatCh, pc, caller, router>>

TickFetch ==
  /\ pc.at = "select" /\ tm = 0 /\ ~Expired
  /\ tm' = Off
  /\ Fetch(NoCaller)
  /\ UNCHANGED <<isRunning, idle, lastItem, items, fetchStatCh, caller, router>>

-----------------------------------------------------------------------------
(* fetchItems *)

\* The oldest of Slots samples makes room.
Keep(s) == IF Len(items) >= Slots THEN Append(Tail(items), s) ELSE Append(items, s)

\* Mutant: only the received bytes are looked at.
MutBackwards(now) == now.rx < lastItem.from.rx

\* The counters ran backwards: the device was set up anew.
Backwards(now) == now.rx < lastItem.from.rx \/ now.tx < lastItem.from.tx

\* Mutant: the sample that comes next starts where this one did.
MutRecord(name, now) ==
  IF lastItem.dev # name \/ Backwards(now)
    THEN /\ lastItem' = [dev |-> name, from |-> now, born |-> resets]
         /\ UNCHANGED items
    ELSE /\ items' = Keep([dev |-> name, from |-> lastItem.from, to |-> now,
                           born |-> lastItem.born, done |-> resets])
         /\ UNCHANGED lastItem

\* A device that is new, or that counts from zero again, only sets the mark.
Record(name, now) ==
  IF lastItem.dev # name \/ Backwards(now)
    THEN /\ lastItem' = [dev |-> name, from |-> now, born |-> resets]
         /\ UNCHANGED items
    ELSE /\ items' = Keep([dev |-> name, from |-> lastItem.from, to |-> now,
                           born |-> lastItem.born, done |-> resets])
         /\ lastItem' = [dev |-> name, from |-> now, born |-> resets]

\* Mutant: an error of the fetch ends the tick before the Reset.
MutFetched ==
  /\ pc.at = "fetch" /\ pc' = InSelect
  /\ \/ /\ pc.name # NoDev /\ Record(pc.name, count[pc.name])
        /\ tm' = IF pc.for = NoCaller THEN TickSec ELSE tm
     \/ UNCHANGED <<tm, lastItem, items>>
  /\ caller' = IF pc.for = NoCaller THEN caller ELSE [caller EXCEPT ![pc.for] = "idle"]
  /\ UNCHANGED <<isRunning, idle, fetchStatCh, router>>

\* The end of fetchItems and of runOnce: without a device, or when the ubus
\* call fails, nothing is recorded.  A caller gets its answer; after a tick
\* the timer is reset.
Fetched ==
  /\ pc.at = "fetch" /\ pc' = InSelect
  /\ \/ pc.name # NoDev /\ Record(pc.name, count[pc.name])
     \/ UNCHANGED <<lastItem, items>>
  /\ IF pc.for = NoCaller
       THEN tm' = TickSec /\ UNCHANGED caller
       ELSE caller' = [caller EXCEPT ![pc.for] = "idle"] /\ UNCHANGED tm
  /\ UNCHANGED <<isRunning, idle, fetchStatCh, router>>

-----------------------------------------------------------------------------
(* The world: external *)

\* A second passes.  The goroutine is prompt: nothing waits for it while it
\* is in its select, and a fetch ends in time.
Second ==
  /\ IF pc.at = "select" THEN tm # 0 /\ fetchStatCh = NoCaller
                         ELSE pc.spent < MaxFetch
  /\ pc' = IF pc.at = "select" THEN pc ELSE [pc EXCEPT !.spent = @ + 1]
  /\ tm' = IF tm \in {0, Off} THEN tm ELSE tm - 1
  /\ idle' = IF idle < MaxIdle THEN idle + 1 ELSE idle
  /\ UNCHANGED <<isRunning, lastItem, items, fetchStatCh, caller, router>>

\* Traffic, another default route, a device that counts from zero again.
Traffic ==
  \/ /\ \E d \in Devs, f \in {"rx", "tx"} :
          count[d][f] < MaxBytes /\ count' = [count EXCEPT ![d][f] = @ + 1]
     /\ UNCHANGED <<tm, isRunning, idle, lastItem, items, fetchStatCh, pc, caller, dev, resets>>
  \/ /\ dev' \in (Devs \union {NoDev}) \ {dev}
     /\ UNCHANGED <<tm, isRunning, idle, lastItem, items, fetchStatCh, pc, caller, count, resets>>
  \/ /\ resets < MaxResets /\ resets' = resets + 1
     /\ \E d \in Devs : count' = [count EXCEPT ![d] = Zero]
     /\ UNCHANGED <<tm, isRunning, idle, lastItem, items, fetchStatCh, pc, caller, dev>>

-----------------------------------------------------------------------------
RunOnce == ServeOld \/ ServeNew \/ TickStop \/ TickFetch \/ Fetched

Next ==
  \/ \E c \in Callers : GetItems(c) \/ SendRequest(c)
  \/ RunOnce \/ Second \/ Traffic

Spec == Init /\ [][Next]_vars

\* The goroutine runs, the channel's senders are served in turn, time passes.
\* The select picks at random among ready cases, so a request that stays
\* there is taken.  Nothing is assumed of calls of GetItems.
Fairness ==
  /\ WF_vars(RunOnce) /\ SF_vars(ServeOld \/ ServeNew)
  /\ \A c \in Callers : SF_vars(SendRequest(c))
  /\ WF_vars(Second)

FairSpec == Spec /\ Fairness

-----------------------------------------------------------------------------
\* A running sampler has a tick ahead of it, or is handling one: otherwise it
\* would neither sample nor stop, and answer old samples for ever.
TickAhead ==
  isRunning => tm # Off \/ (pc.at = "fetch" /\ pc.for = NoCaller)

\* A sampler nobody asks stops one tick (and a slow fetch) after StopTicks.
StopsInTime == isRunning => idle <= Stop + TickSec + MaxFetch

\* No average is negative: whatever devices and counters did since the last
\* tick, a sample spans a growing stretch of one device's counters.
RatesNotNegative ==
  \A i \in 1 .. Len(items) : /\ items[i].to.rx >= items[i].from.rx
                             /\ items[i].to.tx >= items[i].from.tx

\* No byte is counted twice: two samples of a device whose counters were not
\* reset in between cover disjoint stretches, in their order.
BytesOnce ==
  \A i, j \in 1 .. Len(items) :
    i < j /\ items[i].dev = items[j].dev /\ items[i].done = items[j].born
      => items[i].to.rx <= items[j].from.rx /\ items[i].to.tx <= items[j].from.tx

\* Every call of GetItems is answered, be the sampler running or stopped.
CallAnswered == \A c \in Callers : caller[c] # "idle" ~> caller[c] = "idle"

\* When the calls end the sampler stops, for good.
ComesToStop ==
  <>[](\A c \in Callers : caller[c] = "idle") => <>[](~isRunning /\ tm = Off)
=============================================================================
