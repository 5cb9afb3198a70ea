------------------------------- MODULE LanStats -------------------------------
(***************************************************************************)
(* The LAN traffic sampler: one goroutine that sums the kernel's           *)
(* connection table by address, every lanStatTimeTick while somebody asks, *)
(* and keeps the last speeds of every address it has seen.                 *)
(*                                                                         *)
(*   backend/service/lan_stats_linux.go                                    *)
(*                                                                         *)
(* lastRunningTime is kept as its age.  The table is dumped within runOnce *)
(* and takes no time.  A speed is the bytes it is computed from: the       *)
(* duration it is divided by is at least a millisecond by construction.    *)
(***************************************************************************)
EXTENDS Integers, Sequences, FiniteSets, FiniteSetsExt, SequencesExt

CONSTANTS LanCallers,   \* goroutines that call reqHosts
          LanFlows,     \* connections: <<source, destination>>
          LanTickSec,   \* lanStatTimeTick (3 s)
          LanStopTicks, \* ticks without a request after which to stop (10)
          LanSlots,     \* samples kept of an address (12)
          MaxFlowBytes, \* bound on a connection's counters
          MaxFaults     \* bound on the faults of the connection to the kernel

NoOne == "none"

ASSUME LanStatsAssumption ==
  /\ LanTickSec \in Nat \ {0} /\ LanStopTicks \in Nat /\ LanSlots \in Nat \ {0}
  /\ MaxFlowBytes \in Nat /\ MaxFaults \in Nat
  /\ IsFiniteSet(LanFlows) /\ NoOne \notin LanCallers

VARIABLES
  lanTm,      \* the timer: seconds left, 0 when it has fired, or LanOff
  lanRunning, lanIdle, \* isRunning, and the age of lastRunningTime
  conn,       \* the netlink socket: none, open, or broken
  hosts,      \* per address that was ever seen: its mark and its samples
  lanCh,      \* fetchHostStatsCh, of size 1: the caller whose request it holds
  lanCaller,  \* reqHosts: idle, sending, waiting
  flows,      \* the kernel: the counters of the connections there are
  quiet,      \* history: per address, the samples since it last had a connection
  faults      \* how often the socket broke

lanStatVars == <<lanTm, lanRunning, lanIdle, conn, hosts, lanCh, lanCaller, flows, quiet, faults>>

LanOff == LanTickSec + 1
LanStop == LanStopTicks * LanTickSec
LanMaxIdle == LanStop + LanTickSec + 1
Addrs == {f[1] : f \in LanFlows} \union {f[2] : f \in LanFlows}
NoBytes == [tx |-> 0, rx |-> 0]

\* run arms the timer although nothing is sampled yet.
LanStatsInit ==
  /\ lanTm = LanTickSec /\ lanRunning = FALSE /\ lanIdle = LanMaxIdle /\ conn = "none"
  /\ hosts = << >> /\ lanCh = NoOne /\ lanCaller = [c \in LanCallers |-> "idle"]
  /\ flows = << >> /\ quiet = [h \in Addrs |-> 0] /\ faults = 0
\* The sampler as if it were never started.
LanStatsIdle ==
  /\ lanTm = LanOff /\ lanRunning = FALSE /\ lanIdle = LanMaxIdle /\ conn = "none"
  /\ hosts = << >> /\ lanCh = NoOne /\ lanCaller = [c \in LanCallers |-> "idle"]
  /\ flows = << >> /\ quiet = [h \in Addrs |-> 0] /\ faults = 0

-----------------------------------------------------------------------------
(* reqHosts *)

reqHosts(c) ==
  /\ lanCaller[c] = "idle" /\ lanCaller' = [lanCaller EXCEPT ![c] = "sending"]
  /\ UNCHANGED <<lanTm, lanRunning, lanIdle, conn, hosts, lanCh, flows, quiet, faults>>

LanSend(c) ==
  /\ lanCaller[c] = "sending" /\ lanCh = NoOne
  /\ lanCh' = c /\ lanCaller' = [lanCaller EXCEPT ![c] = "waiting"]
  /\ UNCHANGED <<lanTm, lanRunning, lanIdle, conn, hosts, flows, quiet, faults>>

\* The newest speed, or all that are kept, of one address or of all of them; none of an address not seen.
LastOf(host) == IF host.items = <<>> THEN <<>> ELSE <<host.items[Len(host.items)]>>
respHosts(hostIP, speedOnly) ==
  {[ip |-> h, items |-> IF speedOnly THEN LastOf(hosts[h]) ELSE hosts[h].items] :
     h \in IF hostIP = "" THEN DOMAIN hosts ELSE {hostIP} \intersect DOMAIN hosts}

-----------------------------------------------------------------------------
(* fetchItems *)

\* addSpeeds: a connection counts for its source and, the other way round, for its
\* destination; isLanIP is always true.
LanCounter(way) == [f \in DOMAIN flows |-> flows[f][way]]
Total(count, fs) == MapThenSumSet(LAMBDA f : count[f], fs)
addSpeeds(h) ==
  LET from == {f \in DOMAIN flows : f[1] = h}
      to   == {f \in DOMAIN flows : f[2] = h}
  IN  [tx |-> Total(LanCounter("up"), from) + Total(LanCounter("down"), to),
       rx |-> Total(LanCounter("down"), from) + Total(LanCounter("up"), to)]

\* A total that shrank, for a connection has ended, repeats the last speed.
Speed(host, now, way) ==
  IF now[way] < host.mark[1][way]
  THEN IF host.items = <<>> THEN 0 ELSE host.items[Len(host.items)][way]
  ELSE now[way] - host.mark[1][way]

KeepItem(items, item) == IF Len(items) >= LanSlots THEN Append(Tail(items), item) ELSE Append(items, item)

\* Mutant: a total that shrank leaves the mark where it is.
MutProcessHost(host, now) ==
  IF host.mark = <<>> THEN [mark |-> <<now>>, items |-> <<>>]
  ELSE [mark |-> IF now.tx < host.mark[1].tx \/ now.rx < host.mark[1].rx THEN host.mark ELSE <<now>>,
        items |-> KeepItem(host.items, [tx |-> Speed(host, now, "tx"), rx |-> Speed(host, now, "rx")])]
\* The first total only sets the mark.
processHost(host, now) ==
  IF host.mark = <<>> THEN [mark |-> <<now>>, items |-> <<>>]
  ELSE [mark |-> <<now>>,
        items |-> KeepItem(host.items, [tx |-> Speed(host, now, "tx"), rx |-> Speed(host, now, "rx")])]

\* Every address seen so far is sampled, whether it has a connection now or not.
Sampled ==
  LET busy == {f[1] : f \in DOMAIN flows} \union {f[2] : f \in DOMAIN flows}
  IN  /\ hosts' = [h \in DOMAIN hosts \union busy |->
                     processHost(IF h \in DOMAIN hosts THEN hosts[h] ELSE [mark |-> <<>>, items |-> <<>>], addSpeeds(h))]
      /\ quiet' = [h \in Addrs |-> IF h \in busy THEN 0 ELSE IF quiet[h] < 2 THEN quiet[h] + 1 ELSE 2]

\* The socket is opened when there is none, which may fail; a dump through a broken one
\* fails and leaves it as it is.
fetchItems ==
  \/ conn = "none" /\ UNCHANGED <<conn, hosts, quiet>>
  \/ conn = "broken" /\ UNCHANGED <<conn, hosts, quiet>>
  \/ conn # "broken" /\ conn' = "open" /\ Sampled

-----------------------------------------------------------------------------
(* runOnce *)

LanServeOld ==
  /\ lanCh # NoOne /\ lanRunning
  /\ lanIdle' = 0 /\ lanCh' = NoOne /\ lanCaller' = [lanCaller EXCEPT ![lanCh] = "idle"]
  /\ UNCHANGED <<lanTm, lanRunning, conn, hosts, flows, quiet, faults>>

\* Mutant: an error of the fetch is not answered.
MutLanServeNew ==
  /\ lanCh # NoOne /\ ~lanRunning
  /\ lanTm' = LanTickSec /\ lanRunning' = TRUE /\ lanIdle' = 0 /\ fetchItems
  /\ lanCh' = NoOne /\ lanCaller' = [lanCaller EXCEPT ![lanCh] = IF conn' = "open" THEN "idle" ELSE @]
  /\ UNCHANGED <<flows, faults>>
\* A request while stopped: the timer is stopped, drained and armed; whether the fetch
\* succeeds or not, the caller is answered.
LanServeNew ==
  /\ lanCh # NoOne /\ ~lanRunning
  /\ lanTm' = LanTickSec /\ lanRunning' = TRUE /\ lanIdle' = 0 /\ fetchItems
  /\ lanCh' = NoOne /\ lanCaller' = [lanCaller EXCEPT ![lanCh] = "idle"]
  /\ UNCHANGED <<flows, faults>>

LanTickStop ==
  /\ lanTm = 0 /\ lanIdle > LanStop
  /\ lanRunning' = FALSE /\ lanTm' = LanOff /\ conn' = "none"
  /\ UNCHANGED <<lanIdle, hosts, lanCh, lanCaller, flows, quiet, faults>>

\* Mutant: a tick counts as a request.
MutLanTickFetch ==
  /\ lanTm = 0 /\ lanIdle <= LanStop
  /\ fetchItems /\ lanTm' = LanTickSec /\ lanIdle' = 0
  /\ UNCHANGED <<lanRunning, lanCh, lanCaller, flows, faults>>
LanTickFetch ==
  /\ lanTm = 0 /\ lanIdle <= LanStop
  /\ fetchItems /\ lanTm' = LanTickSec
  /\ UNCHANGED <<lanRunning, lanIdle, lanCh, lanCaller, flows, faults>>

LanRunOnce == LanServeOld \/ LanServeNew \/ LanTickStop \/ LanTickFetch

-----------------------------------------------------------------------------
(* The world: external *)

\* The goroutine is prompt: nothing waits for it while a second passes.
LanSecond ==
  /\ lanTm # 0 /\ lanCh = NoOne
  /\ lanTm' = IF lanTm = LanOff THEN lanTm ELSE lanTm - 1
  /\ lanIdle' = IF lanIdle < LanMaxIdle THEN lanIdle + 1 ELSE lanIdle
  /\ UNCHANGED <<lanRunning, conn, hosts, lanCh, lanCaller, flows, quiet, faults>>

\* A connection appears, counts, or ends.
LanTraffic ==
  /\ \/ \E f \in LanFlows \ DOMAIN flows :
          flows' = [g \in DOMAIN flows \union {f} |-> IF g = f THEN [up |-> 0, down |-> 0] ELSE flows[g]]
     \/ \E f \in DOMAIN flows, way \in {"up", "down"} :
          flows[f][way] < MaxFlowBytes /\ flows' = [flows EXCEPT ![f][way] = @ + 1]
     \/ \E f \in DOMAIN flows : flows' = [g \in DOMAIN flows \ {f} |-> flows[g]]
  /\ UNCHANGED <<lanTm, lanRunning, lanIdle, conn, hosts, lanCh, lanCaller, quiet, faults>>

Break ==
  /\ conn = "open" /\ faults < MaxFaults /\ conn' = "broken" /\ faults' = faults + 1
  /\ UNCHANGED <<lanTm, lanRunning, lanIdle, hosts, lanCh, lanCaller, flows, quiet>>

LanStatsNext ==
  \/ \E c \in LanCallers : reqHosts(c) \/ LanSend(c)
  \/ LanRunOnce \/ LanSecond \/ LanTraffic \/ Break

\* The goroutine runs, the senders of the channel are served in turn, its select picks at
\* random among what is ready, time passes.
LanStatsFairness ==
  /\ WF_lanStatVars(LanRunOnce) /\ SF_lanStatVars(LanServeOld \/ LanServeNew)
  /\ \A c \in LanCallers : SF_lanStatVars(LanSend(c))
  /\ WF_lanStatVars(LanSecond)

LanStatsSpec == LanStatsInit /\ [][LanStatsNext]_lanStatVars /\ LanStatsFairness

-----------------------------------------------------------------------------
(* Properties *)

\* No speed is negative, whatever connections began and ended between two ticks, and an
\* address has LanSlots of them at most.
LanStatsTypeOK ==
  /\ lanTm \in 0 .. LanOff /\ lanRunning \in BOOLEAN /\ lanIdle \in 0 .. LanMaxIdle
  /\ conn \in {"none", "open", "broken"} /\ lanCh \in LanCallers \union {NoOne}
  /\ lanCaller \in [LanCallers -> {"idle", "sending", "waiting"}]
  /\ DOMAIN hosts \subseteq Addrs /\ DOMAIN flows \subseteq LanFlows
  /\ \A h \in DOMAIN hosts :
       /\ Len(hosts[h].items) <= LanSlots
       /\ \A i \in DOMAIN hosts[h].items : hosts[h].items[i].tx \in Nat /\ hosts[h].items[i].rx \in Nat

\* An address that has had no connection for two samples is shown at rest, to whoever asks
\* for it or for all: a connection that ended is not shown as going on for ever.
QuietIsShown ==
  \A h \in {a \in DOMAIN hosts : quiet[a] >= 2} :
    \A ret \in respHosts(h, TRUE) \union respHosts("", TRUE) : ret.ip = h => Range(ret.items) \subseteq {NoBytes}

\* The socket is not left open by a sampler that has stopped, and one that runs has a tick
\* ahead of it that will come to stop it.
SocketHeld == (conn # "none" => lanRunning) /\ (lanRunning => lanTm # LanOff)

\* Every call of reqHosts is answered, be the sampler running or stopped, the socket open,
\* broken or refused.
LanCallAnswered == \A c \in LanCallers : lanCaller[c] # "idle" ~> lanCaller[c] = "idle"

\* When the calls end the sampler stops for good and gives back the socket.
LanComesToStop == <>[](\A c \in LanCallers : lanCaller[c] = "idle") => <>[](~lanRunning /\ conn = "none")

\* The LAN sampler: an address that went quiet is shown so, and the socket is held only by
\* a sampler that has a tick ahead of it.
LanStatsCorrect == LanStatsTypeOK /\ QuietIsShown /\ SocketHeld
=============================================================================
