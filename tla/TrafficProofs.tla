---------------------------- MODULE TrafficProofs ----------------------------
(***************************************************************************)
(* The WAN sampler for any tick, any length of fetch, any number of        *)
(* samples, devices and callers, the LAN sampler for any tick and any      *)
(* connections between any addresses, and the speed limits of the LAN's    *)
(* devices for any number of requests.                                     *)
(***************************************************************************)
EXTENDS WanStats, LanStats, SpeedLimits, DataLemmas

\* StopTicks * TickSec is the only product; everything else is linear.
LEMMA Times ==
  /\ TickSec \in Nat /\ TickSec > 0 /\ MaxFetch \in Nat /\ Stop \in Nat
  /\ Off = TickSec + 1 /\ MaxIdle = Stop + TickSec + MaxFetch + 1
BY StatsAssumption DEF Stop, Off, MaxIdle

-----------------------------------------------------------------------------
(* Types *)

Mark == [dev : Devs \union {NoDev}, from : Counter, born : 0 .. MaxResets]
PcType == [at : {"select", "fetch"}, for : Callers \union {NoCaller},
           name : Devs \union {NoDev}, spent : 0 .. MaxFetch]

\* Keep makes room for the new sample.
LEMMA KeepType ==
  ASSUME items \in Seq(Sample), Len(items) <= Slots, NEW s \in Sample
  PROVE  Keep(s) \in Seq(Sample) /\ Len(Keep(s)) <= Slots
<1>1. Slots \in Nat \ {0}
  BY StatsAssumption
<1>2. CASE Len(items) >= Slots
  <2>1. items # <<>> /\ Len(Tail(items)) = Len(items) - 1 /\ Tail(items) \in Seq(Sample)
    BY <1>1, <1>2
  <2> QED BY <1>1, <1>2, <2>1 DEF Keep
<1>3. CASE ~(Len(items) >= Slots)
  BY <1>1, <1>3 DEF Keep
<1> QED BY <1>2, <1>3

\* What was in the ring stays there in its order, one place down at most, and
\* the new sample comes last.
LEMMA KeepElements ==
  ASSUME items \in Seq(Sample), NEW s \in Sample
  PROVE  /\ Len(Keep(s)) >= 1 /\ Keep(s)[Len(Keep(s))] = s
         /\ \E k \in {0, 1} : \A i \in 1 .. Len(Keep(s)) - 1 :
              i + k \in 1 .. Len(items) /\ Keep(s)[i] = items[i + k]
<1>1. Slots \in Nat \ {0}
  BY StatsAssumption
<1>2. CASE Len(items) >= Slots
  <2>1. /\ items # <<>> /\ Tail(items) \in Seq(Sample) /\ Len(Tail(items)) = Len(items) - 1
        /\ \A i \in 1 .. Len(items) - 1 : Tail(items)[i] = items[i + 1]
    BY <1>1, <1>2
  <2>2. Keep(s) = Append(Tail(items), s)
    BY <1>2 DEF Keep
  <2>3. Len(Keep(s)) = Len(items) /\ Keep(s)[Len(items)] = s
    BY <2>1, <2>2
  <2>4. \A i \in 1 .. Len(items) - 1 : Keep(s)[i] = items[i + 1] /\ i + 1 \in 1 .. Len(items)
    BY <2>1, <2>2
  <2> QED BY <2>1, <2>3, <2>4
<1>3. CASE ~(Len(items) >= Slots)
  <2>1. Keep(s) = Append(items, s)
    BY <1>3 DEF Keep
  <2>2. Len(Keep(s)) = Len(items) + 1 /\ Keep(s)[Len(items) + 1] = s
    BY <2>1
  <2>3. \A i \in 1 .. Len(items) : Keep(s)[i] = items[i + 0] /\ i + 0 \in 1 .. Len(items)
    BY <2>1
  <2> QED BY <2>2, <2>3
<1> QED BY <1>2, <1>3

\* A sample taken by Record is one.
LEMMA SampleType ==
  ASSUME TypeOK, NEW name \in Devs, lastItem.dev = name
  PROVE  [dev |-> name, from |-> lastItem.from, to |-> count[name],
          born |-> lastItem.born, done |-> resets] \in Sample
BY DEF TypeOK, Sample

\* Record leaves a mark and at most Slots samples.
LEMMA RecordType ==
  ASSUME TypeOK, NEW name \in Devs, Record(name, count[name])
  PROVE  lastItem' \in Mark /\ items' \in Seq(Sample) /\ Len(items') <= Slots
<1>1. lastItem' = [dev |-> name, from |-> count[name], born |-> resets]
  BY DEF Record
<1>2. lastItem' \in Mark
  BY <1>1 DEF TypeOK, Mark
<1>3. CASE UNCHANGED items
  BY <1>2, <1>3 DEF TypeOK
<1>4. CASE /\ lastItem.dev = name
           /\ items' = Keep([dev |-> name, from |-> lastItem.from, to |-> count[name],
                             born |-> lastItem.born, done |-> resets])
  BY <1>2, <1>4, SampleType, KeepType DEF TypeOK
<1> QED BY <1>3, <1>4 DEF Record

\* NewWanStats, with nothing sampled.
LEMMA TypeInit == Init => TypeOK
<1> SUFFICES ASSUME Init PROVE TypeOK
  OBVIOUS
<1>1. Zero \in Counter
  BY StatsAssumption DEF Zero, Counter
<1>2. tm \in 0 .. Off /\ idle \in 0 .. MaxIdle
  BY Times DEF Init
<1>3. pc \in PcType
  BY StatsAssumption DEF Init, InSelect, PcType
<1>4. lastItem \in Mark /\ count \in [Devs -> Counter] /\ resets \in 0 .. MaxResets
  BY <1>1, StatsAssumption DEF Init, Mark
<1>5. items \in Seq(Sample) /\ Len(items) <= Slots
  BY StatsAssumption DEF Init
<1> QED BY <1>1, <1>2, <1>3, <1>4, <1>5 DEF Init, TypeOK, PcType, Mark

\* Every step of the sampler, its callers and the router keeps the types.
LEMMA TypeNext == TypeOK /\ [Next]_vars => TypeOK'
<1> SUFFICES ASSUME TypeOK, [Next]_vars PROVE TypeOK'
  OBVIOUS
<1> USE Times
<1>1. CASE \E c \in Callers : GetItems(c) \/ SendRequest(c)
  BY <1>1 DEF GetItems, SendRequest, router, TypeOK
<1>2. CASE ServeOld
  BY <1>2 DEF ServeOld, router, TypeOK
<1>3. CASE ServeNew
  BY <1>3 DEF ServeNew, Fetch, router, TypeOK
<1>4. CASE TickStop
  <2>1. isRunning' \in BOOLEAN
    BY <1>4 DEF TickStop
  <2>2. tm' \in 0 .. Off
    BY <1>4 DEF TickStop
  <2> QED BY <1>4, <2>1, <2>2 DEF TickStop, router, TypeOK
<1>5. CASE TickFetch
  BY <1>5 DEF TickFetch, Fetch, router, TypeOK
<1>6. CASE Fetched
  <2>1. pc' \in PcType
    BY <1>6, StatsAssumption DEF Fetched, InSelect, PcType
  <2>2. lastItem' \in Mark /\ items' \in Seq(Sample) /\ Len(items') <= Slots
    <3>1. CASE pc.name # NoDev /\ Record(pc.name, count[pc.name])
      BY <3>1, RecordType DEF TypeOK
    <3>2. CASE UNCHANGED <<lastItem, items>>
      BY <3>2 DEF TypeOK, Mark
    <3> QED BY <1>6, <3>1, <3>2 DEF Fetched
  <2>3. tm' \in 0 .. Off /\ caller' \in [Callers -> {"idle", "sending", "waiting"}]
    BY <1>6 DEF Fetched, TypeOK
  <2> QED BY <1>6, <2>1, <2>2, <2>3 DEF Fetched, router, TypeOK, Mark, PcType
<1>7. CASE Second
  <2>1. pc' \in PcType
    <3>1. CASE pc.at = "select"
      BY <1>7, <3>1 DEF Second, TypeOK, PcType
    <3>2. CASE pc.at # "select"
      <4>1. pc \in PcType /\ pc' = [pc EXCEPT !.spent = @ + 1] /\ pc.spent < MaxFetch
        BY <1>7, <3>2 DEF Second, TypeOK, PcType
      <4>2. pc.spent + 1 \in 0 .. MaxFetch
        BY <4>1 DEF PcType
      <4> QED BY <4>1, <4>2 DEF PcType
    <3> QED BY <3>1, <3>2
  <2>2. tm' \in 0 .. Off /\ idle' \in 0 .. MaxIdle
    BY <1>7, SMTT(30) DEF Second, TypeOK
  <2> QED BY <1>7, <2>1, <2>2 DEF Second, router, TypeOK, PcType
<1>8. CASE Traffic
  <2>1. count' \in [Devs -> Counter] /\ dev' \in Devs \union {NoDev} /\ resets' \in 0 .. MaxResets
    <3>1. ASSUME NEW d \in Devs, NEW f \in {"rx", "tx"}, count[d][f] < MaxBytes,
                 count' = [count EXCEPT ![d][f] = @ + 1]
          PROVE  count' \in [Devs -> Counter]
      <4>1. count[d] \in Counter /\ MaxBytes \in Nat
        BY StatsAssumption DEF TypeOK
      <4>2. [count[d] EXCEPT ![f] = @ + 1] \in Counter
        BY <3>1, <4>1 DEF Counter
      <4>3. count' = [count EXCEPT ![d] = [count[d] EXCEPT ![f] = @ + 1]]
        BY <3>1 DEF TypeOK
      <4> QED BY <4>2, <4>3 DEF TypeOK
    <3>2. ASSUME NEW d \in Devs, count' = [count EXCEPT ![d] = Zero]
          PROVE  count' \in [Devs -> Counter]
      BY <3>2, StatsAssumption DEF TypeOK, Counter, Zero
    <3>3. CASE UNCHANGED <<dev, resets>> /\ \E d \in Devs, f \in {"rx", "tx"} :
                 count[d][f] < MaxBytes /\ count' = [count EXCEPT ![d][f] = @ + 1]
      <4>1. count' \in [Devs -> Counter]
        BY <3>1, <3>3
      <4> QED BY <3>3, <4>1 DEF TypeOK
    <3>4. CASE dev' \in (Devs \union {NoDev}) \ {dev} /\ UNCHANGED <<count, resets>>
      BY <3>4 DEF TypeOK
    <3>5. CASE /\ resets < MaxResets /\ resets' = resets + 1 /\ UNCHANGED dev
               /\ \E d \in Devs : count' = [count EXCEPT ![d] = Zero]
      <4>1. count' \in [Devs -> Counter]
        BY <3>2, <3>5
      <4>2. resets' \in 0 .. MaxResets
        BY <3>5, StatsAssumption DEF TypeOK
      <4> QED BY <3>5, <4>1, <4>2 DEF TypeOK
    <3> QED BY <1>8, <3>3, <3>4, <3>5 DEF Traffic
  <2> QED BY <1>8, <2>1 DEF Traffic, TypeOK
<1>9. CASE UNCHANGED vars
  BY <1>9 DEF vars, TypeOK
<1> QED BY <1>1, <1>2, <1>3, <1>4, <1>5, <1>6, <1>7, <1>8, <1>9 DEF Next, RunOnce

\* The state of the sampler has its types in every behaviour of the code.
THEOREM TypeCorrect == Spec => []TypeOK
BY TypeInit, TypeNext, PTL DEF Spec

-----------------------------------------------------------------------------
(* The timer *)

\* A running sampler has a tick ahead.  A fetch for a caller begins with the
\* timer armed, a fetch for a tick ends by arming it.
LEMMA TickNext == TypeOK /\ TickAhead /\ [Next]_vars => TickAhead'
<1> SUFFICES ASSUME TypeOK, TickAhead, [Next]_vars PROVE TickAhead'
  OBVIOUS
<1> USE Times
<1>1. CASE \E c \in Callers : GetItems(c) \/ SendRequest(c)
  BY <1>1 DEF GetItems, SendRequest, TickAhead
<1>2. CASE ServeOld
  BY <1>2 DEF ServeOld, TickAhead
<1>3. CASE ServeNew
  BY <1>3 DEF ServeNew, TickAhead
<1>4. CASE TickStop
  BY <1>4 DEF TickStop, TickAhead
<1>5. CASE TickFetch
  BY <1>5 DEF TickFetch, Fetch, TickAhead
<1>6. CASE Fetched
  BY <1>6 DEF Fetched, TickAhead
<1>7. CASE Second
  BY <1>7 DEF Second, TickAhead, TypeOK
<1>8. CASE Traffic
  BY <1>8 DEF Traffic, TickAhead
<1>9. CASE UNCHANGED vars
  BY <1>9 DEF vars, TickAhead
<1> QED BY <1>1, <1>2, <1>3, <1>4, <1>5, <1>6, <1>7, <1>8, <1>9 DEF Next, RunOnce

\* Whatever requests, ticks and failing fetches do, a sampler that runs is
\* going to tick: it cannot be left running with a stopped timer.
THEOREM RunningTicks == Spec => []TickAhead
<1>1. Init => TickAhead
  BY DEF Init, TickAhead
<1> QED BY <1>1, TypeInit, TypeNext, TickNext, PTL DEF Spec

\* Why it stops in time: the time since the last request and the time to the
\* next tick share a budget, from which only a fetch can take.
Budget ==
  isRunning =>
    \/ pc.at = "select" /\ idle + tm <= Stop + TickSec + MaxFetch
    \/ pc.at = "fetch" /\ pc.for = NoCaller /\ idle <= Stop + pc.spent
    \/ pc.at = "fetch" /\ pc.for # NoCaller /\ idle <= pc.spent /\ tm <= TickSec

\* Seconds move the budget from tm to idle; requests and ticks refill it.
LEMMA BudgetNext == TypeOK /\ TickAhead /\ Budget /\ [Next]_vars => Budget'
<1> SUFFICES ASSUME TypeOK, TickAhead, Budget, [Next]_vars PROVE Budget'
  OBVIOUS
<1> USE Times
<1>0. tm \in 0 .. Off /\ idle \in 0 .. MaxIdle /\ pc.spent \in 0 .. MaxFetch
  BY DEF TypeOK
<1>1. CASE \E c \in Callers : GetItems(c) \/ SendRequest(c)
  BY <1>1 DEF GetItems, SendRequest, Budget
<1>2. CASE ServeOld
  BY <1>0, <1>2 DEF ServeOld, TickAhead, Budget
<1>3. CASE ServeNew
  BY <1>3, StatsAssumption DEF ServeNew, Fetch, Budget, TypeOK
<1>4. CASE TickStop
  BY <1>4 DEF TickStop, Budget
<1>5. CASE TickFetch
  BY <1>0, <1>5 DEF TickFetch, Fetch, Expired, Budget
<1>6. CASE Fetched
  BY <1>0, <1>6 DEF Fetched, InSelect, Budget
<1>7. CASE Second
  <2>1. CASE pc.at = "select"
    BY <1>0, <1>7, <2>1 DEF Second, TickAhead, Budget
  <2>2. CASE pc.at # "select"
    <3>1. pc'.at = pc.at /\ pc'.for = pc.for /\ pc'.spent = pc.spent + 1
      BY <1>7, <2>2 DEF Second, TypeOK
    <3> QED BY <1>0, <1>7, <2>2, <3>1 DEF Second, Budget
  <2> QED BY <2>1, <2>2
<1>8. CASE Traffic
  BY <1>8 DEF Traffic, Budget
<1>9. CASE UNCHANGED vars
  BY <1>9 DEF vars, Budget
<1> QED BY <1>1, <1>2, <1>3, <1>4, <1>5, <1>6, <1>7, <1>8, <1>9 DEF Next, RunOnce

\* A sampler nobody asks stops one tick and one fetch after StopTicks ticks,
\* for every length of the tick and of a fetch.
THEOREM StopsOnTime == Spec => []StopsInTime
<1>1. Init => TickAhead /\ Budget
  BY DEF Init, TickAhead, Budget
<1>2. TypeOK /\ TickAhead /\ Budget => StopsInTime
  BY Times DEF TypeOK, TickAhead, Budget, StopsInTime
<1> QED BY <1>1, <1>2, TypeInit, TypeNext, TickNext, BudgetNext, PTL DEF Spec

-----------------------------------------------------------------------------
(* The samples *)

Below(a, b) == a.rx <= b.rx /\ a.tx <= b.tx

\* Every sample ends at or below where its device's counters are now, unless
\* they were reset since, and where the next sample of that device starts.
Ended ==
  \A i \in 1 .. Len(items) :
    /\ items[i].done <= resets
    /\ items[i].done = resets => Below(items[i].to, count[items[i].dev])
    /\ items[i].dev = lastItem.dev /\ items[i].done = lastItem.born
         => Below(items[i].to, lastItem.from)

SamplesInv == RatesNotNegative /\ BytesOnce /\ Ended

\* Record is the only place where samples come from.
LEMMA RecordSamples ==
  ASSUME TypeOK, SamplesInv, NEW name \in Devs, Record(name, count[name]),
         UNCHANGED <<count, resets>>
  PROVE  SamplesInv'
<1> DEFINE now == count[name]
           s == [dev |-> name, from |-> lastItem.from, to |-> now,
                 born |-> lastItem.born, done |-> resets]
<1>1. lastItem' = [dev |-> name, from |-> now, born |-> resets]
  BY DEF Record
<1>2. now \in Counter /\ lastItem.from \in Counter /\ resets \in Nat
  BY StatsAssumption DEF TypeOK
<1>3. /\ now.rx \in Nat /\ now.tx \in Nat
      /\ lastItem.from.rx \in Nat /\ lastItem.from.tx \in Nat
  BY <1>2, StatsAssumption DEF Counter
<1>4. CASE UNCHANGED items
  <2>1. RatesNotNegative' /\ BytesOnce'
    BY <1>4 DEF SamplesInv, RatesNotNegative, BytesOnce
  <2>2. Ended'
    BY <1>1, <1>4 DEF SamplesInv, Ended
  <2> QED BY <2>1, <2>2 DEF SamplesInv
<1>5. CASE lastItem.dev = name /\ ~Backwards(now) /\ items' = Keep(s)
  <2> DEFINE n == Len(items')
  <2>1. s \in Sample
    BY <1>5, SampleType
  <2>2. n >= 1 /\ items'[n] = s /\ n \in Nat
    BY <1>5, <2>1, KeepElements, KeepType DEF TypeOK
  <2>3. PICK k \in {0, 1} : \A i \in 1 .. n - 1 :
          i + k \in 1 .. Len(items) /\ items'[i] = items[i + k]
    <3>1. items \in Seq(Sample)
      BY DEF TypeOK
    <3>2. \E k \in {0, 1} : \A i \in 1 .. Len(Keep(s)) - 1 :
            i + k \in 1 .. Len(items) /\ Keep(s)[i] = items[i + k]
      BY <2>1, <3>1, KeepElements
    <3>3. items' = Keep(s)
      BY <1>5
    <3> QED BY <3>2, <3>3
  <2>4. \A i \in 1 .. n : i = n \/ i \in 1 .. n - 1
    BY <2>2
  <2>5. Below(lastItem.from, now)
    BY <1>3, <1>5 DEF Backwards, Below
  <2>6. RatesNotNegative'
    <3> SUFFICES ASSUME NEW i \in 1 .. n
                 PROVE  items'[i].to.rx >= items'[i].from.rx /\ items'[i].to.tx >= items'[i].from.tx
      BY DEF RatesNotNegative
    <3>1. CASE i = n
      BY <1>3, <2>2, <2>5, <3>1 DEF Below
    <3>2. CASE i \in 1 .. n - 1
      BY <2>3, <3>2 DEF SamplesInv, RatesNotNegative
    <3> QED BY <2>4, <3>1, <3>2
  <2>7. BytesOnce'
    <3> SUFFICES ASSUME NEW i \in 1 .. n, NEW j \in 1 .. n, i < j,
                        items'[i].dev = items'[j].dev, items'[i].done = items'[j].born
                 PROVE  Below(items'[i].to, items'[j].from)
      BY DEF BytesOnce, Below
    <3>1. i \in 1 .. n - 1
      BY <2>2
    <3>2. i + k \in 1 .. Len(items) /\ items'[i] = items[i + k]
      BY <2>3, <3>1
    <3>3. CASE j = n
      BY <1>5, <2>2, <3>2, <3>3 DEF SamplesInv, Ended
    <3>4. CASE j \in 1 .. n - 1
      <4>1. j + k \in 1 .. Len(items) /\ items'[j] = items[j + k] /\ i + k < j + k
        BY <2>3, <3>4
      <4> QED BY <3>2, <4>1 DEF SamplesInv, BytesOnce, Below
    <3> QED BY <2>4, <3>3, <3>4
  <2>8. Ended'
    <3> SUFFICES ASSUME NEW i \in 1 .. n
                 PROVE  /\ items'[i].done <= resets
                        /\ items'[i].done = resets => Below(items'[i].to, count[items'[i].dev])
                        /\ items'[i].dev = name /\ items'[i].done = resets
                             => Below(items'[i].to, now)
      BY <1>1 DEF Ended
    <3>1. CASE i = n
      BY <1>2, <1>3, <2>2, <3>1 DEF Below
    <3>2. CASE i \in 1 .. n - 1
      BY <2>3, <3>2 DEF SamplesInv, Ended
    <3> QED BY <2>4, <3>1, <3>2
  <2> QED BY <2>6, <2>7, <2>8 DEF SamplesInv
<1> QED BY <1>4, <1>5 DEF Record

\* Traffic only adds to the counters, unless it resets them and says so.
LEMMA TrafficSamples ==
  ASSUME TypeOK, SamplesInv, Traffic
  PROVE  SamplesInv'
<1>1. UNCHANGED <<items, lastItem>>
  BY DEF Traffic
<1>2. RatesNotNegative' /\ BytesOnce'
  BY <1>1 DEF SamplesInv, RatesNotNegative, BytesOnce
<1>3. \A i \in 1 .. Len(items) : items[i] \in Sample
  BY DEF TypeOK
<1>4. ASSUME NEW d \in Devs, NEW f \in {"rx", "tx"}, UNCHANGED resets,
             count' = [count EXCEPT ![d][f] = @ + 1]
      PROVE  Ended'
  <2>1. \A e \in Devs : count[e].rx \in Nat /\ count[e].tx \in Nat
    <3>1. \A e \in Devs : count[e] \in Counter
      BY DEF TypeOK
    <3> QED BY <3>1, StatsAssumption DEF Counter
  <2>2. \A e \in Devs : Below(count[e], count'[e]) /\ count'[e].rx \in Nat /\ count'[e].tx \in Nat
    <3>1. \A e \in Devs : e # d => count'[e] = count[e]
      BY <1>4 DEF TypeOK
    <3>2. count[d] \in Counter /\ count'[d] = [count[d] EXCEPT ![f] = @ + 1]
      BY <1>4 DEF TypeOK
    <3>3. CASE f = "rx"
      <4>1. count'[d].rx = count[d].rx + 1 /\ count'[d].tx = count[d].tx
        BY <3>2, <3>3 DEF Counter
      <4> QED BY <2>1, <3>1, <4>1 DEF Below
    <3>4. CASE f = "tx"
      <4>1. count'[d].tx = count[d].tx + 1 /\ count'[d].rx = count[d].rx
        BY <3>2, <3>4 DEF Counter
      <4> QED BY <2>1, <3>1, <4>1 DEF Below
    <3> QED BY <3>3, <3>4
  <2>3. ASSUME NEW i \in 1 .. Len(items), items[i].done = resets
        PROVE  Below(items[i].to, count'[items[i].dev])
    <3>1. items[i].dev \in Devs /\ items[i].to.rx \in Nat /\ items[i].to.tx \in Nat
      BY <1>3, StatsAssumption DEF Sample, Counter
    <3>2. Below(items[i].to, count[items[i].dev])
      BY <2>3 DEF SamplesInv, Ended
    <3> QED BY <2>1, <2>2, <3>1, <3>2, SMTT(30) DEF Below
  <2> QED BY <1>1, <1>4, <2>3 DEF SamplesInv, Ended
<1>5. ASSUME UNCHANGED <<count, resets>> PROVE Ended'
  BY <1>1, <1>5 DEF SamplesInv, Ended
<1>6. ASSUME resets' = resets + 1 PROVE Ended'
  <2>1. resets \in Nat /\ \A i \in 1 .. Len(items) : items[i].done \in Nat
    <3>1. resets \in Nat
      BY StatsAssumption DEF TypeOK
    <3>2. \A i \in 1 .. Len(items) : items[i].done \in 0 .. MaxResets
      BY <1>3 DEF Sample
    <3> QED BY <3>1, <3>2
  <2> QED BY <1>1, <1>6, <2>1 DEF SamplesInv, Ended
<1>7. Ended'
  BY <1>4, <1>5, <1>6 DEF Traffic
<1> QED BY <1>2, <1>7 DEF SamplesInv

\* Nothing but the end of a fetch and the router touches what Ended is about.
LEMMA SamplesNext == TypeOK /\ SamplesInv /\ [Next]_vars => SamplesInv'
<1> SUFFICES ASSUME TypeOK, SamplesInv, [Next]_vars PROVE SamplesInv'
  OBVIOUS
<1>1. CASE UNCHANGED <<items, lastItem, count, resets>>
  BY <1>1 DEF SamplesInv, RatesNotNegative, BytesOnce, Ended
<1>2. CASE Fetched
  <2>1. UNCHANGED <<count, resets>>
    BY <1>2 DEF Fetched, router
  <2>2. CASE pc.name # NoDev /\ Record(pc.name, count[pc.name])
    BY <2>1, <2>2, RecordSamples DEF TypeOK
  <2>3. CASE UNCHANGED <<lastItem, items>>
    BY <1>1, <2>1, <2>3
  <2> QED BY <1>2, <2>2, <2>3 DEF Fetched
<1>3. CASE Traffic
  BY <1>3, TrafficSamples
<1> QED BY <1>1, <1>2, <1>3
        DEF Next, RunOnce, GetItems, SendRequest, ServeOld, ServeNew, TickStop, TickFetch,
            Second, router, vars

\* However devices change and counters are reset, and however many samples
\* are kept, no average the page shows is negative.
THEOREM RatesCorrect == Spec => []RatesNotNegative
<1>1. Init => SamplesInv
  BY DEF Init, SamplesInv, RatesNotNegative, BytesOnce, Ended
<1>2. SamplesInv => RatesNotNegative
  BY DEF SamplesInv
<1> QED BY <1>1, <1>2, TypeInit, TypeNext, SamplesNext, PTL DEF Spec

\* No byte is counted in two samples, for any number of devices and slots.
THEOREM BytesCountedOnce == Spec => []BytesOnce
<1>1. Init => SamplesInv
  BY DEF Init, SamplesInv, RatesNotNegative, BytesOnce, Ended
<1>2. SamplesInv => BytesOnce
  BY DEF SamplesInv
<1> QED BY <1>1, <1>2, TypeInit, TypeNext, SamplesNext, PTL DEF Spec

-----------------------------------------------------------------------------
(* The LAN sampler: totals.  A total is the value, at the set of all the   *)
(* connections, of a function that is defined by recursion on the sets of  *)
(* them; it exists because there are finitely many.                        *)

Step(bytes, F, s) ==
  IF s = {} THEN 0 ELSE bytes[CHOOSE x \in s : TRUE] + F[s \ {CHOOSE x \in s : TRUE}]
Sums(bytes, S, F) == F = [s \in SUBSET S |-> Step(bytes, F, s)]
Level(S, n) == {s \in SUBSET S : Cardinality(s) <= n}
SumsUpTo(bytes, S, n, F) == F = [s \in Level(S, n) |-> Step(bytes, F, s)]

\* A total is the value of a solution, if there is one.
LEMMA TotalIs ==
  ASSUME NEW bytes, NEW S, \E F : Sums(bytes, S, F)
  PROVE  \E F : Sums(bytes, S, F) /\ Total(bytes, S) = F[S]
<1> DEFINE G == CHOOSE F : Sums(bytes, S, F)
<1>1. Sums(bytes, S, G)
  OBVIOUS
<1>2. Total(bytes, S) = G[S]
  BY DEF Total, MapThenSumSet, MapThenFoldSet, Sums, Step
<1> QED BY <1>1, <1>2

\* A solution of numbers is a number everywhere.
LEMMA SumsNat ==
  ASSUME NEW bytes, NEW S, IsFiniteSet(S), \A x \in S : bytes[x] \in Nat, NEW F, Sums(bytes, S, F)
  PROVE  \A s \in SUBSET S : F[s] \in Nat
<1> DEFINE Good == {n \in Nat : \A s \in SUBSET S : Cardinality(s) = n => F[s] \in Nat}
<1>1. \A s \in SUBSET S : IsFiniteSet(s) /\ Cardinality(s) \in Nat /\ (Cardinality(s) = 0 <=> s = {})
  BY FS_Subset, FS_CardinalityType, FS_EmptySet
<1>2. \A s \in SUBSET S : F[s] = Step(bytes, F, s)
  BY DEF Sums
<1>3. 0 \in Good
  BY <1>1, <1>2 DEF Step
<1>4. ASSUME NEW n \in Nat, n \in Good PROVE n + 1 \in Good
  <2> SUFFICES ASSUME NEW s \in SUBSET S, Cardinality(s) = n + 1 PROVE F[s] \in Nat
    OBVIOUS
  <2> DEFINE x == CHOOSE y \in s : TRUE
  <2>1. s # {} /\ x \in s
    BY <1>1
  <2> HIDE DEF x
  <2>2. s \ {x} \in SUBSET S /\ Cardinality(s \ {x}) = n
    <3>1. IsFiniteSet(s)
      BY <1>1
    <3>2. Cardinality(s \ {x}) = Cardinality(s) - 1
      BY <2>1, <3>1, FS_RemoveElement
    <3> QED BY <3>2
  <2>3. F[s \ {x}] \in Nat /\ bytes[x] \in Nat
    BY <2>1, <2>2, <1>4
  <2>4. F[s] = bytes[x] + F[s \ {x}]
    BY <2>1, <1>2 DEF Step, x
  <2> QED BY <2>3, <2>4
<1>5. Nat \subseteq Good
  <2> HIDE DEF Good
  <2> QED BY <1>3, <1>4, NatInSet
<1> QED BY <1>1, <1>5

\* There is a solution, built up by the size of the sets.
LEMMA SumsExist ==
  ASSUME NEW bytes, NEW S, IsFiniteSet(S)
  PROVE  \E F : Sums(bytes, S, F)
<1> DEFINE Good == {n \in Nat : \E F : SumsUpTo(bytes, S, n, F)}
<1>1. \A s \in SUBSET S : /\ IsFiniteSet(s) /\ Cardinality(s) \in Nat
                          /\ (Cardinality(s) = 0 <=> s = {}) /\ Cardinality(s) <= Cardinality(S)
  BY FS_Subset, FS_CardinalityType, FS_EmptySet
<1>2. ASSUME NEW s \in SUBSET S, s # {}
      PROVE  /\ s \ {CHOOSE x \in s : TRUE} \in SUBSET S
             /\ Cardinality(s \ {CHOOSE x \in s : TRUE}) = Cardinality(s) - 1
  <2> DEFINE x == CHOOSE y \in s : TRUE
  <2>1. x \in s
    BY <1>2
  <2> HIDE DEF x
  <2>2. IsFiniteSet(s)
    BY <1>1
  <2>3. Cardinality(s \ {x}) = Cardinality(s) - 1
    BY <2>1, <2>2, FS_RemoveElement
  <2> QED BY <2>3 DEF x
<1>3. 0 \in Good
  <2> DEFINE F == [s \in Level(S, 0) |-> 0]
  <2>1. \A s \in Level(S, 0) : s = {}
    BY <1>1 DEF Level
  <2>2. SumsUpTo(bytes, S, 0, F)
    BY <2>1 DEF SumsUpTo, Step
  <2> QED BY <2>2
<1>4. ASSUME NEW n \in Nat, n \in Good PROVE n + 1 \in Good
  <2>1. PICK F : SumsUpTo(bytes, S, n, F)
    BY <1>4
  <2> DEFINE G == [s \in Level(S, n + 1) |-> Step(bytes, F, s)]
  <2>2. \A s \in Level(S, n) : s \in Level(S, n + 1) /\ G[s] = F[s]
    BY <2>1, <1>1 DEF SumsUpTo, Level
  <2>3. ASSUME NEW s \in Level(S, n + 1) PROVE Step(bytes, F, s) = Step(bytes, G, s)
    <3>1. CASE s = {}
      BY <3>1 DEF Step
    <3>2. CASE s # {}
      <4>1. s \ {CHOOSE x \in s : TRUE} \in Level(S, n)
        BY <3>2, <1>1, <1>2 DEF Level
      <4>2. G[s \ {CHOOSE x \in s : TRUE}] = F[s \ {CHOOSE x \in s : TRUE}]
        BY <4>1, <2>2
      <4> HIDE DEF G
      <4> QED BY <3>2, <4>2 DEF Step
    <3> QED BY <3>1, <3>2
  <2>4. SumsUpTo(bytes, S, n + 1, G)
    BY <2>3 DEF SumsUpTo
  <2> QED BY <2>4
<1>5. Nat \subseteq Good
  <2> HIDE DEF Good
  <2> QED BY <1>3, <1>4, NatInSet
<1>6. Cardinality(S) \in Nat /\ Level(S, Cardinality(S)) = SUBSET S
  BY <1>1 DEF Level
<1>7. PICK F : SumsUpTo(bytes, S, Cardinality(S), F)
  BY <1>5, <1>6
<1> QED BY <1>6, <1>7 DEF SumsUpTo, Sums

\* A total of numbers is a number.
LEMMA TotalNat ==
  ASSUME NEW bytes, NEW S, IsFiniteSet(S), \A x \in S : bytes[x] \in Nat
  PROVE  Total(bytes, S) \in Nat
BY SumsExist, TotalIs, SumsNat

\* Without a connection it is nothing.
LEMMA TotalOfNone ==
  ASSUME NEW bytes, NEW S, S = {}
  PROVE  Total(bytes, S) = 0
<1>1. IsFiniteSet(S)
  BY FS_EmptySet
<1>2. PICK F : Sums(bytes, S, F) /\ Total(bytes, S) = F[S]
  BY <1>1, SumsExist, TotalIs
<1>3. F[S] = Step(bytes, F, S)
  BY <1>2 DEF Sums
<1> QED BY <1>2, <1>3 DEF Step

-----------------------------------------------------------------------------
(* The LAN sampler: its inductive invariant                                *)

Bytes == [tx : Nat, rx : Nat]
LanHost == [mark : Seq(Bytes), items : Seq(Bytes)]

LanTyped ==
  /\ lanTm \in 0 .. LanOff /\ lanRunning \in BOOLEAN /\ lanIdle \in 0 .. LanMaxIdle
  /\ conn \in {"none", "open", "broken"} /\ lanCh \in LanCallers \union {NoOne}
  /\ lanCaller \in [LanCallers -> {"idle", "sending", "waiting"}]
  /\ DOMAIN hosts \subseteq Addrs /\ hosts \in [DOMAIN hosts -> LanHost]
  /\ \A h \in DOMAIN hosts : Len(hosts[h].mark) = 1 /\ Len(hosts[h].items) <= LanSlots
  /\ DOMAIN flows \subseteq LanFlows /\ flows \in [DOMAIN flows -> [up : Nat, down : Nat]]
  /\ quiet \in [Addrs -> 0 .. 2]

\* One sample without a connection leaves a mark of nothing, the second one a
\* speed of nothing.
AtRest ==
  \A h \in DOMAIN hosts :
    /\ quiet[h] >= 1 => hosts[h].mark = <<NoBytes>>
    /\ quiet[h] >= 2 /\ hosts[h].items # <<>> => Last(hosts[h].items) = NoBytes

\* A tick that finds the sampler stopped finds the last request too old.
StoppedIsOld == ~lanRunning => lanIdle > LanStop

LanInv == LanTyped /\ AtRest /\ SocketHeld /\ StoppedIsOld

\* LanStopTicks * LanTickSec is the only product.
LEMMA LanTimes ==
  /\ LanTickSec \in Nat /\ LanTickSec > 0 /\ LanStop \in Nat
  /\ LanOff = LanTickSec + 1 /\ LanMaxIdle = LanStop + LanTickSec + 1
BY LanStatsAssumption DEF LanStop, LanOff, LanMaxIdle

Busy == {f[1] : f \in DOMAIN flows} \union {f[2] : f \in DOMAIN flows}

\* The totals of an address are numbers, and nothing when it has no connection.
LEMMA AddSpeeds ==
  ASSUME LanTyped, NEW h
  PROVE  addSpeeds(h) \in Bytes /\ (h \notin Busy => addSpeeds(h) = NoBytes)
<1> DEFINE from == {f \in DOMAIN flows : f[1] = h}
           to == {f \in DOMAIN flows : f[2] = h}
           up == LanCounter("up")
           down == LanCounter("down")
<1>1. IsFiniteSet(from) /\ IsFiniteSet(to)
  <2>1. from \in SUBSET LanFlows /\ to \in SUBSET LanFlows
    BY DEF LanTyped
  <2> HIDE DEF from, to
  <2> QED BY <2>1, FS_Subset, LanStatsAssumption
<1>2. \A f \in DOMAIN flows : up[f] \in Nat /\ down[f] \in Nat
  BY DEF LanTyped, LanCounter
<1>3. from \subseteq DOMAIN flows /\ to \subseteq DOMAIN flows
  OBVIOUS
<1>4. h \notin Busy => from = {} /\ to = {}
  BY DEF Busy
<1>5. addSpeeds(h) = [tx |-> Total(up, from) + Total(down, to), rx |-> Total(down, from) + Total(up, to)]
  BY DEF addSpeeds
<1> HIDE DEF from, to, up, down
<1>6. /\ Total(up, from) \in Nat /\ Total(down, to) \in Nat
      /\ Total(down, from) \in Nat /\ Total(up, to) \in Nat
  BY <1>1, <1>2, <1>3, TotalNat
<1>7. from = {} /\ to = {} => /\ Total(up, from) = 0 /\ Total(down, to) = 0
                              /\ Total(down, from) = 0 /\ Total(up, to) = 0
  BY TotalOfNone
<1> QED BY <1>4, <1>5, <1>6, <1>7 DEF Bytes, NoBytes

\* A sample is put in last, and the oldest one out.
LEMMA KeepItemType ==
  ASSUME NEW its \in Seq(Bytes), Len(its) <= LanSlots, NEW item \in Bytes
  PROVE  /\ KeepItem(its, item) \in Seq(Bytes) /\ Len(KeepItem(its, item)) <= LanSlots
         /\ KeepItem(its, item) # <<>> /\ Last(KeepItem(its, item)) = item
<1>1. LanSlots \in Nat \ {0}
  BY LanStatsAssumption
<1>2. CASE Len(its) >= LanSlots
  <2>1. its # <<>> /\ Len(Tail(its)) = Len(its) - 1 /\ Tail(its) \in Seq(Bytes)
    BY <1>1, <1>2
  <2>2. KeepItem(its, item) = Append(Tail(its), item)
    BY <1>2 DEF KeepItem
  <2> QED BY <1>1, <2>1, <2>2, AppendProperties DEF Last
<1>3. CASE ~(Len(its) >= LanSlots)
  <2>1. KeepItem(its, item) = Append(its, item)
    BY <1>3 DEF KeepItem
  <2> QED BY <1>1, <1>3, <2>1, AppendProperties DEF Last
<1> QED BY <1>2, <1>3

\* A new sample of an address that was seen before.
LEMMA ProcessSeen ==
  ASSUME NEW host \in LanHost, Len(host.mark) = 1, Len(host.items) <= LanSlots,
         NEW now \in Bytes, NEW r, r = processHost(host, now)
  PROVE  /\ r \in LanHost /\ r.mark = <<now>> /\ Len(r.items) <= LanSlots
         /\ host.mark = <<NoBytes>> /\ now = NoBytes => Last(r.items) = NoBytes
<1> DEFINE item == [tx |-> Speed(host, now, "tx"), rx |-> Speed(host, now, "rx")]
<1>1. host.mark \in Seq(Bytes) /\ host.items \in Seq(Bytes) /\ host.mark[1] \in Bytes /\ host.mark # <<>>
  <2>1. host.mark \in Seq(Bytes) /\ host.items \in Seq(Bytes)
    BY DEF LanHost
  <2>2. host.mark[1] \in Bytes
    BY <2>1, ElementOfSeq
  <2> QED BY <2>1, <2>2
<1>2. host.items # <<>> => Last(host.items) \in Bytes
  BY <1>1 DEF Last
<1>3. \A way \in {"tx", "rx"} : Speed(host, now, way) \in Nat
  BY <1>1, <1>2, SMTT(30) DEF Speed, Last, Bytes
<1>4. host.mark = <<NoBytes>> /\ now = NoBytes => item = NoBytes
  BY DEF Speed, NoBytes
<1>5. item \in Bytes
  BY <1>3 DEF Bytes
<1>6. r = [mark |-> <<now>>, items |-> KeepItem(host.items, item)]
  BY <1>1 DEF processHost
<1> HIDE DEF item
<1>7. /\ KeepItem(host.items, item) \in Seq(Bytes) /\ Len(KeepItem(host.items, item)) <= LanSlots
      /\ Last(KeepItem(host.items, item)) = item
  BY <1>1, <1>5, KeepItemType
<1>8. r \in LanHost
  BY <1>6, <1>7 DEF LanHost
<1> QED BY <1>4, <1>6, <1>7, <1>8

\* The first one.
LEMMA ProcessNew ==
  ASSUME NEW now \in Bytes, NEW r, r = processHost([mark |-> <<>>, items |-> <<>>], now)
  PROVE  r \in LanHost /\ r.mark = <<now>> /\ r.items = <<>>
BY DEF processHost, LanHost

\* A sample: addresses are only ever added, with a connection to show for it.
LEMMA SampledStep ==
  ASSUME LanTyped, AtRest, Sampled
  PROVE  /\ DOMAIN hosts' \subseteq Addrs /\ hosts' \in [DOMAIN hosts' -> LanHost]
         /\ \A h \in DOMAIN hosts' : Len(hosts'[h].mark) = 1 /\ Len(hosts'[h].items) <= LanSlots
         /\ quiet' \in [Addrs -> 0 .. 2] /\ AtRest'
<1> DEFINE old(h) == IF h \in DOMAIN hosts THEN hosts[h] ELSE [mark |-> <<>>, items |-> <<>>]
<1>1. /\ hosts' = [h \in DOMAIN hosts \union Busy |-> processHost(old(h), addSpeeds(h))]
      /\ quiet' = [h \in Addrs |-> IF h \in Busy THEN 0 ELSE IF quiet[h] < 2 THEN quiet[h] + 1 ELSE 2]
  BY DEF Sampled, Busy
<1>2. Busy \subseteq Addrs
  BY DEF LanTyped, Busy, Addrs
<1>3. DOMAIN hosts' = DOMAIN hosts \union Busy /\ DOMAIN hosts' \subseteq Addrs
  BY <1>1, <1>2 DEF LanTyped
<1>4. quiet' \in [Addrs -> 0 .. 2]
  BY <1>1 DEF LanTyped
<1>5. ASSUME NEW h \in DOMAIN hosts'
      PROVE  /\ hosts'[h] \in LanHost /\ Len(hosts'[h].mark) = 1 /\ Len(hosts'[h].items) <= LanSlots
             /\ quiet'[h] >= 1 => hosts'[h].mark = <<NoBytes>>
             /\ quiet'[h] >= 2 /\ hosts'[h].items # <<>> => Last(hosts'[h].items) = NoBytes
  <2>1. addSpeeds(h) \in Bytes /\ (h \notin Busy => addSpeeds(h) = NoBytes)
    BY AddSpeeds
  <2> DEFINE now == addSpeeds(h)
             r == hosts'[h]
  <2>2. r = processHost(old(h), now) /\ h \in Addrs
    BY <1>1, <1>3
  <2>3. quiet'[h] = IF h \in Busy THEN 0 ELSE IF quiet[h] < 2 THEN quiet[h] + 1 ELSE 2
    BY <2>2, <1>1
  <2>4. quiet[h] \in 0 .. 2
    BY <2>2 DEF LanTyped
  <2>5. CASE h \in DOMAIN hosts
    <3>1. hosts[h] \in LanHost /\ Len(hosts[h].mark) = 1 /\ Len(hosts[h].items) <= LanSlots
      BY <2>5 DEF LanTyped
    <3>2. quiet[h] >= 1 => hosts[h].mark = <<NoBytes>>
      BY <2>5 DEF AtRest
    <3>3. r = processHost(hosts[h], now)
      BY <2>2, <2>5
    <3> HIDE DEF r, now, old
    <3>4. /\ r \in LanHost /\ r.mark = <<now>> /\ Len(r.items) <= LanSlots
          /\ hosts[h].mark = <<NoBytes>> /\ now = NoBytes => Last(r.items) = NoBytes
      BY <2>1, <3>1, <3>3, ProcessSeen DEF now
    <3> QED BY <2>1, <2>3, <2>4, <3>2, <3>4 DEF r, now
  <2>6. CASE h \notin DOMAIN hosts
    <3>1. r = processHost([mark |-> <<>>, items |-> <<>>], now)
      BY <2>2, <2>6
    <3>2. h \in Busy
      BY <2>6, <1>3
    <3> HIDE DEF r, now, old
    <3>3. r \in LanHost /\ r.mark = <<now>> /\ r.items = <<>>
      BY <2>1, <3>1, ProcessNew DEF now
    <3>4. Len(r.mark) = 1 /\ Len(r.items) <= LanSlots
      BY <3>3, LanStatsAssumption
    <3> QED BY <2>3, <3>2, <3>3, <3>4 DEF r
  <2> QED BY <2>5, <2>6
<1>6. hosts' \in [DOMAIN hosts' -> LanHost]
  BY <1>1, <1>3, <1>5
<1> QED BY <1>3, <1>4, <1>5, <1>6 DEF AtRest

\* A fetch samples, or fails and leaves everything as it was.
LEMMA FetchStep ==
  ASSUME LanTyped, AtRest, fetchItems
  PROVE  /\ DOMAIN hosts' \subseteq Addrs /\ hosts' \in [DOMAIN hosts' -> LanHost]
         /\ \A h \in DOMAIN hosts' : Len(hosts'[h].mark) = 1 /\ Len(hosts'[h].items) <= LanSlots
         /\ quiet' \in [Addrs -> 0 .. 2] /\ AtRest' /\ conn' \in {"none", "open", "broken"}
<1>1. CASE UNCHANGED <<conn, hosts, quiet>>
  BY <1>1 DEF LanTyped, AtRest
<1>2. CASE conn' = "open" /\ Sampled
  BY <1>2, SampledStep
<1> QED BY <1>1, <1>2 DEF fetchItems

LEMMA LanNext == LanInv /\ [LanStatsNext]_lanStatVars => LanInv'
<1> SUFFICES ASSUME LanInv, [LanStatsNext]_lanStatVars PROVE LanInv'
  OBVIOUS
<1> USE LanTimes DEF LanInv
<1>1. CASE UNCHANGED lanStatVars
  BY <1>1 DEF LanTyped, AtRest, SocketHeld, StoppedIsOld, lanStatVars
<1>2. ASSUME NEW c \in LanCallers, reqHosts(c) \/ LanSend(c) PROVE LanInv'
  BY <1>2 DEF LanTyped, AtRest, SocketHeld, StoppedIsOld, reqHosts, LanSend
<1>3. CASE LanServeOld
  <2>1. lanCh \in LanCallers
    BY <1>3 DEF LanServeOld, LanTyped
  <2> QED BY <1>3, <2>1 DEF LanTyped, AtRest, SocketHeld, StoppedIsOld, LanServeOld
<1>4. CASE LanServeNew
  <2>1. lanCh \in LanCallers
    BY <1>4 DEF LanServeNew, LanTyped
  <2>2. /\ lanTm' = LanTickSec /\ lanRunning' = TRUE /\ lanIdle' = 0 /\ fetchItems
        /\ lanCh' = NoOne /\ lanCaller' = [lanCaller EXCEPT ![lanCh] = "idle"]
        /\ flows' = flows
    BY <1>4 DEF LanServeNew
  <2>3. LanTyped' /\ AtRest'
    BY <2>1, <2>2, FetchStep DEF LanTyped
  <2>4. SocketHeld' /\ StoppedIsOld'
    BY <2>2 DEF SocketHeld, StoppedIsOld
  <2> QED BY <2>3, <2>4
<1>5. CASE LanTickStop
  <2> USE <1>5 DEF LanTickStop
  <2>1. lanTm' \in 0 .. LanOff /\ lanRunning' \in BOOLEAN /\ conn' \in {"none", "open", "broken"}
        /\ UNCHANGED <<lanIdle, hosts, lanCh, lanCaller, flows, quiet>>
    <3>1. lanTm' = LanOff /\ LanOff \in 0 .. LanOff
      OBVIOUS
    <3>2. lanRunning' = FALSE /\ conn' = "none"
          /\ UNCHANGED <<lanIdle, hosts, lanCh, lanCaller, flows, quiet>>
      OBVIOUS
    <3> QED BY <3>1, <3>2
  <2>3. LanTyped' /\ AtRest'
    BY <2>1 DEF LanTyped, AtRest
  <2>2. SocketHeld' /\ StoppedIsOld'
    BY DEF SocketHeld, StoppedIsOld
  <2> QED BY <2>3, <2>2
<1>6. CASE LanTickFetch
  <2>1. /\ lanTm = 0 /\ lanIdle <= LanStop /\ lanTm' = LanTickSec /\ fetchItems
        /\ UNCHANGED <<lanRunning, lanIdle, lanCh, lanCaller, flows>>
    BY <1>6 DEF LanTickFetch
  <2>2. LanTyped' /\ AtRest'
    BY <2>1, FetchStep DEF LanTyped
  <2>3. lanRunning
    BY <2>1 DEF StoppedIsOld, LanTyped
  <2>4. SocketHeld' /\ StoppedIsOld'
    BY <2>1, <2>3 DEF SocketHeld, StoppedIsOld, LanTyped
  <2> QED BY <2>2, <2>4
<1>7. CASE LanSecond
  <2>1. UNCHANGED <<lanRunning, conn, hosts, lanCh, lanCaller, flows, quiet>>
    BY <1>7 DEF LanSecond
  <2>2. lanTm' \in 0 .. LanOff /\ lanIdle' \in 0 .. LanMaxIdle /\ (lanTm # LanOff => lanTm' # LanOff)
        /\ (lanIdle > LanStop => lanIdle' > LanStop)
    BY <1>7 DEF LanSecond, LanTyped
  <2> QED BY <2>1, <2>2 DEF LanTyped, AtRest, SocketHeld, StoppedIsOld
<1>8. CASE LanTraffic
  <2>1. UNCHANGED <<lanTm, lanRunning, lanIdle, conn, hosts, lanCh, lanCaller, quiet>>
    BY <1>8 DEF LanTraffic
  <2>2. DOMAIN flows' \subseteq LanFlows /\ flows' \in [DOMAIN flows' -> [up : Nat, down : Nat]]
    <3>1. ASSUME NEW f \in LanFlows \ DOMAIN flows,
                 flows' = [g \in DOMAIN flows \union {f} |-> IF g = f THEN [up |-> 0, down |-> 0] ELSE flows[g]]
          PROVE  DOMAIN flows' \subseteq LanFlows /\ flows' \in [DOMAIN flows' -> [up : Nat, down : Nat]]
      BY <3>1 DEF LanTyped
    <3>2. ASSUME NEW f \in DOMAIN flows, NEW way \in {"up", "down"},
                 flows' = [flows EXCEPT ![f][way] = @ + 1]
          PROVE  DOMAIN flows' \subseteq LanFlows /\ flows' \in [DOMAIN flows' -> [up : Nat, down : Nat]]
      <4>1. flows[f] \in [up : Nat, down : Nat]
        BY DEF LanTyped
      <4>2. [flows[f] EXCEPT ![way] = @ + 1] \in [up : Nat, down : Nat]
        BY <4>1
      <4> QED BY <3>2, <4>2 DEF LanTyped
    <3>3. ASSUME NEW f \in DOMAIN flows, flows' = [g \in DOMAIN flows \ {f} |-> flows[g]]
          PROVE  DOMAIN flows' \subseteq LanFlows /\ flows' \in [DOMAIN flows' -> [up : Nat, down : Nat]]
      BY <3>3 DEF LanTyped
    <3> QED BY <1>8, <3>1, <3>2, <3>3 DEF LanTraffic
  <2> QED BY <2>1, <2>2 DEF LanTyped, AtRest, SocketHeld, StoppedIsOld
<1>9. CASE Break
  BY <1>9 DEF LanTyped, AtRest, SocketHeld, StoppedIsOld, Break
<1> QED BY <1>1, <1>2, <1>3, <1>4, <1>5, <1>6, <1>7, <1>8, <1>9 DEF LanStatsNext, LanRunOnce

LEMMA ShortRange ==
  ASSUME NEW s, NEW x, s = <<>> \/ s = <<x>>
  PROVE  Range(s) \subseteq {x}
<1>1. CASE s = <<>>
  <2>1. DOMAIN s = {}
    BY <1>1
  <2> QED BY <2>1 DEF Range
<1>2. CASE s = <<x>>
  <2>1. DOMAIN <<x>> = {1} /\ <<x>>[1] = x
    OBVIOUS
  <2> QED BY <1>2, <2>1 DEF Range
<1> QED BY <1>1, <1>2

\* What is shown of an address is its last speed.
LEMMA RestIsShown ==
  ASSUME LanTyped, AtRest
  PROVE  QuietIsShown
<1> SUFFICES ASSUME NEW h \in DOMAIN hosts, quiet[h] >= 2,
                    NEW ret \in respHosts(h, TRUE) \union respHosts("", TRUE), ret.ip = h
             PROVE  Range(ret.items) \subseteq {NoBytes}
  BY DEF QuietIsShown
<1>1. ret.items = LastOf(hosts[h])
  <2>1. \A ip : respHosts(ip, TRUE)
                  \subseteq {[ip |-> a, items |-> LastOf(hosts[a])] : a \in DOMAIN hosts}
    BY DEF respHosts
  <2>2. PICK a \in DOMAIN hosts : ret = [ip |-> a, items |-> LastOf(hosts[a])]
    BY <2>1
  <2> QED BY <2>2
<1>2. hosts[h].items # <<>> => Last(hosts[h].items) = NoBytes
  BY DEF AtRest
<1>3. ret.items = <<>> \/ ret.items = <<NoBytes>>
  BY <1>1, <1>2 DEF LastOf, Last
<1> QED BY <1>3, ShortRange

\* The LAN sampler, for any tick, any connections between any addresses and
\* any faults of the socket: its speeds are numbers, an address that went
\* quiet is shown so, and only a sampler with a tick ahead holds the socket.
THEOREM LanSamplerCorrect == LanStatsSpec => []LanStatsCorrect
<1>1. LanStatsInit => LanInv
  <2> SUFFICES ASSUME LanStatsInit PROVE LanInv
    OBVIOUS
  <2> USE LanTimes DEF LanStatsInit
  <2>1. DOMAIN hosts = {} /\ DOMAIN flows = {}
    OBVIOUS
  <2>2. /\ hosts \in [DOMAIN hosts -> LanHost] /\ flows \in [DOMAIN flows -> [up : Nat, down : Nat]]
        /\ DOMAIN hosts \subseteq Addrs /\ DOMAIN flows \subseteq LanFlows
        /\ \A h \in DOMAIN hosts : Len(hosts[h].mark) = 1 /\ Len(hosts[h].items) <= LanSlots
    BY <2>1
  <2>3. LanTyped
    <3>1. lanTm \in 0 .. LanOff /\ lanRunning \in BOOLEAN /\ lanIdle \in 0 .. LanMaxIdle
      <4>1. LanTickSec \in 0 .. LanOff /\ LanMaxIdle \in 0 .. LanMaxIdle
        OBVIOUS
      <4> QED BY <4>1
    <3>2. /\ conn \in {"none", "open", "broken"} /\ lanCh \in LanCallers \union {NoOne}
          /\ lanCaller \in [LanCallers -> {"idle", "sending", "waiting"}]
          /\ quiet \in [Addrs -> 0 .. 2]
      OBVIOUS
    <3> QED BY <2>2, <3>1, <3>2 DEF LanTyped
  <2>4. AtRest /\ SocketHeld /\ StoppedIsOld
    BY <2>1 DEF AtRest, SocketHeld, StoppedIsOld
  <2> QED BY <2>3, <2>4 DEF LanInv
<1>2. LanInv => LanStatsCorrect
  <2> SUFFICES ASSUME LanInv PROVE LanStatsCorrect
    OBVIOUS
  <2>1. ASSUME NEW h \in DOMAIN hosts, NEW i \in DOMAIN hosts[h].items
        PROVE  hosts[h].items[i].tx \in Nat /\ hosts[h].items[i].rx \in Nat
    <3>1. hosts[h].items \in Seq(Bytes)
      BY DEF LanInv, LanTyped, LanHost
    <3>2. hosts[h].items[i] \in Bytes
      BY <3>1
    <3> QED BY <3>2 DEF Bytes
  <2>2. LanStatsTypeOK
    BY <2>1 DEF LanInv, LanTyped, LanStatsTypeOK
  <2>3. QuietIsShown /\ SocketHeld
    BY RestIsShown DEF LanInv
  <2> QED BY <2>2, <2>3 DEF LanStatsCorrect
<1> QED BY <1>1, <1>2, LanNext, PTL DEF LanStatsSpec
-----------------------------------------------------------------------------
(* The speed limits: the machine after each command                        *)

LimRan(s, cmds, n, f) == f = [k \in 0 .. n |-> IF k = 0 THEN s ELSE ExecLimit(f[k - 1], cmds[k])]

LEMMA LimRanExists ==
  ASSUME NEW s, NEW cmds
  PROVE  \A n \in Nat : \E f : LimRan(s, cmds, n, f)
<1> DEFINE Good == {n \in Nat : \E f : LimRan(s, cmds, n, f)}
<1>1. 0 \in Good
  <2> DEFINE f == [k \in 0 .. 0 |-> s]
  <2>1. f = [k \in 0 .. 0 |-> IF k = 0 THEN s ELSE ExecLimit(f[k - 1], cmds[k])]
    OBVIOUS
  <2>2. LimRan(s, cmds, 0, f)
    BY <2>1 DEF LimRan
  <2> QED BY <2>2
<1>2. ASSUME NEW n \in Nat, n \in Good PROVE n + 1 \in Good
  <2>1. PICK f : LimRan(s, cmds, n, f)
    BY <1>2
  <2> DEFINE g == [k \in 0 .. n + 1 |-> IF k = 0 THEN s ELSE ExecLimit(f[k - 1], cmds[k])]
  <2>2. \A k \in 0 .. n : g[k] = f[k]
    <3> TAKE k \in 0 .. n
    <3>1. k \in 0 .. n + 1
      OBVIOUS
    <3>2. f[k] = IF k = 0 THEN s ELSE ExecLimit(f[k - 1], cmds[k])
      BY <2>1 DEF LimRan
    <3> QED BY <3>1, <3>2
  <2>3. \A k \in 0 .. n + 1 : k # 0 => g[k - 1] = f[k - 1]
    <3> TAKE k \in 0 .. n + 1
    <3> HAVE k # 0
    <3>1. k - 1 \in 0 .. n
      OBVIOUS
    <3> HIDE DEF g
    <3> QED BY <3>1, <2>2
  <2>4. \A k \in 0 .. n + 1 : g[k] = IF k = 0 THEN s ELSE ExecLimit(g[k - 1], cmds[k])
    <3> TAKE k \in 0 .. n + 1
    <3>1. g[k] = IF k = 0 THEN s ELSE ExecLimit(f[k - 1], cmds[k])
      OBVIOUS
    <3> HIDE DEF g
    <3> QED BY <3>1, <2>3
  <2>5. g = [k \in 0 .. n + 1 |-> g[k]]
    OBVIOUS
  <2> HIDE DEF g
  <2>6. LimRan(s, cmds, n + 1, g)
    BY <2>4, <2>5 DEF LimRan
  <2> QED BY <2>6
<1>3. Nat \subseteq Good
  <2> HIDE DEF Good
  <2> QED BY <1>1, <1>2, NatInSet
<1> QED BY <1>3

\* A request's commands run one after the other.
LEMMA LimRunIs ==
  ASSUME NEW s, NEW cmds, Len(cmds) \in Nat
  PROVE  /\ LimRun(s, cmds)[0] = s
         /\ \A k \in 1 .. Len(cmds) : LimRun(s, cmds)[k] = ExecLimit(LimRun(s, cmds)[k - 1], cmds[k])
<1> DEFINE f == LimRun(s, cmds)
<1>1. f = CHOOSE g : LimRan(s, cmds, Len(cmds), g)
  BY DEF LimRun, LimRan
<1>2. LimRan(s, cmds, Len(cmds), f)
  BY <1>1, LimRanExists
<1> HIDE DEF f
<1>3. f = [k \in 0 .. Len(cmds) |-> IF k = 0 THEN s ELSE ExecLimit(f[k - 1], cmds[k])]
  BY <1>2 DEF LimRan
<1>4. f[0] = s
  BY <1>3
<1>5. \A k \in 1 .. Len(cmds) : f[k] = ExecLimit(f[k - 1], cmds[k])
  BY <1>3
<1> QED BY <1>4, <1>5 DEF f

\* Where the commands lead.
After(s, cmds) == LimRun(s, cmds)[Len(cmds)]

LEMMA AfterJoined ==
  ASSUME NEW S, NEW a \in Seq(S), NEW b \in Seq(S), NEW s
  PROVE  After(s, a \o b) = After(After(s, a), b)
<1> DEFINE c == a \o b
           x == LimRun(s, a)
           z == LimRun(s, c)
           m == Len(a)
           n == Len(b)
           t == x[m]
           y == LimRun(t, b)
<1>1. m \in Nat /\ n \in Nat /\ Len(c) = m + n
  OBVIOUS
<1>2. (\A k \in 1 .. m : c[k] = a[k]) /\ (\A k \in 1 .. n : c[m + k] = b[k])
  OBVIOUS
<1> HIDE DEF c
<1>3. x[0] = s /\ \A k \in 1 .. m : x[k] = ExecLimit(x[k - 1], a[k])
  BY <1>1, LimRunIs
<1>4. z[0] = s /\ \A k \in 1 .. m + n : z[k] = ExecLimit(z[k - 1], c[k])
  BY <1>1, LimRunIs
<1> HIDE DEF x, z
<1>5. y[0] = t /\ \A k \in 1 .. n : y[k] = ExecLimit(y[k - 1], b[k])
  BY <1>1, LimRunIs
<1> HIDE DEF y, m, n
<1>6. \A k \in 0 .. m : z[k] = x[k]
  <2> DEFINE Good == {k \in Nat : k <= m => z[k] = x[k]}
  <2>1. 0 \in Good
    BY <1>3, <1>4
  <2>2. ASSUME NEW k \in Nat, k \in Good PROVE k + 1 \in Good
    <3> SUFFICES ASSUME k + 1 <= m PROVE z[k + 1] = x[k + 1]
      OBVIOUS
    <3>1. k + 1 \in 1 .. m /\ k + 1 \in 1 .. m + n /\ (k + 1) - 1 = k /\ z[k] = x[k]
      BY <1>1, <2>2
    <3>2. z[k + 1] = ExecLimit(z[k], c[k + 1]) /\ x[k + 1] = ExecLimit(x[k], a[k + 1]) /\ c[k + 1] = a[k + 1]
      BY <1>2, <1>3, <1>4, <3>1
    <3> QED BY <3>1, <3>2
  <2>3. Nat \subseteq Good
    <3> HIDE DEF Good
    <3> QED BY <2>1, <2>2, NatInSet
  <2> QED BY <1>1, <2>3
<1>7. \A k \in 0 .. n : z[m + k] = y[k]
  <2> DEFINE Good == {k \in Nat : k <= n => z[m + k] = y[k]}
  <2>1. 0 \in Good
    BY <1>1, <1>5, <1>6 DEF t
  <2>2. ASSUME NEW k \in Nat, k \in Good PROVE k + 1 \in Good
    <3> SUFFICES ASSUME k + 1 <= n PROVE z[m + (k + 1)] = y[k + 1]
      OBVIOUS
    <3>1. k + 1 \in 1 .. n /\ m + (k + 1) \in 1 .. m + n /\ (k + 1) - 1 = k /\ (m + (k + 1)) - 1 = m + k /\ z[m + k] = y[k]
      BY <1>1, <2>2
    <3>2. z[m + (k + 1)] = ExecLimit(z[m + k], c[m + (k + 1)]) /\ y[k + 1] = ExecLimit(y[k], b[k + 1]) /\ c[m + (k + 1)] = b[k + 1]
      BY <1>2, <1>4, <1>5, <3>1
    <3> QED BY <3>1, <3>2
  <2>3. Nat \subseteq Good
    <3> HIDE DEF Good
    <3> QED BY <2>1, <2>2, NatInSet
  <2> QED BY <1>1, <2>3
<1>8. z[m + n] = y[n]
  BY <1>1, <1>7
<1> QED BY <1>1, <1>8 DEF After, x, y, z, c, m, n, t

LEMMA AfterNone == \A s : After(s, <<>>) = s
<1> TAKE s
<1>1. Len(<<>>) = 0 /\ Len(<<>>) \in Nat
  OBVIOUS
<1> QED BY <1>1, LimRunIs DEF After

LEMMA AfterTwo ==
  ASSUME NEW s, NEW c1, NEW c2, NEW s1, s1 = ExecLimit(s, c1), NEW s2, s2 = ExecLimit(s1, c2)
  PROVE  After(s, <<c1, c2>>) = s2
<1> DEFINE q == <<c1, c2>>
           f == LimRun(s, q)
<1>1. Len(q) = 2 /\ Len(q) \in Nat /\ q[1] = c1 /\ q[2] = c2
  OBVIOUS
<1> HIDE DEF q
<1>2. f[0] = s /\ \A k \in 1 .. 2 : f[k] = ExecLimit(f[k - 1], q[k])
  <2>1. f[0] = s /\ \A k \in 1 .. Len(q) : f[k] = ExecLimit(f[k - 1], q[k])
    <3>1. Len(q) \in Nat
      BY <1>1
    <3> QED BY <3>1, LimRunIs
  <2> QED BY <1>1, <2>1
<1> HIDE DEF f
<1>3. f[1] = s1
  BY <1>1, <1>2
<1>4. f[2] = s2
  BY <1>1, <1>2, <1>3
<1> QED BY <1>1, <1>4 DEF After, f, q

LEMMA AfterFour ==
  ASSUME NEW s, NEW c1, NEW c2, NEW c3, NEW c4, NEW s1, s1 = ExecLimit(s, c1), NEW s2, s2 = ExecLimit(s1, c2),
         NEW s3, s3 = ExecLimit(s2, c3), NEW s4, s4 = ExecLimit(s3, c4)
  PROVE  After(s, <<c1, c2, c3, c4>>) = s4
<1> DEFINE q == <<c1, c2, c3, c4>>
           f == LimRun(s, q)
<1>1. Len(q) = 4 /\ Len(q) \in Nat /\ q[1] = c1 /\ q[2] = c2 /\ q[3] = c3 /\ q[4] = c4
  OBVIOUS
<1> HIDE DEF q
<1>2. f[0] = s /\ \A k \in 1 .. 4 : f[k] = ExecLimit(f[k - 1], q[k])
  <2>1. f[0] = s /\ \A k \in 1 .. Len(q) : f[k] = ExecLimit(f[k - 1], q[k])
    <3>1. Len(q) \in Nat
      BY <1>1
    <3> QED BY <3>1, LimRunIs
  <2> QED BY <1>1, <2>1
<1> HIDE DEF f
<1>3. f[1] = s1
  BY <1>1, <1>2
<1>4. f[2] = s2
  BY <1>1, <1>2, <1>3
<1>5. f[3] = s3
  BY <1>1, <1>2, <1>4
<1>6. f[4] = s4
  BY <1>1, <1>2, <1>5
<1> QED BY <1>1, <1>6 DEF After, f, q

-----------------------------------------------------------------------------
(* The speed limits: what each command does                                *)

LimOptions(cfg) == IF cfg = "eqos" THEN {"ip", "up", "down"} ELSE {"name", "target", "mac"}
Devices0 == [ip : LimIps \union {"none"}, up : {0, 1, 2}, down : {0, 1, 3}]
Rules0 == [name : {"none", "Allow-Ping", "Mine", "BL_AA", "BL_BB"}, target : {"none", "ACCEPT", "REJECT"}, mac : {"none", "AA", "BB"}]
Modules0 == [enabled : BOOLEAN, up : {200, 5}, down : {2000}]
LimSides == [eqos : Seq(Devices0), firewall : Seq(Rules0), module : Modules0]
Lims == [file : LimSides, staged : LimSides, live : LimSides]

\* The file, what is staged and what is in force, each with its limits, its rules and
\* its module.
Side(e, w, m) == [eqos |-> e, firewall |-> w, module |-> m]
Sides(f, t, l) == [file |-> f, staged |-> t, live |-> l]
Lim(fe, fw, fm, se, sw, sm, le, lw, lm) == Sides(Side(fe, fw, fm), Side(se, sw, sm), Side(le, lw, lm))

LEMMA LimIs ==
  ASSUME NEW s \in Lims
  PROVE  s = Lim(s.file.eqos, s.file.firewall, s.file.module, s.staged.eqos, s.staged.firewall, s.staged.module,
                 s.live.eqos, s.live.firewall, s.live.module)
<1>1. ASSUME NEW x \in LimSides PROVE x = Side(x.eqos, x.firewall, x.module)
  BY DEF LimSides, Side
<1>2. s.file \in LimSides /\ s.staged \in LimSides /\ s.live \in LimSides /\ s = [file |-> s.file, staged |-> s.staged, live |-> s.live]
  BY DEF Lims
<1> QED BY <1>1, <1>2 DEF Lim, Sides

LEMMA LimTyped ==
  ASSUME NEW fe \in Seq(Devices0), NEW fw \in Seq(Rules0), NEW fm \in Modules0,
         NEW se \in Seq(Devices0), NEW sw \in Seq(Rules0), NEW sm \in Modules0,
         NEW le \in Seq(Devices0), NEW lw \in Seq(Rules0), NEW lm \in Modules0
  PROVE  Lim(fe, fw, fm, se, sw, sm, le, lw, lm) \in Lims
<1>1. Side(fe, fw, fm) \in LimSides /\ Side(se, sw, sm) \in LimSides /\ Side(le, lw, lm) \in LimSides
  BY DEF Side, LimSides
<1> QED BY <1>1 DEF Lim, Sides, Lims

DelCmd(cfg, at) == [op |-> "del", cfg |-> cfg, at |-> at]
ModuleCmd(v) == [op |-> "module", val |-> v]
Without(q, n) == IF n \in DOMAIN q THEN RemoveAt(q, n) ELSE q
LastWith(q, opt, v) == [q EXCEPT ![Len(q)][opt] = v]

LEMMA SideParts == \A e, w, m : Side(e, w, m).eqos = e /\ Side(e, w, m).firewall = w /\ Side(e, w, m).module = m
BY DEF Side

LEMMA SidesParts == \A f, t, l : Sides(f, t, l).file = f /\ Sides(f, t, l).staged = t /\ Sides(f, t, l).live = l
BY DEF Sides

LEMMA EqosSet == \A e, w, m, x : [Side(e, w, m) EXCEPT !["eqos"] = x] = Side(x, w, m)
BY DEF Side

LEMMA FirewallSet == \A e, w, m, x : [Side(e, w, m) EXCEPT !["firewall"] = x] = Side(e, x, m)
BY DEF Side

LEMMA ModulePut == \A e, w, m, x : [Side(e, w, m) EXCEPT !["module"] = x] = Side(e, w, x)
BY DEF Side

LEMMA EqosBothSet == \A e, w, m, x, y : [Side(e, w, m) EXCEPT !["eqos"] = x, !["module"] = y] = Side(x, w, y)
BY DEF Side

LEMMA FileSet == \A f, t, l, x : [Sides(f, t, l) EXCEPT !.file = x] = Sides(x, t, l)
BY DEF Sides

LEMMA StagedSet == \A f, t, l, x : [Sides(f, t, l) EXCEPT !.staged = x] = Sides(f, x, l)
BY DEF Sides

LEMMA LiveSet == \A f, t, l, x : [Sides(f, t, l) EXCEPT !.live = x] = Sides(f, t, x)
BY DEF Sides

LEMMA DelEqosIs ==
  ASSUME NEW s, NEW n
  PROVE  ExecLimit(s, DelCmd("eqos", n)) = [s EXCEPT !.staged = [s.staged EXCEPT !["eqos"] = Without(s.staged.eqos, n)]]
BY DEF ExecLimit, DelCmd, Without

LEMMA DelEqos ==
  ASSUME NEW fe, NEW fw, NEW fm, NEW se, NEW sw, NEW sm, NEW le, NEW lw, NEW lm, NEW n
  PROVE  ExecLimit(Lim(fe, fw, fm, se, sw, sm, le, lw, lm), DelCmd("eqos", n)) = Lim(fe, fw, fm, Without(se, n), sw, sm, le, lw, lm)
<1> DEFINE f == Side(fe, fw, fm)
           t == Side(se, sw, sm)
           l == Side(le, lw, lm)
           s == Sides(f, t, l)
<1>1. s.file = f /\ s.staged = t /\ s.live = l
  BY SidesParts
<1>2. ExecLimit(s, DelCmd("eqos", n)) = [s EXCEPT !.staged = [s.staged EXCEPT !["eqos"] = Without(s.staged.eqos, n)]]
  BY DelEqosIs
<1> HIDE DEF s
<1>3. [s.staged EXCEPT !["eqos"] = Without(s.staged.eqos, n)] = Side(Without(se, n), sw, sm)
  BY <1>1, SideParts, EqosSet
<1>4. [s EXCEPT !.staged = Side(Without(se, n), sw, sm)] = Sides(f, Side(Without(se, n), sw, sm), l)
  BY StagedSet DEF s
<1> QED BY <1>2, <1>3, <1>4 DEF s, Lim

LEMMA AddEqosIs ==
  ASSUME NEW s
  PROVE  ExecLimit(s, LimCmd("add", "eqos")) = [s EXCEPT !.staged = [s.staged EXCEPT !["eqos"] = Append(s.staged.eqos, BlankDevice)]]
BY DEF ExecLimit, LimCmd

LEMMA AddEqos ==
  ASSUME NEW fe, NEW fw, NEW fm, NEW se, NEW sw, NEW sm, NEW le, NEW lw, NEW lm
  PROVE  ExecLimit(Lim(fe, fw, fm, se, sw, sm, le, lw, lm), LimCmd("add", "eqos")) = Lim(fe, fw, fm, Append(se, BlankDevice), sw, sm, le, lw, lm)
<1> DEFINE f == Side(fe, fw, fm)
           t == Side(se, sw, sm)
           l == Side(le, lw, lm)
           s == Sides(f, t, l)
<1>1. s.file = f /\ s.staged = t /\ s.live = l
  BY SidesParts
<1>2. ExecLimit(s, LimCmd("add", "eqos")) = [s EXCEPT !.staged = [s.staged EXCEPT !["eqos"] = Append(s.staged.eqos, BlankDevice)]]
  BY AddEqosIs
<1> HIDE DEF s
<1>3. [s.staged EXCEPT !["eqos"] = Append(s.staged.eqos, BlankDevice)] = Side(Append(se, BlankDevice), sw, sm)
  <2>1. s.staged.eqos = se /\ s.staged = t
    BY <1>1, SideParts
  <2> DEFINE x == Append(se, BlankDevice)
  <2>2. [t EXCEPT !["eqos"] = x] = Side(x, sw, sm)
    <3> HIDE DEF x
    <3> QED BY EqosSet
  <2> HIDE DEF t
  <2> QED BY <2>1, <2>2
<1>4. [s EXCEPT !.staged = Side(Append(se, BlankDevice), sw, sm)] = Sides(f, Side(Append(se, BlankDevice), sw, sm), l)
  BY StagedSet DEF s
<1> QED BY <1>2, <1>3, <1>4 DEF s, Lim

LEMMA LastEqosIs ==
  ASSUME NEW s, NEW opt, NEW v
  PROVE  ExecLimit(s, SetLast("eqos", opt, v)) = [s EXCEPT !.staged = [s.staged EXCEPT !["eqos"] = LastWith(s.staged.eqos, opt, v)]]
BY DEF ExecLimit, SetLast, LastWith

LEMMA LastEqos ==
  ASSUME NEW fe, NEW fw, NEW fm, NEW se, NEW sw, NEW sm, NEW le, NEW lw, NEW lm, NEW opt, NEW v
  PROVE  ExecLimit(Lim(fe, fw, fm, se, sw, sm, le, lw, lm), SetLast("eqos", opt, v)) = Lim(fe, fw, fm, LastWith(se, opt, v), sw, sm, le, lw, lm)
<1> DEFINE f == Side(fe, fw, fm)
           t == Side(se, sw, sm)
           l == Side(le, lw, lm)
           s == Sides(f, t, l)
<1>1. s.file = f /\ s.staged = t /\ s.live = l
  BY SidesParts
<1>2. ExecLimit(s, SetLast("eqos", opt, v)) = [s EXCEPT !.staged = [s.staged EXCEPT !["eqos"] = LastWith(s.staged.eqos, opt, v)]]
  BY LastEqosIs
<1> HIDE DEF s
<1>3. [s.staged EXCEPT !["eqos"] = LastWith(s.staged.eqos, opt, v)] = Side(LastWith(se, opt, v), sw, sm)
  <2>1. s.staged.eqos = se /\ s.staged = t
    BY <1>1, SideParts
  <2> DEFINE x == LastWith(se, opt, v)
  <2>2. [t EXCEPT !["eqos"] = x] = Side(x, sw, sm)
    <3> HIDE DEF x
    <3> QED BY EqosSet
  <2> HIDE DEF t
  <2> QED BY <2>1, <2>2
<1>4. [s EXCEPT !.staged = Side(LastWith(se, opt, v), sw, sm)] = Sides(f, Side(LastWith(se, opt, v), sw, sm), l)
  BY StagedSet DEF s
<1> QED BY <1>2, <1>3, <1>4 DEF s, Lim

LEMMA DelFirewallIs ==
  ASSUME NEW s, NEW n
  PROVE  ExecLimit(s, DelCmd("firewall", n)) = [s EXCEPT !.staged = [s.staged EXCEPT !["firewall"] = Without(s.staged.firewall, n)]]
BY DEF ExecLimit, DelCmd, Without

LEMMA DelFirewall ==
  ASSUME NEW fe, NEW fw, NEW fm, NEW se, NEW sw, NEW sm, NEW le, NEW lw, NEW lm, NEW n
  PROVE  ExecLimit(Lim(fe, fw, fm, se, sw, sm, le, lw, lm), DelCmd("firewall", n)) = Lim(fe, fw, fm, se, Without(sw, n), sm, le, lw, lm)
<1> DEFINE f == Side(fe, fw, fm)
           t == Side(se, sw, sm)
           l == Side(le, lw, lm)
           s == Sides(f, t, l)
<1>1. s.file = f /\ s.staged = t /\ s.live = l
  BY SidesParts
<1>2. ExecLimit(s, DelCmd("firewall", n)) = [s EXCEPT !.staged = [s.staged EXCEPT !["firewall"] = Without(s.staged.firewall, n)]]
  BY DelFirewallIs
<1> HIDE DEF s
<1>3. [s.staged EXCEPT !["firewall"] = Without(s.staged.firewall, n)] = Side(se, Without(sw, n), sm)
  BY <1>1, SideParts, FirewallSet
<1>4. [s EXCEPT !.staged = Side(se, Without(sw, n), sm)] = Sides(f, Side(se, Without(sw, n), sm), l)
  BY StagedSet DEF s
<1> QED BY <1>2, <1>3, <1>4 DEF s, Lim

LEMMA AddFirewallIs ==
  ASSUME NEW s
  PROVE  ExecLimit(s, LimCmd("add", "firewall")) = [s EXCEPT !.staged = [s.staged EXCEPT !["firewall"] = Append(s.staged.firewall, BlankRule)]]
BY DEF ExecLimit, LimCmd

LEMMA AddFirewall ==
  ASSUME NEW fe, NEW fw, NEW fm, NEW se, NEW sw, NEW sm, NEW le, NEW lw, NEW lm
  PROVE  ExecLimit(Lim(fe, fw, fm, se, sw, sm, le, lw, lm), LimCmd("add", "firewall")) = Lim(fe, fw, fm, se, Append(sw, BlankRule), sm, le, lw, lm)
<1> DEFINE f == Side(fe, fw, fm)
           t == Side(se, sw, sm)
           l == Side(le, lw, lm)
           s == Sides(f, t, l)
<1>1. s.file = f /\ s.staged = t /\ s.live = l
  BY SidesParts
<1>2. ExecLimit(s, LimCmd("add", "firewall")) = [s EXCEPT !.staged = [s.staged EXCEPT !["firewall"] = Append(s.staged.firewall, BlankRule)]]
  BY AddFirewallIs
<1> HIDE DEF s
<1>3. [s.staged EXCEPT !["firewall"] = Append(s.staged.firewall, BlankRule)] = Side(se, Append(sw, BlankRule), sm)
  <2>1. s.staged.firewall = sw /\ s.staged = t
    BY <1>1, SideParts
  <2> DEFINE x == Append(sw, BlankRule)
  <2>2. [t EXCEPT !["firewall"] = x] = Side(se, x, sm)
    <3> HIDE DEF x
    <3> QED BY FirewallSet
  <2> HIDE DEF t
  <2> QED BY <2>1, <2>2
<1>4. [s EXCEPT !.staged = Side(se, Append(sw, BlankRule), sm)] = Sides(f, Side(se, Append(sw, BlankRule), sm), l)
  BY StagedSet DEF s
<1> QED BY <1>2, <1>3, <1>4 DEF s, Lim

LEMMA LastFirewallIs ==
  ASSUME NEW s, NEW opt, NEW v
  PROVE  ExecLimit(s, SetLast("firewall", opt, v)) = [s EXCEPT !.staged = [s.staged EXCEPT !["firewall"] = LastWith(s.staged.firewall, opt, v)]]
BY DEF ExecLimit, SetLast, LastWith

LEMMA LastFirewall ==
  ASSUME NEW fe, NEW fw, NEW fm, NEW se, NEW sw, NEW sm, NEW le, NEW lw, NEW lm, NEW opt, NEW v
  PROVE  ExecLimit(Lim(fe, fw, fm, se, sw, sm, le, lw, lm), SetLast("firewall", opt, v)) = Lim(fe, fw, fm, se, LastWith(sw, opt, v), sm, le, lw, lm)
<1> DEFINE f == Side(fe, fw, fm)
           t == Side(se, sw, sm)
           l == Side(le, lw, lm)
           s == Sides(f, t, l)
<1>1. s.file = f /\ s.staged = t /\ s.live = l
  BY SidesParts
<1>2. ExecLimit(s, SetLast("firewall", opt, v)) = [s EXCEPT !.staged = [s.staged EXCEPT !["firewall"] = LastWith(s.staged.firewall, opt, v)]]
  BY LastFirewallIs
<1> HIDE DEF s
<1>3. [s.staged EXCEPT !["firewall"] = LastWith(s.staged.firewall, opt, v)] = Side(se, LastWith(sw, opt, v), sm)
  <2>1. s.staged.firewall = sw /\ s.staged = t
    BY <1>1, SideParts
  <2> DEFINE x == LastWith(sw, opt, v)
  <2>2. [t EXCEPT !["firewall"] = x] = Side(se, x, sm)
    <3> HIDE DEF x
    <3> QED BY FirewallSet
  <2> HIDE DEF t
  <2> QED BY <2>1, <2>2
<1>4. [s EXCEPT !.staged = Side(se, LastWith(sw, opt, v), sm)] = Sides(f, Side(se, LastWith(sw, opt, v), sm), l)
  BY StagedSet DEF s
<1> QED BY <1>2, <1>3, <1>4 DEF s, Lim

LEMMA ModuleSetIs ==
  ASSUME NEW s, NEW v
  PROVE  ExecLimit(s, ModuleCmd(v)) = [s EXCEPT !.staged = [s.staged EXCEPT !["module"] = v]]
BY DEF ExecLimit, ModuleCmd

LEMMA ModuleSet ==
  ASSUME NEW fe, NEW fw, NEW fm, NEW se, NEW sw, NEW sm, NEW le, NEW lw, NEW lm, NEW v
  PROVE  ExecLimit(Lim(fe, fw, fm, se, sw, sm, le, lw, lm), ModuleCmd(v)) = Lim(fe, fw, fm, se, sw, v, le, lw, lm)
<1> DEFINE f == Side(fe, fw, fm)
           t == Side(se, sw, sm)
           l == Side(le, lw, lm)
           s == Sides(f, t, l)
<1>1. s.file = f /\ s.staged = t /\ s.live = l
  BY SidesParts
<1>2. ExecLimit(s, ModuleCmd(v)) = [s EXCEPT !.staged = [s.staged EXCEPT !["module"] = v]]
  BY ModuleSetIs
<1> HIDE DEF s
<1>3. [s.staged EXCEPT !["module"] = v] = Side(se, sw, v)
  BY <1>1, SideParts, ModulePut
<1>4. [s EXCEPT !.staged = Side(se, sw, v)] = Sides(f, Side(se, sw, v), l)
  BY StagedSet DEF s
<1> QED BY <1>2, <1>3, <1>4 DEF s, Lim

LEMMA CommitEqosIs ==
  ASSUME NEW s
  PROVE  ExecLimit(s, LimCmd("commit", "eqos")) = [s EXCEPT !.file = [s.file EXCEPT !["eqos"] = s.staged.eqos, !["module"] = s.staged.module]]
BY DEF ExecLimit, LimCmd

LEMMA CommitEqos ==
  ASSUME NEW fe, NEW fw, NEW fm, NEW se, NEW sw, NEW sm, NEW le, NEW lw, NEW lm
  PROVE  ExecLimit(Lim(fe, fw, fm, se, sw, sm, le, lw, lm), LimCmd("commit", "eqos")) = Lim(se, fw, sm, se, sw, sm, le, lw, lm)
<1> DEFINE f == Side(fe, fw, fm)
           t == Side(se, sw, sm)
           l == Side(le, lw, lm)
           s == Sides(f, t, l)
<1>1. s.file = f /\ s.staged = t /\ s.live = l
  BY SidesParts
<1>2. ExecLimit(s, LimCmd("commit", "eqos")) = [s EXCEPT !.file = [s.file EXCEPT !["eqos"] = s.staged.eqos, !["module"] = s.staged.module]]
  BY CommitEqosIs
<1> HIDE DEF s
<1>3. [s.file EXCEPT !["eqos"] = s.staged.eqos, !["module"] = s.staged.module] = Side(se, fw, sm)
  BY <1>1, SideParts, EqosBothSet
<1>4. [s EXCEPT !.file = Side(se, fw, sm)] = Sides(Side(se, fw, sm), t, l)
  BY FileSet DEF s
<1> QED BY <1>2, <1>3, <1>4 DEF s, Lim

LEMMA CommitFirewallIs ==
  ASSUME NEW s
  PROVE  ExecLimit(s, LimCmd("commit", "firewall")) = [s EXCEPT !.file = [s.file EXCEPT !["firewall"] = s.staged.firewall]]
BY DEF ExecLimit, LimCmd

LEMMA CommitFirewall ==
  ASSUME NEW fe, NEW fw, NEW fm, NEW se, NEW sw, NEW sm, NEW le, NEW lw, NEW lm
  PROVE  ExecLimit(Lim(fe, fw, fm, se, sw, sm, le, lw, lm), LimCmd("commit", "firewall")) = Lim(fe, sw, fm, se, sw, sm, le, lw, lm)
<1> DEFINE f == Side(fe, fw, fm)
           t == Side(se, sw, sm)
           l == Side(le, lw, lm)
           s == Sides(f, t, l)
<1>1. s.file = f /\ s.staged = t /\ s.live = l
  BY SidesParts
<1>2. ExecLimit(s, LimCmd("commit", "firewall")) = [s EXCEPT !.file = [s.file EXCEPT !["firewall"] = s.staged.firewall]]
  BY CommitFirewallIs
<1> HIDE DEF s
<1>3. [s.file EXCEPT !["firewall"] = s.staged.firewall] = Side(fe, sw, fm)
  BY <1>1, SideParts, FirewallSet
<1>4. [s EXCEPT !.file = Side(fe, sw, fm)] = Sides(Side(fe, sw, fm), t, l)
  BY FileSet DEF s
<1> QED BY <1>2, <1>3, <1>4 DEF s, Lim

LEMMA EventEqosIs ==
  ASSUME NEW s
  PROVE  ExecLimit(s, LimCmd("event", "eqos")) = [s EXCEPT !.live = [s.live EXCEPT !["eqos"] = s.file.eqos, !["module"] = s.file.module]]
BY DEF ExecLimit, LimCmd

LEMMA EventEqos ==
  ASSUME NEW fe, NEW fw, NEW fm, NEW se, NEW sw, NEW sm, NEW le, NEW lw, NEW lm
  PROVE  ExecLimit(Lim(fe, fw, fm, se, sw, sm, le, lw, lm), LimCmd("event", "eqos")) = Lim(fe, fw, fm, se, sw, sm, fe, lw, fm)
<1> DEFINE f == Side(fe, fw, fm)
           t == Side(se, sw, sm)
           l == Side(le, lw, lm)
           s == Sides(f, t, l)
<1>1. s.file = f /\ s.staged = t /\ s.live = l
  BY SidesParts
<1>2. ExecLimit(s, LimCmd("event", "eqos")) = [s EXCEPT !.live = [s.live EXCEPT !["eqos"] = s.file.eqos, !["module"] = s.file.module]]
  BY EventEqosIs
<1> HIDE DEF s
<1>3. [s.live EXCEPT !["eqos"] = s.file.eqos, !["module"] = s.file.module] = Side(fe, lw, fm)
  BY <1>1, SideParts, EqosBothSet
<1>4. [s EXCEPT !.live = Side(fe, lw, fm)] = Sides(f, t, Side(fe, lw, fm))
  BY LiveSet DEF s
<1> QED BY <1>2, <1>3, <1>4 DEF s, Lim

LEMMA EventFirewallIs ==
  ASSUME NEW s
  PROVE  ExecLimit(s, LimCmd("event", "firewall")) = [s EXCEPT !.live = [s.live EXCEPT !["firewall"] = s.file.firewall]]
BY DEF ExecLimit, LimCmd

LEMMA EventFirewall ==
  ASSUME NEW fe, NEW fw, NEW fm, NEW se, NEW sw, NEW sm, NEW le, NEW lw, NEW lm
  PROVE  ExecLimit(Lim(fe, fw, fm, se, sw, sm, le, lw, lm), LimCmd("event", "firewall")) = Lim(fe, fw, fm, se, sw, sm, le, fw, lm)
<1> DEFINE f == Side(fe, fw, fm)
           t == Side(se, sw, sm)
           l == Side(le, lw, lm)
           s == Sides(f, t, l)
<1>1. s.file = f /\ s.staged = t /\ s.live = l
  BY SidesParts
<1>2. ExecLimit(s, LimCmd("event", "firewall")) = [s EXCEPT !.live = [s.live EXCEPT !["firewall"] = s.file.firewall]]
  BY EventFirewallIs
<1> HIDE DEF s
<1>3. [s.live EXCEPT !["firewall"] = s.file.firewall] = Side(le, fw, lm)
  BY <1>1, SideParts, FirewallSet
<1>4. [s EXCEPT !.live = Side(le, fw, lm)] = Sides(f, t, Side(le, fw, lm))
  BY LiveSet DEF s
<1> QED BY <1>2, <1>3, <1>4 DEF s, Lim
-----------------------------------------------------------------------------
(* The speed limits: types                                                 *)

\* x is q without its n-th.
Removed(S, q, n, x) ==
  /\ x \in Seq(S) /\ Len(x) = Len(q) - 1
  /\ \A i \in 1 .. Len(q) : i < n => x[i] = q[i]
  /\ \A i \in n .. Len(q) - 1 : x[i] = q[i + 1]

LEMMA RemoveIs ==
  ASSUME NEW S, NEW q \in Seq(S), NEW n \in 1 .. Len(q), NEW x, x = RemoveAt(q, n)
  PROVE  Removed(S, q, n, x)
<1> DEFINE a == SubSeq(q, 1, n - 1)
           b == SubSeq(q, n + 1, Len(q))
<1>1. Len(q) \in Nat /\ n \in Nat /\ 1 <= n /\ n <= Len(q)
  OBVIOUS
<1>2. a \in Seq(S) /\ Len(a) = n - 1 /\ \A i \in 1 .. n - 1 : a[i] = q[i]
  OBVIOUS
<1>3. b \in Seq(S) /\ Len(b) = Len(q) - n /\ \A i \in 1 .. Len(q) - n : b[i] = q[n + i]
  <2>1. CASE n = Len(q)
    BY <1>1, <2>1
  <2>2. CASE n < Len(q)
    BY <1>1, <2>2
  <2> QED BY <1>1, <2>1, <2>2
<1>4. x = a \o b
  BY DEF RemoveAt
<1> HIDE DEF a, b
<1>5. x \in Seq(S) /\ Len(x) = Len(q) - 1
  <2>1. a \in Seq(S) /\ b \in Seq(S)
    BY <1>2, <1>3
  <2>2. x \in Seq(S) /\ Len(x) = Len(a) + Len(b)
    BY <1>4, <2>1
  <2>3. (n - 1) + (Len(q) - n) = Len(q) - 1
    BY <1>1
  <2>4. Len(a) = n - 1 /\ Len(b) = Len(q) - n
    BY <1>2, <1>3
  <2> QED BY <2>2, <2>3, <2>4
<1>6. \A i \in 1 .. Len(q) : i < n => x[i] = q[i]
  <2> TAKE i \in 1 .. Len(q)
  <2> HAVE i < n
  <2>0. i \in 1 .. n - 1
    BY <1>1
  <2>1. i \in 1 .. Len(a) /\ i \in 1 .. Len(a) + Len(b)
    BY <1>1, <1>2, <1>3, <2>0
  <2>2. x[i] = a[i]
    BY <1>2, <1>3, <1>4, <2>1
  <2> QED BY <1>2, <2>0, <2>2
<1>7. \A i \in n .. Len(q) - 1 : x[i] = q[i + 1]
  <2> TAKE i \in n .. Len(q) - 1
  <2>1. i - (n - 1) \in 1 .. Len(q) - n /\ i \in 1 .. (n - 1) + (Len(q) - n) /\ ~(i <= n - 1)
    BY <1>1
  <2>2. x[i] = b[i - (n - 1)]
    BY <1>1, <1>2, <1>3, <1>4, <2>1
  <2>3. n + (i - (n - 1)) = i + 1
    BY <1>1
  <2> QED BY <1>3, <2>1, <2>2, <2>3
<1> QED BY <1>5, <1>6, <1>7 DEF Removed

LEMMA WithoutTyped ==
  ASSUME NEW S, NEW q \in Seq(S), NEW n
  PROVE  Without(q, n) \in Seq(S)
<1>1. CASE n \in DOMAIN q
  <2>1. n \in 1 .. Len(q)
    BY <1>1
  <2> QED BY <1>1, <2>1, RemoveIs DEF Without, Removed
<1>2. CASE n \notin DOMAIN q
  BY <1>2 DEF Without
<1> QED BY <1>1, <1>2

LEMMA LastWithTyped ==
  ASSUME NEW S, NEW q \in Seq(S), NEW opt, NEW v, \A x \in S : [x EXCEPT ![opt] = v] \in S
  PROVE  LastWith(q, opt, v) \in Seq(S)
<1> DEFINE n == Len(q)
           y == [q[n] EXCEPT ![opt] = v]
           a == [q EXCEPT ![n] = y]
<1>1. n \in Nat /\ DOMAIN q = 1 .. n /\ \A i \in 1 .. n : q[i] \in S
  OBVIOUS
<1>2. n \in 1 .. n => y \in S
  BY <1>1
<1>3. LastWith(q, opt, v) = a
  BY DEF LastWith
<1> HIDE DEF y, n
<1>4. q = [i \in 1 .. n |-> q[i]]
  BY <1>1
<1>5. a = [i \in 1 .. n |-> IF i = n THEN y ELSE q[i]]
  BY <1>1, <1>4
<1> HIDE DEF a
<1>6. \A i \in 1 .. n : (IF i = n THEN y ELSE q[i]) \in S
  BY <1>1, <1>2
<1>7. a \in [1 .. n -> S]
  BY <1>5, <1>6
<1>8. a \in Seq(S)
  BY <1>1, <1>7, SeqDef
<1> QED BY <1>3, <1>8

LimCfgs == {"eqos", "firewall"}
DeviceCommands ==
  {SetLast("eqos", "ip", v) : v \in LimIps} \union {SetLast("eqos", "down", v) : v \in {0, 1, 3}}
  \union {SetLast("eqos", "up", v) : v \in {0, 1, 2}}
RuleCommands ==
  {SetLast("firewall", "name", v) : v \in {"BL_AA", "BL_BB"}} \union {SetLast("firewall", "target", "REJECT")}
  \union {SetLast("firewall", "mac", v) : v \in LimMacs}
LimCommands ==
  {DelCmd(cfg, n) : cfg \in LimCfgs, n \in Nat} \union {LimCmd(o, cfg) : o \in {"add", "commit", "event"}, cfg \in LimCfgs}
  \union DeviceCommands \union RuleCommands \union {ModuleCmd(v) : v \in Modules0}

LEMMA DeviceTyped ==
  ASSUME NEW x \in Devices0
  PROVE  /\ \A v \in LimIps : [x EXCEPT !["ip"] = v] \in Devices0
         /\ \A v \in {0, 1, 3} : [x EXCEPT !["down"] = v] \in Devices0
         /\ \A v \in {0, 1, 2} : [x EXCEPT !["up"] = v] \in Devices0
<1>1. \A v \in LimIps : [x EXCEPT !["ip"] = v] \in Devices0
  BY DEF Devices0
<1>2. \A v \in {0, 1, 3} : [x EXCEPT !["down"] = v] \in Devices0
  BY DEF Devices0
<1>3. \A v \in {0, 1, 2} : [x EXCEPT !["up"] = v] \in Devices0
  BY DEF Devices0
<1> QED BY <1>1, <1>2, <1>3

LEMMA RuleTyped ==
  ASSUME NEW x \in Rules0
  PROVE  /\ \A v \in {"BL_AA", "BL_BB"} : [x EXCEPT !["name"] = v] \in Rules0
         /\ [x EXCEPT !["target"] = "REJECT"] \in Rules0
         /\ \A v \in LimMacs : [x EXCEPT !["mac"] = v] \in Rules0
<1>1. \A v \in {"BL_AA", "BL_BB"} : [x EXCEPT !["name"] = v] \in Rules0
  BY DEF Rules0
<1>2. [x EXCEPT !["target"] = "REJECT"] \in Rules0
  BY DEF Rules0
<1>3. \A v \in LimMacs : [x EXCEPT !["mac"] = v] \in Rules0
  BY DEF Rules0, LimMacs
<1> QED BY <1>1, <1>2, <1>3

\* A command leaves what its options can be.
LEMMA ExecTyped ==
  ASSUME NEW s \in Lims, NEW c \in LimCommands
  PROVE  ExecLimit(s, c) \in Lims
<1> DEFINE fe == s.file.eqos
           fw == s.file.firewall
           fm == s.file.module
           se == s.staged.eqos
           sw == s.staged.firewall
           sm == s.staged.module
           le == s.live.eqos
           lw == s.live.firewall
           lm == s.live.module
<1>1. /\ fe \in Seq(Devices0) /\ fw \in Seq(Rules0) /\ fm \in Modules0
      /\ se \in Seq(Devices0) /\ sw \in Seq(Rules0) /\ sm \in Modules0
      /\ le \in Seq(Devices0) /\ lw \in Seq(Rules0) /\ lm \in Modules0
  BY DEF Lims, LimSides
<1>2. s = Lim(fe, fw, fm, se, sw, sm, le, lw, lm)
  BY LimIs
<1> HIDE DEF fe, fw, fm, se, sw, sm, le, lw, lm
<1>3. CASE c \in {DelCmd(cfg, n) : cfg \in LimCfgs, n \in Nat}
  <2>1. PICK cfg \in LimCfgs, n \in Nat : c = DelCmd(cfg, n)
    BY <1>3
  <2>2. CASE cfg = "eqos"
    <3>1. ExecLimit(s, c) = Lim(fe, fw, fm, Without(se, n), sw, sm, le, lw, lm)
      BY <1>2, <2>1, <2>2, DelEqos
    <3>2. Without(se, n) \in Seq(Devices0)
      BY <1>1, WithoutTyped
    <3> QED BY <1>1, <3>1, <3>2, LimTyped
  <2>3. CASE cfg = "firewall"
    <3>1. ExecLimit(s, c) = Lim(fe, fw, fm, se, Without(sw, n), sm, le, lw, lm)
      BY <1>2, <2>1, <2>3, DelFirewall
    <3>2. Without(sw, n) \in Seq(Rules0)
      BY <1>1, WithoutTyped
    <3> QED BY <1>1, <3>1, <3>2, LimTyped
  <2> QED BY <2>2, <2>3 DEF LimCfgs
<1>4. CASE c \in {LimCmd(o, cfg) : o \in {"add", "commit", "event"}, cfg \in LimCfgs}
  <2>1. PICK o \in {"add", "commit", "event"}, cfg \in {"eqos", "firewall"} : c = LimCmd(o, cfg)
    BY <1>4 DEF LimCfgs
  <2>2. BlankDevice \in Devices0 /\ BlankRule \in Rules0
    BY DEF BlankDevice, Devices0, BlankRule, Rules0
  <2>3. CASE o = "add" /\ cfg = "eqos"
    <3> DEFINE x == Append(se, BlankDevice)
    <3>1. ExecLimit(s, c) = Lim(fe, fw, fm, x, sw, sm, le, lw, lm)
      BY <1>2, <2>1, <2>3, AddEqos
    <3>2. x \in Seq(Devices0)
      BY <1>1, <2>2
    <3> HIDE DEF x
    <3> QED BY <1>1, <3>1, <3>2, LimTyped
  <2>4. CASE o = "add" /\ cfg = "firewall"
    <3> DEFINE x == Append(sw, BlankRule)
    <3>1. ExecLimit(s, c) = Lim(fe, fw, fm, se, x, sm, le, lw, lm)
      BY <1>2, <2>1, <2>4, AddFirewall
    <3>2. x \in Seq(Rules0)
      BY <1>1, <2>2
    <3> HIDE DEF x
    <3> QED BY <1>1, <3>1, <3>2, LimTyped
  <2>5. CASE o = "commit" /\ cfg = "eqos"
    BY <1>1, <1>2, <2>1, <2>5, CommitEqos, LimTyped
  <2>6. CASE o = "commit" /\ cfg = "firewall"
    BY <1>1, <1>2, <2>1, <2>6, CommitFirewall, LimTyped
  <2>7. CASE o = "event" /\ cfg = "eqos"
    BY <1>1, <1>2, <2>1, <2>7, EventEqos, LimTyped
  <2>8. CASE o = "event" /\ cfg = "firewall"
    BY <1>1, <1>2, <2>1, <2>8, EventFirewall, LimTyped
  <2> QED BY <2>3, <2>4, <2>5, <2>6, <2>7, <2>8
<1>5. CASE c \in DeviceCommands
  <2>1. PICK opt, v : c = SetLast("eqos", opt, v) /\ \A x \in Devices0 : [x EXCEPT ![opt] = v] \in Devices0
    BY <1>5, DeviceTyped DEF DeviceCommands
  <2>2. ExecLimit(s, c) = Lim(fe, fw, fm, LastWith(se, opt, v), sw, sm, le, lw, lm)
    BY <1>2, <2>1, LastEqos
  <2>3. LastWith(se, opt, v) \in Seq(Devices0)
    BY <1>1, <2>1, LastWithTyped
  <2> QED BY <1>1, <2>2, <2>3, LimTyped
<1>6. CASE c \in RuleCommands
  <2>1. PICK opt, v : c = SetLast("firewall", opt, v) /\ \A x \in Rules0 : [x EXCEPT ![opt] = v] \in Rules0
    BY <1>6, RuleTyped DEF RuleCommands
  <2>2. ExecLimit(s, c) = Lim(fe, fw, fm, se, LastWith(sw, opt, v), sm, le, lw, lm)
    BY <1>2, <2>1, LastFirewall
  <2>3. LastWith(sw, opt, v) \in Seq(Rules0)
    BY <1>1, <2>1, LastWithTyped
  <2> QED BY <1>1, <2>2, <2>3, LimTyped
<1>7. CASE c \in {ModuleCmd(v) : v \in Modules0}
  <2>1. PICK v \in Modules0 : c = ModuleCmd(v)
    BY <1>7
  <2>2. ExecLimit(s, c) = Lim(fe, fw, fm, se, sw, v, le, lw, lm)
    BY <1>2, <2>1, ModuleSet
  <2> QED BY <1>1, <2>2, LimTyped
<1> QED BY <1>3, <1>4, <1>5, <1>6, <1>7 DEF LimCommands

\* However far the commands get.
LEMMA LimRunTyped ==
  ASSUME NEW s \in Lims, NEW cmds \in Seq(LimCommands)
  PROVE  \A k \in 0 .. Len(cmds) : LimRun(s, cmds)[k] \in Lims
<1> DEFINE f == LimRun(s, cmds)
           n == Len(cmds)
<1>1. n \in Nat /\ \A k \in 1 .. n : cmds[k] \in LimCommands
  OBVIOUS
<1>2. f[0] = s /\ \A k \in 1 .. n : f[k] = ExecLimit(f[k - 1], cmds[k])
  BY <1>1, LimRunIs
<1> HIDE DEF f, n
<1> DEFINE Good == {k \in Nat : k <= n => f[k] \in Lims}
<1>3. 0 \in Good
  BY <1>2
<1>4. ASSUME NEW k \in Nat, k \in Good PROVE k + 1 \in Good
  <2> SUFFICES ASSUME k + 1 <= n PROVE f[k + 1] \in Lims
    OBVIOUS
  <2>1. k + 1 \in 1 .. n /\ (k + 1) - 1 = k /\ f[k] \in Lims
    BY <1>1, <1>4
  <2>2. f[k + 1] = ExecLimit(f[k], cmds[k + 1]) /\ cmds[k + 1] \in LimCommands
    BY <1>1, <1>2, <2>1
  <2> QED BY <2>1, <2>2, ExecTyped
<1>5. Nat \subseteq Good
  <2> HIDE DEF Good
  <2> QED BY <1>3, <1>4, NatInSet
<1> QED BY <1>1, <1>5 DEF f, n
-----------------------------------------------------------------------------
(* The speed limits: the commands of a request                             *)

LimActions == {"add", "modify", "delete"}
\* A form, after its MAC has been put in order.
LimRequests ==
  {r \in [action : LimActions, ip : LimIps, mac : LimMacs \union {"none"}, access : BOOLEAN, up : {0, 2}, down : {0, 3}] :
     r.mac = "none" => r.action = "delete"}

LEMMA FormsAreRequests ==
  ASSUME NEW q \in LimitForms
  PROVE  [q EXCEPT !.mac = normalizeMAC(@)] \in LimRequests
<1>1. normalizeMAC("aa") = "AA" /\ normalizeMAC("BB") = "BB" /\ normalizeMAC("none") = "none"
  BY DEF normalizeMAC
<1>2. CASE q = [action |-> "delete", ip |-> "ip1", mac |-> "none", access |-> TRUE, up |-> 0, down |-> 0]
  <2>1. q \in [action : LimActions, ip : LimIps, mac : {"none"}, access : BOOLEAN, up : {0, 2}, down : {0, 3}] /\ q.mac = "none" /\ q.action = "delete"
    BY <1>2 DEF LimActions, LimIps
  <2>2. [q EXCEPT !.mac = normalizeMAC(@)] = q
    BY <1>1, <2>1
  <2> QED BY <2>1, <2>2 DEF LimRequests
<1>3. CASE \E a \in {"add", "modify", "delete"}, ip \in LimIps, mac \in {"aa", "BB"}, x \in BOOLEAN :
             q = [action |-> a, ip |-> ip, mac |-> mac, access |-> x, up |-> 2, down |-> 3]
  <2>1. PICK a \in {"add", "modify", "delete"}, ip \in LimIps, mac \in {"aa", "BB"}, x \in BOOLEAN :
             q = [action |-> a, ip |-> ip, mac |-> mac, access |-> x, up |-> 2, down |-> 3]
    BY <1>3
  <2> DEFINE z == normalizeMAC(mac)
  <2>2. z \in LimMacs /\ z # "none"
    BY <1>1 DEF LimMacs
  <2> HIDE DEF z
  <2>3. [q EXCEPT !.mac = z] = [action |-> a, ip |-> ip, mac |-> z, access |-> x, up |-> 2, down |-> 3]
    BY <2>1
  <2>4. [action |-> a, ip |-> ip, mac |-> z, access |-> x, up |-> 2, down |-> 3] \in LimRequests
    BY <2>2 DEF LimRequests, LimActions
  <2>5. [q EXCEPT !.mac = normalizeMAC(@)] = [q EXCEPT !.mac = z]
    BY <2>1 DEF z
  <2> QED BY <2>3, <2>4, <2>5
<1> QED BY <1>2, <1>3 DEF LimitForms

LEMMA DeleteSectionTyped ==
  ASSUME NEW cfg \in LimCfgs, NEW at, at \subseteq Nat
  PROVE  DeleteSection(cfg, at) \in Seq(LimCommands)
<1>1. CASE at = {}
  BY <1>1 DEF DeleteSection
<1>2. CASE at # {}
  <2> DEFINE k0 == CHOOSE k \in at : TRUE
             c1 == DelCmd(cfg, k0)
             c2 == LimCmd("commit", cfg)
  <2>1. k0 \in Nat
    BY <1>2
  <2>2. DeleteSection(cfg, at) = <<c1, c2>>
    BY <1>2 DEF DeleteSection, DelCmd
  <2> HIDE DEF k0
  <2>3. c1 \in LimCommands /\ c2 \in LimCommands
    BY <2>1 DEF LimCommands
  <2> HIDE DEF c1, c2
  <2> QED BY <2>2, <2>3
<1> QED BY <1>1, <1>2

LEMMA FoundTyped ==
  ASSUME NEW file \in LimSides, NEW ip, NEW mac
  PROVE  /\ findSpeedLimitRuleMatchByIP(file, ip) \subseteq Nat
         /\ findSpeedLimitRuleMatchByMAC(file, mac) \subseteq Nat
<1>1. DOMAIN file.eqos \subseteq Nat /\ DOMAIN file.firewall \subseteq Nat
  BY DEF LimSides
<1>2. findSpeedLimitRuleMatchByIP(file, ip) \subseteq DOMAIN file.eqos
  BY DEF findSpeedLimitRuleMatchByIP, FirstOf
<1>3. findSpeedLimitRuleMatchByMAC(file, mac) \subseteq DOMAIN file.firewall
  BY DEF findSpeedLimitRuleMatchByMAC, FirstOf
<1> QED BY <1>1, <1>2, <1>3

LEMMA PlanTyped ==
  ASSUME NEW file \in LimSides, NEW r
  PROVE  BuildSpeedLimitWritePlan(file, r) \in Seq(LimCommands)
<1> DEFINE a == DeleteSection("eqos", findSpeedLimitRuleMatchByIP(file, r.ip))
           b == DeleteSection("firewall", findSpeedLimitRuleMatchByMAC(file, r.mac))
<1>1. "eqos" \in LimCfgs /\ "firewall" \in LimCfgs
  BY DEF LimCfgs
<1>2. a \in Seq(LimCommands) /\ b \in Seq(LimCommands)
  BY <1>1, FoundTyped, DeleteSectionTyped
<1>3. BuildSpeedLimitWritePlan(file, r) = a \o b
  BY DEF BuildSpeedLimitWritePlan
<1> HIDE DEF a, b
<1> QED BY <1>2, <1>3

LEMMA LimCommandsAre ==
  /\ \A cfg \in LimCfgs : LimCmd("add", cfg) \in LimCommands /\ LimCmd("commit", cfg) \in LimCommands /\ LimCmd("event", cfg) \in LimCommands
  /\ \A v \in LimIps : SetLast("eqos", "ip", v) \in LimCommands
  /\ \A v \in {0, 1, 3} : SetLast("eqos", "down", v) \in LimCommands
  /\ \A v \in {0, 1, 2} : SetLast("eqos", "up", v) \in LimCommands
  /\ \A v \in {"BL_AA", "BL_BB"} : SetLast("firewall", "name", v) \in LimCommands
  /\ SetLast("firewall", "target", "REJECT") \in LimCommands
  /\ \A v \in LimMacs : SetLast("firewall", "mac", v) \in LimCommands
  /\ \A v \in Modules0 : ModuleCmd(v) \in LimCommands
<1>1. \A cfg \in LimCfgs : LimCmd("add", cfg) \in LimCommands /\ LimCmd("commit", cfg) \in LimCommands /\ LimCmd("event", cfg) \in LimCommands
  BY DEF LimCommands
<1>2. DeviceCommands \subseteq LimCommands /\ RuleCommands \subseteq LimCommands
  BY DEF LimCommands
<1>3. \A v \in LimIps : SetLast("eqos", "ip", v) \in DeviceCommands
  BY DEF DeviceCommands
<1>4. \A v \in {0, 1, 3} : SetLast("eqos", "down", v) \in DeviceCommands
  BY DEF DeviceCommands
<1>5. \A v \in {0, 1, 2} : SetLast("eqos", "up", v) \in DeviceCommands
  BY DEF DeviceCommands
<1>6. \A v \in {"BL_AA", "BL_BB"} : SetLast("firewall", "name", v) \in RuleCommands
  BY DEF RuleCommands
<1>7. SetLast("firewall", "target", "REJECT") \in RuleCommands
  BY DEF RuleCommands
<1>8. \A v \in LimMacs : SetLast("firewall", "mac", v) \in RuleCommands
  BY DEF RuleCommands
<1>9. \A v \in Modules0 : ModuleCmd(v) \in LimCommands
  BY DEF LimCommands
<1> HIDE DEF DeviceCommands, RuleCommands
<1> QED BY <1>1, <1>2, <1>3, <1>4, <1>5, <1>6, <1>7, <1>8, <1>9

LEMMA WriteTyped ==
  ASSUME NEW r \in LimRequests
  PROVE  buildSpeedLimitWriteCommands(r) \in Seq(LimCommands)
<1>1. r.ip \in LimIps /\ r.up \in {0, 1, 2} /\ r.down \in {0, 1, 3}
  BY DEF LimRequests
<1>2. r.action # "delete" => r.mac \in LimMacs /\ buildBlockedRuleName(r.mac) \in {"BL_AA", "BL_BB"}
  BY DEF LimRequests, LimMacs, buildBlockedRuleName
<1>3. "eqos" \in LimCfgs /\ "firewall" \in LimCfgs
  BY DEF LimCfgs
<1>4. CASE r.action = "delete"
  BY <1>4 DEF buildSpeedLimitWriteCommands
<1>5. CASE r.action # "delete" /\ r.access
  <2> DEFINE c1 == LimCmd("add", "eqos")
             c2 == SetLast("eqos", "ip", r.ip)
             c3 == SetLast("eqos", "down", r.down)
             c4 == SetLast("eqos", "up", r.up)
  <2>1. c1 \in LimCommands /\ c2 \in LimCommands /\ c3 \in LimCommands /\ c4 \in LimCommands
    BY <1>1, <1>3, LimCommandsAre
  <2>2. buildSpeedLimitWriteCommands(r) = <<c1, c2, c3, c4>>
    BY <1>5 DEF buildSpeedLimitWriteCommands
  <2> HIDE DEF c1, c2, c3, c4
  <2> QED BY <2>1, <2>2
<1>6. CASE r.action # "delete" /\ ~r.access
  <2> DEFINE z == buildBlockedRuleName(r.mac)
             c1 == LimCmd("add", "firewall")
             c2 == SetLast("firewall", "name", z)
             c3 == SetLast("firewall", "target", "REJECT")
             c4 == SetLast("firewall", "mac", r.mac)
  <2>1. c1 \in LimCommands /\ c2 \in LimCommands /\ c3 \in LimCommands /\ c4 \in LimCommands
    BY <1>2, <1>3, <1>6, LimCommandsAre
  <2>2. buildSpeedLimitWriteCommands(r) = <<c1, c2, c3, c4>>
    BY <1>6 DEF buildSpeedLimitWriteCommands
  <2> HIDE DEF c1, c2, c3, c4
  <2> QED BY <2>1, <2>2
<1> QED BY <1>4, <1>5, <1>6

LEMMA LimApplyTyped == \A cfg \in LimCfgs : LimApply(cfg) \in Seq(LimCommands)
<1> TAKE cfg \in LimCfgs
<1> DEFINE c1 == LimCmd("commit", cfg)
           c2 == LimCmd("event", cfg)
<1>1. c1 \in LimCommands /\ c2 \in LimCommands
  BY LimCommandsAre
<1>2. LimApply(cfg) = <<c1, c2>>
  BY DEF LimApply
<1> HIDE DEF c1, c2
<1> QED BY <1>1, <1>2

LEMMA UpsertTyped ==
  ASSUME NEW file \in LimSides, NEW r \in LimRequests
  PROVE  UpsertSpeedLimitRule(file, r) \in Seq(LimCommands)
<1> DEFINE a == BuildSpeedLimitWritePlan(file, r)
           b == buildSpeedLimitWriteCommands(r)
           c == LimApply("eqos")
           d == LimApply("firewall")
<1>1. "eqos" \in LimCfgs /\ "firewall" \in LimCfgs
  BY DEF LimCfgs
<1>2. a \in Seq(LimCommands) /\ b \in Seq(LimCommands) /\ c \in Seq(LimCommands) /\ d \in Seq(LimCommands)
  BY <1>1, PlanTyped, WriteTyped, LimApplyTyped
<1>3. UpsertSpeedLimitRule(file, r) = IF a \o b = <<>> THEN <<>> ELSE a \o b \o c \o d
  BY DEF UpsertSpeedLimitRule
<1> HIDE DEF a, b, c, d
<1> QED BY <1>2, <1>3
-----------------------------------------------------------------------------
(* The speed limits: what a file that was saved holds                      *)

\* No address has two limits.
OneLimitEach(e) == \A m, n \in DOMAIN e : e[m].ip = e[n].ip => m = n

LimRules == {OwnRule, OwnReject, BlockRule("AA"), BlockRule("BB")}
\* The user's own rules in their order, blocks, and no rule twice.
RulesInPlace(w) ==
  /\ \A n \in DOMAIN w : w[n] \in LimRules
  /\ \A m, n \in DOMAIN w : w[m] = w[n] => m = n
  /\ \E m, n \in DOMAIN w : m < n /\ w[m] = OwnRule /\ w[n] = OwnReject

LEMMA LimRulesAre ==
  /\ \A r \in LimRules : buildBlockedDeviceRule(r) <=> r \in {BlockRule("AA"), BlockRule("BB")}
  /\ OwnRule # OwnReject /\ BlockRule("AA") # BlockRule("BB")
  /\ \A mac \in LimMacs : /\ BlockRule(mac) # OwnRule /\ BlockRule(mac) # OwnReject /\ BlockRule(mac).mac = mac
                          /\ BlockRule(mac) \in LimRules /\ BlockRule(mac) \in Rules0
  /\ LimRules \subseteq Rules0
<1>1. BlockRule("AA") = [name |-> "BL_AA", target |-> "REJECT", mac |-> "AA"] /\ BlockRule("BB") = [name |-> "BL_BB", target |-> "REJECT", mac |-> "BB"]
  BY DEF BlockRule, buildBlockedRuleName
<1> DEFINE x == BlockRule("AA")
           y == BlockRule("BB")
<1>2. /\ x.name = "BL_AA" /\ x.target = "REJECT" /\ x.mac = "AA" /\ x \in Rules0
      /\ y.name = "BL_BB" /\ y.target = "REJECT" /\ y.mac = "BB" /\ y \in Rules0
  BY <1>1 DEF Rules0
<1>3. /\ OwnRule.name = "Allow-Ping" /\ OwnRule.target = "ACCEPT" /\ OwnRule.mac = "none" /\ OwnRule \in Rules0
      /\ OwnReject.name = "Mine" /\ OwnReject.target = "REJECT" /\ OwnReject.mac = "AA" /\ OwnReject \in Rules0
  BY DEF OwnRule, OwnReject, Rules0
<1>4. LimRules = {OwnRule, OwnReject, x, y}
  BY DEF LimRules
<1> HIDE DEF x, y
<1>5. \A r \in {OwnRule, OwnReject, x, y} : buildBlockedDeviceRule(r) <=> r \in {x, y}
  BY <1>2, <1>3 DEF buildBlockedDeviceRule
<1>6. OwnRule # OwnReject /\ x # y
  BY <1>2, <1>3
<1>7. \A mac \in LimMacs : (mac = "AA" /\ BlockRule(mac) = x) \/ (mac = "BB" /\ BlockRule(mac) = y)
  BY DEF LimMacs, x, y
<1>8. \A mac \in LimMacs : BlockRule(mac) # OwnRule /\ BlockRule(mac) # OwnReject /\ BlockRule(mac).mac = mac
                           /\ BlockRule(mac) \in {OwnRule, OwnReject, x, y} /\ BlockRule(mac) \in Rules0
  BY <1>2, <1>3, <1>7
<1>9. {OwnRule, OwnReject, x, y} \subseteq Rules0
  BY <1>2, <1>3
<1> QED BY <1>4, <1>5, <1>6, <1>8, <1>9 DEF x, y

\* Where a section was before the n-th was removed, and where it is afterwards.
WasAt(n, i) == IF i < n THEN i ELSE i + 1
IsAt(n, j) == IF j < n THEN j ELSE j - 1

LEMMA OthersStay ==
  ASSUME NEW S, NEW q \in Seq(S), NEW n \in DOMAIN q, NEW x, x = RemoveAt(q, n)
  PROVE  /\ x \in Seq(S)
         /\ \A i \in DOMAIN x : WasAt(n, i) \in DOMAIN q /\ WasAt(n, i) # n /\ x[i] = q[WasAt(n, i)]
         /\ \A i, k \in DOMAIN x : WasAt(n, i) = WasAt(n, k) => i = k
         /\ \A j \in DOMAIN q : j # n => IsAt(n, j) \in DOMAIN x /\ x[IsAt(n, j)] = q[j]
         /\ \A j, k \in DOMAIN q : j # n /\ k # n /\ j < k => IsAt(n, j) < IsAt(n, k)
<1> DEFINE l == Len(q)
<1>1. l \in Nat /\ DOMAIN q = 1 .. l /\ n \in 1 .. l
  OBVIOUS
<1>2. x \in Seq(S) /\ Len(x) = l - 1 /\ (\A i \in 1 .. l : i < n => x[i] = q[i]) /\ (\A i \in n .. l - 1 : x[i] = q[i + 1])
  <2>1. n \in 1 .. Len(q)
    BY <1>1
  <2>2. Removed(S, q, n, x)
    BY <2>1, RemoveIs
  <2> QED BY <2>2 DEF Removed
<1>3. DOMAIN x = 1 .. l - 1
  BY <1>2
<1> HIDE DEF l
<1>4. \A i \in 1 .. l - 1 : WasAt(n, i) \in 1 .. l /\ WasAt(n, i) # n
  BY <1>1 DEF WasAt
<1>5. \A i \in 1 .. l - 1 : x[i] = q[WasAt(n, i)]
  <2> TAKE i \in 1 .. l - 1
  <2>1. CASE i < n
    <3>1. i \in 1 .. l /\ WasAt(n, i) = i
      BY <1>1, <2>1 DEF WasAt
    <3> QED BY <1>2, <2>1, <3>1
  <2>2. CASE ~(i < n)
    <3>1. i \in n .. l - 1 /\ WasAt(n, i) = i + 1
      BY <1>1, <2>2 DEF WasAt
    <3> QED BY <1>2, <3>1
  <2> QED BY <2>1, <2>2
<1>6. \A i, k \in 1 .. l - 1 : WasAt(n, i) = WasAt(n, k) => i = k
  BY <1>1 DEF WasAt
<1>7. \A j \in 1 .. l : j # n => IsAt(n, j) \in 1 .. l - 1 /\ WasAt(n, IsAt(n, j)) = j
  BY <1>1 DEF WasAt, IsAt
<1>8. \A j, k \in 1 .. l : j # n /\ k # n /\ j < k => IsAt(n, j) < IsAt(n, k)
  BY <1>1 DEF IsAt
<1>9. \A j \in 1 .. l : j # n => x[IsAt(n, j)] = q[j]
  BY <1>5, <1>7
<1> QED BY <1>1, <1>2, <1>3, <1>4, <1>5, <1>6, <1>7, <1>8, <1>9

LEMMA OneLimitLess ==
  ASSUME NEW e \in Seq(Devices0), OneLimitEach(e), NEW n \in DOMAIN e, NEW x, x = RemoveAt(e, n)
  PROVE  x \in Seq(Devices0) /\ OneLimitEach(x) /\ \A i \in DOMAIN x : x[i].ip # e[n].ip
<1>1. x \in Seq(Devices0) /\ (\A i \in DOMAIN x : WasAt(n, i) \in DOMAIN e /\ WasAt(n, i) # n /\ x[i] = e[WasAt(n, i)])
      /\ (\A i, k \in DOMAIN x : WasAt(n, i) = WasAt(n, k) => i = k)
  BY OthersStay
<1>2. \A i \in DOMAIN x : x[i].ip # e[n].ip
  BY <1>1 DEF OneLimitEach
<1>3. OneLimitEach(x)
  <2> SUFFICES ASSUME NEW i \in DOMAIN x, NEW k \in DOMAIN x, x[i].ip = x[k].ip PROVE i = k
    BY DEF OneLimitEach
  <2>1. WasAt(n, i) = WasAt(n, k)
    BY <1>1 DEF OneLimitEach
  <2> QED BY <1>1, <2>1
<1> QED BY <1>1, <1>2, <1>3

LEMMA RulesLess ==
  ASSUME NEW w \in Seq(Rules0), RulesInPlace(w), NEW n \in DOMAIN w, w[n] # OwnRule, w[n] # OwnReject, NEW x, x = RemoveAt(w, n)
  PROVE  x \in Seq(Rules0) /\ RulesInPlace(x) /\ \A i \in DOMAIN x : x[i] # w[n]
<1>1. x \in Seq(Rules0) /\ (\A i \in DOMAIN x : WasAt(n, i) \in DOMAIN w /\ WasAt(n, i) # n /\ x[i] = w[WasAt(n, i)])
      /\ (\A i, k \in DOMAIN x : WasAt(n, i) = WasAt(n, k) => i = k)
  BY OthersStay
<1>2. (\A j \in DOMAIN w : j # n => IsAt(n, j) \in DOMAIN x /\ x[IsAt(n, j)] = w[j])
      /\ (\A j, k \in DOMAIN w : j # n /\ k # n /\ j < k => IsAt(n, j) < IsAt(n, k))
  BY OthersStay
<1>3. \A i \in DOMAIN x : x[i] # w[n] /\ x[i] \in LimRules
  BY <1>1 DEF RulesInPlace
<1>4. \A i, k \in DOMAIN x : x[i] = x[k] => i = k
  <2> TAKE i, k \in DOMAIN x
  <2> HAVE x[i] = x[k]
  <2>1. WasAt(n, i) = WasAt(n, k)
    BY <1>1 DEF RulesInPlace
  <2> QED BY <1>1, <2>1
<1>5. \E j, k \in DOMAIN x : j < k /\ x[j] = OwnRule /\ x[k] = OwnReject
  <2>1. PICK j, k \in DOMAIN w : j < k /\ w[j] = OwnRule /\ w[k] = OwnReject
    BY DEF RulesInPlace
  <2>2. j # n /\ k # n
    BY <2>1
  <2>3. IsAt(n, j) \in DOMAIN x /\ IsAt(n, k) \in DOMAIN x /\ IsAt(n, j) < IsAt(n, k) /\ x[IsAt(n, j)] = OwnRule /\ x[IsAt(n, k)] = OwnReject
    BY <1>2, <2>1, <2>2
  <2> QED BY <2>3
<1> QED BY <1>1, <1>3, <1>4, <1>5 DEF RulesInPlace

LEMMA OneLimitMore ==
  ASSUME NEW e \in Seq(Devices0), OneLimitEach(e), NEW d \in Devices0, \A i \in DOMAIN e : e[i].ip # d.ip, NEW x, x = Append(e, d)
  PROVE  x \in Seq(Devices0) /\ OneLimitEach(x)
<1> DEFINE l == Len(e)
<1>1. l \in Nat /\ DOMAIN e = 1 .. l
  OBVIOUS
<1>2. x \in Seq(Devices0) /\ DOMAIN x = 1 .. l + 1 /\ (\A i \in 1 .. l : x[i] = e[i]) /\ x[l + 1] = d
  OBVIOUS
<1> HIDE DEF l
<1>3. \A i, k \in 1 .. l + 1 : x[i].ip = x[k].ip => i = k
  <2> TAKE i, k \in 1 .. l + 1
  <2> HAVE x[i].ip = x[k].ip
  <2>1. (i \in 1 .. l \/ i = l + 1) /\ (k \in 1 .. l \/ k = l + 1)
    BY <1>1
  <2> QED BY <1>1, <1>2, <2>1 DEF OneLimitEach
<1> QED BY <1>2, <1>3 DEF OneLimitEach

LEMMA RulesMore ==
  ASSUME NEW w \in Seq(Rules0), RulesInPlace(w), NEW d \in Rules0, d \in LimRules, \A i \in DOMAIN w : w[i] # d, NEW x, x = Append(w, d)
  PROVE  x \in Seq(Rules0) /\ RulesInPlace(x)
<1> DEFINE l == Len(w)
<1>1. l \in Nat /\ DOMAIN w = 1 .. l
  OBVIOUS
<1>2. x \in Seq(Rules0) /\ DOMAIN x = 1 .. l + 1 /\ (\A i \in 1 .. l : x[i] = w[i]) /\ x[l + 1] = d
  OBVIOUS
<1> HIDE DEF l
<1>3. \A i \in 1 .. l + 1 : i \in 1 .. l \/ i = l + 1
  BY <1>1
<1>4. \A i \in 1 .. l + 1 : x[i] \in LimRules
  BY <1>1, <1>2, <1>3 DEF RulesInPlace
<1>5. \A i, k \in 1 .. l + 1 : x[i] = x[k] => i = k
  BY <1>1, <1>2, <1>3 DEF RulesInPlace
<1>6. \E j, k \in 1 .. l + 1 : j < k /\ x[j] = OwnRule /\ x[k] = OwnReject
  <2>1. PICK j, k \in 1 .. l : j < k /\ w[j] = OwnRule /\ w[k] = OwnReject
    BY <1>1 DEF RulesInPlace
  <2>2. j \in 1 .. l + 1 /\ k \in 1 .. l + 1
    BY <1>1
  <2> QED BY <1>2, <2>1, <2>2
<1> QED BY <1>2, <1>4, <1>5, <1>6 DEF RulesInPlace
-----------------------------------------------------------------------------
(* The speed limits: what a request's commands do to a saved file          *)

LimitAsked(r) == r.action # "delete" /\ r.access
BlockAsked(r) == r.action # "delete" /\ ~r.access
DeviceAsked(r) == [ip |-> r.ip, up |-> r.up, down |-> r.down]

NoLimitFor(e, ip) == \A i \in DOMAIN e : e[i].ip # ip
NoBlockFor(w, mac) == mac # "none" => \A i \in DOMAIN w : w[i] # BlockRule(mac)

Filled(d, opt, v) == [d EXCEPT ![opt] = v]

LEMMA LastOfAdded ==
  ASSUME NEW S, NEW q \in Seq(S), NEW d, NEW opt, NEW v
  PROVE  LastWith(Append(q, d), opt, v) = Append(q, Filled(d, opt, v))
<1> DEFINE n == Len(q)
           x == Append(q, d)
           z == Filled(d, opt, v)
           T == S \union {d, z}
<1>1. q \in Seq(T) /\ d \in T /\ z \in T
  <2> HIDE DEF z
  <2>1. \A i \in 1 .. Len(q) : q[i] \in T
    OBVIOUS
  <2>2. Len(q) \in Nat /\ q = [i \in 1 .. Len(q) |-> q[i]]
    OBVIOUS
  <2> HIDE DEF T
  <2>3. q \in Seq(T)
    BY <2>1, <2>2, SeqDef
  <2> QED BY <2>3 DEF T
<1>2. n \in Nat /\ Len(x) = n + 1 /\ x[n + 1] = d
  OBVIOUS
<1>3. [x EXCEPT ![n + 1] = z] = Append(q, z)
  <2> HIDE DEF z, T
  <2> QED BY <1>1, LastOfAppend
<1> HIDE DEF x, n
<1>4. LastWith(x, opt, v) = [x EXCEPT ![n + 1] = [x[n + 1] EXCEPT ![opt] = v]]
  BY <1>2 DEF LastWith
<1>5. [x[n + 1] EXCEPT ![opt] = v] = z
  BY <1>2 DEF z, Filled
<1> HIDE DEF z
<1>6. LastWith(x, opt, v) = Append(q, z)
  BY <1>3, <1>4, <1>5
<1> QED BY <1>6 DEF x, z

LEMMA SectionDeleted ==
  ASSUME NEW cfg, NEW n, NEW at, at = {n}
  PROVE  DeleteSection(cfg, at) = <<DelCmd(cfg, n), LimCmd("commit", cfg)>>
<1>1. at # {} /\ (CHOOSE k \in at : TRUE) = n
  OBVIOUS
<1> QED BY <1>1 DEF DeleteSection, DelCmd

LEMMA FirstOfOne == \A n \in Int : FirstOf({n}) = {n}
BY DEF FirstOf

LEMMA FirstOfNone == FirstOf({}) = {}
BY DEF FirstOf

\* The limit of the address goes, and no other device gets a second.
LEMMA EqosCleared ==
  ASSUME NEW e \in Seq(Devices0), OneLimitEach(e), NEW w, NEW m, NEW le, NEW lw, NEW lm, NEW ip, NEW f, f = Side(e, w, m)
  PROVE  \E x \in Seq(Devices0) :
           /\ OneLimitEach(x) /\ NoLimitFor(x, ip)
           /\ After(Lim(e, w, m, e, w, m, le, lw, lm), DeleteSection("eqos", findSpeedLimitRuleMatchByIP(f, ip)))
                = Lim(x, w, m, x, w, m, le, lw, lm)
<1> DEFINE s == Lim(e, w, m, e, w, m, le, lw, lm)
           on == {n \in DOMAIN e : e[n].ip = ip}
           at == findSpeedLimitRuleMatchByIP(f, ip)
<1>1. at = FirstOf(on)
  <2>1. f.eqos = e
    BY SideParts
  <2> QED BY <2>1 DEF findSpeedLimitRuleMatchByIP
<1>2. CASE on = {}
  <2>1. at = {}
    BY <1>1, <1>2, FirstOfNone
  <2> HIDE DEF at
  <2>2. After(s, DeleteSection("eqos", at)) = s
    BY <2>1, AfterNone DEF DeleteSection
  <2>3. NoLimitFor(e, ip)
    BY <1>2 DEF NoLimitFor
  <2> QED BY <2>2, <2>3 DEF at
<1>3. CASE on # {}
  <2>1. PICK n \in DOMAIN e : e[n].ip = ip
    BY <1>3
  <2>2. on = {n}
    BY <2>1 DEF OneLimitEach
  <2>3. n \in Int
    OBVIOUS
  <2>4. at = {n}
    <3> HIDE DEF on, at
    <3> QED BY <1>1, <2>2, <2>3, FirstOfOne
  <2> DEFINE x == RemoveAt(e, n)
             s1 == Lim(e, w, m, x, w, m, le, lw, lm)
             s2 == Lim(x, w, m, x, w, m, le, lw, lm)
             c1 == DelCmd("eqos", n)
             c2 == LimCmd("commit", "eqos")
  <2>5. x \in Seq(Devices0) /\ OneLimitEach(x) /\ NoLimitFor(x, ip)
    BY <2>1, OneLimitLess DEF NoLimitFor
  <2>6. Without(e, n) = x
    BY <2>1 DEF Without
  <2> HIDE DEF x, at
  <2>7. s1 = ExecLimit(s, c1)
    BY <2>6, DelEqos
  <2>8. s2 = ExecLimit(s1, c2)
    BY CommitEqos
  <2>9. DeleteSection("eqos", at) = <<c1, c2>>
    BY <2>4, SectionDeleted
  <2>10. After(s, <<c1, c2>>) = s2
    <3> HIDE DEF s, s1, s2, c1, c2
    <3> QED BY <2>7, <2>8, AfterTwo
  <2> QED BY <2>5, <2>9, <2>10 DEF at
<1> QED BY <1>2, <1>3

\* The block of the MAC goes, and the user's own rules stay in place.
LEMMA FirewallCleared ==
  ASSUME NEW w \in Seq(Rules0), RulesInPlace(w), NEW e, NEW m, NEW le, NEW lw, NEW lm, NEW mac \in LimMacs \union {"none"},
         NEW fe, NEW fm
  PROVE  \E x \in Seq(Rules0) :
           /\ RulesInPlace(x) /\ NoBlockFor(x, mac)
           /\ After(Lim(e, w, m, e, w, m, le, lw, lm), DeleteSection("firewall", findSpeedLimitRuleMatchByMAC(Side(fe, w, fm), mac)))
                = Lim(e, x, m, e, x, m, le, lw, lm)
<1> DEFINE s == Lim(e, w, m, e, w, m, le, lw, lm)
           on == {n \in DOMAIN w : buildBlockedDeviceRule(w[n]) /\ w[n].mac = mac}
           at == findSpeedLimitRuleMatchByMAC(Side(fe, w, fm), mac)
<1>1. at = FirstOf(on)
  <2> DEFINE f == Side(fe, w, fm)
  <2>1. f.firewall = w
    BY SideParts
  <2> HIDE DEF f
  <2>2. findSpeedLimitRuleMatchByMAC(f, mac) = FirstOf(on)
    BY <2>1 DEF findSpeedLimitRuleMatchByMAC
  <2> QED BY <2>2 DEF f
<1>2. \A n \in DOMAIN w : n \in on <=> mac # "none" /\ w[n] = BlockRule(mac)
  <2> TAKE n \in DOMAIN w
  <2>1. w[n] \in LimRules
    BY DEF RulesInPlace
  <2>2. buildBlockedDeviceRule(w[n]) <=> \E k \in LimMacs : w[n] = BlockRule(k)
    BY <2>1, LimRulesAre DEF LimMacs
  <2>3. \A k \in LimMacs : BlockRule(k).mac = k /\ k # "none" /\ buildBlockedDeviceRule(BlockRule(k))
    BY LimRulesAre DEF LimMacs
  <2> QED BY <2>2, <2>3
<1>3. CASE on = {}
  <2>1. at = {}
    BY <1>1, <1>3, FirstOfNone
  <2> HIDE DEF at
  <2>2. After(s, DeleteSection("firewall", at)) = s
    BY <2>1, AfterNone DEF DeleteSection
  <2>3. NoBlockFor(w, mac)
    BY <1>2, <1>3 DEF NoBlockFor
  <2> QED BY <2>2, <2>3 DEF at
<1>4. CASE on # {}
  <2>1. PICK n \in DOMAIN w : n \in on
    BY <1>4
  <2>2. mac \in LimMacs /\ w[n] = BlockRule(mac)
    BY <1>2, <2>1
  <2>3. on = {n}
    <3>1. \A k \in on : k = n
      BY <1>2, <2>2 DEF RulesInPlace
    <3> HIDE DEF on
    <3> QED BY <2>1, <3>1
  <2>4. n \in Int
    OBVIOUS
  <2>5. at = {n}
    <3> HIDE DEF on, at
    <3> QED BY <1>1, <2>3, <2>4, FirstOfOne
  <2> DEFINE x == RemoveAt(w, n)
             s1 == Lim(e, w, m, e, x, m, le, lw, lm)
             s2 == Lim(e, x, m, e, x, m, le, lw, lm)
             c1 == DelCmd("firewall", n)
             c2 == LimCmd("commit", "firewall")
  <2>6. x \in Seq(Rules0) /\ RulesInPlace(x) /\ NoBlockFor(x, mac)
    <3>1. w[n] # OwnRule /\ w[n] # OwnReject
      BY <2>2, LimRulesAre
    <3> QED BY <2>2, <3>1, RulesLess DEF NoBlockFor
  <2>7. Without(w, n) = x
    BY <2>1 DEF Without
  <2> HIDE DEF x, at
  <2>8. s1 = ExecLimit(s, c1)
    BY <2>7, DelFirewall
  <2>9. s2 = ExecLimit(s1, c2)
    BY CommitFirewall
  <2>10. DeleteSection("firewall", at) = <<c1, c2>>
    BY <2>5, SectionDeleted
  <2>11. After(s, <<c1, c2>>) = s2
    <3> HIDE DEF s, s1, s2, c1, c2
    <3> QED BY <2>8, <2>9, AfterTwo
  <2> QED BY <2>6, <2>10, <2>11 DEF at
<1> QED BY <1>3, <1>4

\* The device that is asked for, filled in option by option.
LEMMA DeviceFilled ==
  \A ip, up, down : [[[BlankDevice EXCEPT !["ip"] = ip] EXCEPT !["down"] = down] EXCEPT !["up"] = up] = [ip |-> ip, up |-> up, down |-> down]
BY DEF BlankDevice

LEMMA RuleFilled ==
  \A u, v, k : [[[BlankRule EXCEPT !["name"] = u] EXCEPT !["target"] = v] EXCEPT !["mac"] = k] = [name |-> u, target |-> v, mac |-> k]
BY DEF BlankRule

LEMMA LimitWritten ==
  ASSUME NEW e \in Seq(Devices0), NEW w, NEW m, NEW le, NEW lw, NEW lm, NEW r, LimitAsked(r)
  PROVE  After(Lim(e, w, m, e, w, m, le, lw, lm), buildSpeedLimitWriteCommands(r))
           = Lim(e, w, m, Append(e, DeviceAsked(r)), w, m, le, lw, lm)
<1> DEFINE d1 == BlankDevice
           d2 == Filled(d1, "ip", r.ip)
           d3 == Filled(d2, "down", r.down)
           d4 == Filled(d3, "up", r.up)
           x1 == Append(e, d1)
           x2 == Append(e, d2)
           x3 == Append(e, d3)
           x4 == Append(e, d4)
           s == Lim(e, w, m, e, w, m, le, lw, lm)
           s1 == Lim(e, w, m, x1, w, m, le, lw, lm)
           s2 == Lim(e, w, m, x2, w, m, le, lw, lm)
           s3 == Lim(e, w, m, x3, w, m, le, lw, lm)
           s4 == Lim(e, w, m, x4, w, m, le, lw, lm)
           c1 == LimCmd("add", "eqos")
           c2 == SetLast("eqos", "ip", r.ip)
           c3 == SetLast("eqos", "down", r.down)
           c4 == SetLast("eqos", "up", r.up)
<1>1. d4 = DeviceAsked(r)
  BY DeviceFilled DEF Filled, DeviceAsked
<1> HIDE DEF d1, d2, d3, d4
<1>2. LastWith(x1, "ip", r.ip) = x2
  BY LastOfAdded DEF d2
<1>3. LastWith(x2, "down", r.down) = x3
  BY LastOfAdded DEF d3
<1>4. LastWith(x3, "up", r.up) = x4
  BY LastOfAdded DEF d4
<1>5. s1 = ExecLimit(s, c1)
  BY AddEqos DEF d1
<1> HIDE DEF x1, x2, x3, x4
<1>6. s2 = ExecLimit(s1, c2)
  BY <1>2, LastEqos
<1>7. s3 = ExecLimit(s2, c3)
  BY <1>3, LastEqos
<1>8. s4 = ExecLimit(s3, c4)
  BY <1>4, LastEqos
<1>9. buildSpeedLimitWriteCommands(r) = <<c1, c2, c3, c4>>
  BY DEF buildSpeedLimitWriteCommands, LimitAsked
<1>10. After(s, <<c1, c2, c3, c4>>) = s4
  <2> HIDE DEF s, s1, s2, s3, s4, c1, c2, c3, c4
  <2> QED BY <1>5, <1>6, <1>7, <1>8, AfterFour
<1>11. x4 = Append(e, DeviceAsked(r))
  BY <1>1 DEF x4
<1> QED BY <1>9, <1>10, <1>11

LEMMA BlockWritten ==
  ASSUME NEW w \in Seq(Rules0), NEW e, NEW m, NEW le, NEW lw, NEW lm, NEW r, BlockAsked(r)
  PROVE  After(Lim(e, w, m, e, w, m, le, lw, lm), buildSpeedLimitWriteCommands(r))
           = Lim(e, w, m, e, Append(w, BlockRule(r.mac)), m, le, lw, lm)
<1> DEFINE z == buildBlockedRuleName(r.mac)
           d1 == BlankRule
           d2 == Filled(d1, "name", z)
           d3 == Filled(d2, "target", "REJECT")
           d4 == Filled(d3, "mac", r.mac)
           x1 == Append(w, d1)
           x2 == Append(w, d2)
           x3 == Append(w, d3)
           x4 == Append(w, d4)
           s == Lim(e, w, m, e, w, m, le, lw, lm)
           s1 == Lim(e, w, m, e, x1, m, le, lw, lm)
           s2 == Lim(e, w, m, e, x2, m, le, lw, lm)
           s3 == Lim(e, w, m, e, x3, m, le, lw, lm)
           s4 == Lim(e, w, m, e, x4, m, le, lw, lm)
           c1 == LimCmd("add", "firewall")
           c2 == SetLast("firewall", "name", z)
           c3 == SetLast("firewall", "target", "REJECT")
           c4 == SetLast("firewall", "mac", r.mac)
<1>1. d4 = BlockRule(r.mac)
  <2> HIDE DEF z
  <2>1. d4 = [name |-> z, target |-> "REJECT", mac |-> r.mac]
    BY RuleFilled DEF Filled
  <2> HIDE DEF d4
  <2> QED BY <2>1 DEF BlockRule, z
<1> HIDE DEF d1, d2, d3, d4, z
<1>2. LastWith(x1, "name", z) = x2
  BY LastOfAdded DEF d2
<1>3. LastWith(x2, "target", "REJECT") = x3
  BY LastOfAdded DEF d3
<1>4. LastWith(x3, "mac", r.mac) = x4
  BY LastOfAdded DEF d4
<1>5. s1 = ExecLimit(s, c1)
  BY AddFirewall DEF d1
<1> HIDE DEF x1, x2, x3, x4
<1>6. s2 = ExecLimit(s1, c2)
  BY <1>2, LastFirewall
<1>7. s3 = ExecLimit(s2, c3)
  BY <1>3, LastFirewall
<1>8. s4 = ExecLimit(s3, c4)
  BY <1>4, LastFirewall
<1>9. buildSpeedLimitWriteCommands(r) = <<c1, c2, c3, c4>>
  BY DEF buildSpeedLimitWriteCommands, z, BlockAsked
<1>10. After(s, <<c1, c2, c3, c4>>) = s4
  <2> HIDE DEF s, s1, s2, s3, s4, c1, c2, c3, c4
  <2> QED BY <1>5, <1>6, <1>7, <1>8, AfterFour
<1>11. x4 = Append(w, BlockRule(r.mac))
  BY <1>1 DEF x4
<1> QED BY <1>9, <1>10, <1>11

\* What was staged is saved and put in force.
LEMMA BothApplied ==
  ASSUME NEW fe, NEW fw, NEW fm, NEW e, NEW w, NEW m, NEW le, NEW lw, NEW lm,
         NEW s, s = Lim(fe, fw, fm, e, w, m, le, lw, lm),
         NEW t, t = After(s, LimApply("eqos"))
  PROVE  /\ t = Lim(e, fw, m, e, w, m, e, lw, m)
         /\ After(t, LimApply("firewall")) = Lim(e, w, m, e, w, m, e, w, m)
<1> DEFINE s1 == Lim(e, fw, m, e, w, m, le, lw, lm)
           s2 == Lim(e, fw, m, e, w, m, e, lw, m)
           s3 == Lim(e, w, m, e, w, m, e, lw, m)
           s4 == Lim(e, w, m, e, w, m, e, w, m)
           c1 == LimCmd("commit", "eqos")
           c2 == LimCmd("event", "eqos")
           c3 == LimCmd("commit", "firewall")
           c4 == LimCmd("event", "firewall")
<1>1. s1 = ExecLimit(s, c1)
  BY CommitEqos
<1>2. s2 = ExecLimit(s1, c2)
  BY EventEqos
<1>3. s3 = ExecLimit(s2, c3)
  BY CommitFirewall
<1>4. s4 = ExecLimit(s3, c4)
  BY EventFirewall
<1>5. LimApply("eqos") = <<c1, c2>> /\ LimApply("firewall") = <<c3, c4>>
  BY DEF LimApply
<1> HIDE DEF s1, s2, s3, s4, c1, c2, c3, c4
<1>6. After(s, <<c1, c2>>) = s2
  BY <1>1, <1>2, AfterTwo
<1>7. After(s2, <<c3, c4>>) = s4
  BY <1>3, <1>4, AfterTwo
<1>8. t = s2
  BY <1>5, <1>6
<1>9. After(t, LimApply("firewall")) = s4
  BY <1>5, <1>7, <1>8
<1> QED BY <1>8, <1>9 DEF s2, s4
-----------------------------------------------------------------------------
(* The speed limits: a request that is not cut off                         *)

\* The limits and the rules are as the form says.
Fulfilled(x, y, r) ==
  /\ {d \in Range(x) : d.ip = r.ip} = IF LimitAsked(r) THEN {DeviceAsked(r)} ELSE {}
  /\ r.mac # "none" => ((\E i \in DOMAIN y : y[i] = BlockRule(r.mac)) <=> BlockAsked(r))

\* Saved, staged and in force alike, in good shape.
LimSaved(s, x, y, m) == s = Lim(x, y, m, x, y, m, x, y, m) /\ OneLimitEach(x) /\ RulesInPlace(y)

LEMMA LimitAdded ==
  ASSUME NEW e \in Seq(Devices0), NEW d, \A i \in DOMAIN e : e[i].ip # d.ip, NEW x, x = Append(e, d)
  PROVE  {v \in Range(x) : v.ip = d.ip} = {d}
<1> DEFINE l == Len(e)
<1>1. l \in Nat /\ DOMAIN e = 1 .. l
  OBVIOUS
<1>2. DOMAIN x = 1 .. l + 1 /\ (\A i \in 1 .. l : x[i] = e[i]) /\ x[l + 1] = d
  OBVIOUS
<1> HIDE DEF l
<1>3. l + 1 \in 1 .. l + 1 /\ \A i \in 1 .. l + 1 : i \in 1 .. l \/ i = l + 1
  BY <1>1
<1>4. \A v \in Range(x) : v.ip = d.ip => v = d
  BY <1>1, <1>2, <1>3 DEF Range
<1>5. d \in Range(x)
  BY <1>2, <1>3 DEF Range
<1> HIDE DEF Range
<1> QED BY <1>4, <1>5

LEMMA NoLimitOf ==
  ASSUME NEW e, NEW ip, NoLimitFor(e, ip)
  PROVE  {v \in Range(e) : v.ip = ip} = {}
BY DEF Range, NoLimitFor

LEMMA WrittenFulfilled ==
  ASSUME NEW e \in Seq(Devices0), NEW w \in Seq(Rules0), NEW m, NEW le, NEW lw, NEW lm, OneLimitEach(e), RulesInPlace(w),
         NEW r \in LimRequests, NoLimitFor(e, r.ip), NoBlockFor(w, r.mac)
  PROVE  \E x \in Seq(Devices0), y \in Seq(Rules0) :
           /\ After(Lim(e, w, m, e, w, m, le, lw, lm), buildSpeedLimitWriteCommands(r)) = Lim(e, w, m, x, y, m, le, lw, lm)
           /\ OneLimitEach(x) /\ RulesInPlace(y) /\ Fulfilled(x, y, r)
<1> DEFINE s == Lim(e, w, m, e, w, m, le, lw, lm)
<1>1. {d \in Range(e) : d.ip = r.ip} = {}
  BY NoLimitOf
<1>2. r.mac # "none" => ~\E i \in DOMAIN w : w[i] = BlockRule(r.mac)
  BY DEF NoBlockFor
<1>3. CASE r.action = "delete"
  <2>1. After(s, buildSpeedLimitWriteCommands(r)) = s
    BY <1>3, AfterNone DEF buildSpeedLimitWriteCommands
  <2>2. Fulfilled(e, w, r)
    BY <1>1, <1>2, <1>3 DEF Fulfilled, LimitAsked, BlockAsked
  <2> QED BY <2>1, <2>2
<1>4. CASE LimitAsked(r)
  <2> DEFINE d == DeviceAsked(r)
             x == Append(e, d)
  <2>1. d \in Devices0 /\ d.ip = r.ip
    BY DEF DeviceAsked, LimRequests, Devices0
  <2>2. After(s, buildSpeedLimitWriteCommands(r)) = Lim(e, w, m, x, w, m, le, lw, lm)
    <3>1. x = Append(e, DeviceAsked(r))
      OBVIOUS
    <3>2. After(s, buildSpeedLimitWriteCommands(r)) = Lim(e, w, m, Append(e, DeviceAsked(r)), w, m, le, lw, lm)
      BY <1>4, LimitWritten
    <3> HIDE DEF d, x
    <3> QED BY <3>1, <3>2
  <2> HIDE DEF d
  <2>3. x \in Seq(Devices0) /\ OneLimitEach(x)
    BY <2>1, OneLimitMore DEF NoLimitFor
  <2>4. {v \in Range(x) : v.ip = r.ip} = {d}
    BY <2>1, LimitAdded, ZenonT(60) DEF NoLimitFor
  <2> HIDE DEF x, s
  <2>5. Fulfilled(x, w, r)
    BY <1>2, <1>4, <2>4 DEF Fulfilled, LimitAsked, BlockAsked, d
  <2> QED BY <2>2, <2>3, <2>5 DEF s
<1>5. CASE BlockAsked(r)
  <2> DEFINE d == BlockRule(r.mac)
             y == Append(w, d)
  <2>1. r.mac \in LimMacs /\ r.mac # "none"
    BY <1>5 DEF BlockAsked, LimRequests, LimMacs
  <2>2. d \in Rules0 /\ d \in LimRules
    BY <2>1, LimRulesAre
  <2>3. After(s, buildSpeedLimitWriteCommands(r)) = Lim(e, w, m, e, y, m, le, lw, lm)
    <3>1. y = Append(w, BlockRule(r.mac))
      OBVIOUS
    <3>2. After(s, buildSpeedLimitWriteCommands(r)) = Lim(e, w, m, e, Append(w, BlockRule(r.mac)), m, le, lw, lm)
      BY <1>5, BlockWritten
    <3> HIDE DEF d, y
    <3> QED BY <3>1, <3>2
  <2> HIDE DEF d
  <2>4. \A i \in DOMAIN w : w[i] # d
    BY <2>1 DEF d, NoBlockFor
  <2>5. y \in Seq(Rules0) /\ RulesInPlace(y)
    BY <2>2, <2>4, RulesMore
  <2>6. \E i \in DOMAIN y : y[i] = d
    <3>1. Len(w) \in Nat /\ Len(w) + 1 \in DOMAIN y /\ y[Len(w) + 1] = d
      OBVIOUS
    <3> QED BY <3>1
  <2> HIDE DEF y, s
  <2>7. Fulfilled(e, y, r)
    BY <1>1, <1>5, <2>6 DEF Fulfilled, LimitAsked, BlockAsked, d
  <2> QED BY <2>3, <2>5, <2>7 DEF s
<1> QED BY <1>3, <1>4, <1>5 DEF LimitAsked, BlockAsked

\* The three parts of a request: the old limit and the old block go, and the new one comes.
LEMMA PlannedAndWritten ==
  ASSUME NEW e \in Seq(Devices0), NEW w \in Seq(Rules0), NEW m \in Modules0, OneLimitEach(e), RulesInPlace(w),
         NEW r \in LimRequests
  PROVE  \E fe \in Seq(Devices0), fw \in Seq(Rules0), x \in Seq(Devices0), y \in Seq(Rules0) :
           /\ After(Lim(e, w, m, e, w, m, e, w, m), BuildSpeedLimitWritePlan(Side(e, w, m), r) \o buildSpeedLimitWriteCommands(r))
                = Lim(fe, fw, m, x, y, m, e, w, m)
           /\ OneLimitEach(x) /\ RulesInPlace(y) /\ Fulfilled(x, y, r)
<1> DEFINE f == Side(e, w, m)
           s == Lim(e, w, m, e, w, m, e, w, m)
           cmds == BuildSpeedLimitWritePlan(f, r) \o buildSpeedLimitWriteCommands(r)
           a == DeleteSection("eqos", findSpeedLimitRuleMatchByIP(f, r.ip))
           b == DeleteSection("firewall", findSpeedLimitRuleMatchByMAC(f, r.mac))
           c == buildSpeedLimitWriteCommands(r)
<1>1. PICK x \in Seq(Devices0) :
        /\ OneLimitEach(x) /\ NoLimitFor(x, r.ip)
        /\ After(s, a) = Lim(x, w, m, x, w, m, e, w, m)
  BY EqosCleared
<1>2. r.mac \in LimMacs \union {"none"}
  BY DEF LimRequests
<1>3. PICK y \in Seq(Rules0) :
        /\ RulesInPlace(y) /\ NoBlockFor(y, r.mac)
        /\ After(Lim(x, w, m, x, w, m, e, w, m), b) = Lim(x, y, m, x, y, m, e, w, m)
  BY <1>2, FirewallCleared
<1>4. PICK x2 \in Seq(Devices0), y2 \in Seq(Rules0) :
        /\ After(Lim(x, y, m, x, y, m, e, w, m), c) = Lim(x, y, m, x2, y2, m, e, w, m)
        /\ OneLimitEach(x2) /\ RulesInPlace(y2) /\ Fulfilled(x2, y2, r)
  BY <1>1, <1>3, WrittenFulfilled
<1>5. a \in Seq(LimCommands) /\ b \in Seq(LimCommands) /\ c \in Seq(LimCommands)
  <2>1. f \in LimSides
    BY DEF Side, LimSides
  <2>2. "eqos" \in LimCfgs /\ "firewall" \in LimCfgs
    BY DEF LimCfgs
  <2> QED BY <2>1, <2>2, FoundTyped, DeleteSectionTyped, WriteTyped
<1>6. cmds = (a \o b) \o c
  BY DEF BuildSpeedLimitWritePlan
<1> HIDE DEF a, b, c
<1> DEFINE p == a \o b
<1>7. p \in Seq(LimCommands)
  BY <1>5
<1>8. After(s, p) = After(After(s, a), b)
  BY <1>5, AfterJoined
<1> HIDE DEF p
<1>9. After(s, cmds) = After(After(s, p), c)
  <2>1. cmds = p \o c
    BY <1>6 DEF p
  <2> QED BY <1>5, <1>7, <2>1, AfterJoined
<1>10. After(s, cmds) = Lim(x, y, m, x2, y2, m, e, w, m)
  BY <1>1, <1>3, <1>4, <1>8, <1>9
<1> QED BY <1>4, <1>10

LEMMA LimAlike ==
  ASSUME NEW fe, NEW fw, NEW fm, NEW se, NEW sw, NEW sm, NEW le, NEW lw, NEW lm, NEW e, NEW w, NEW m,
         Lim(fe, fw, fm, se, sw, sm, le, lw, lm) = Lim(e, w, m, e, w, m, e, w, m)
  PROVE  se = e /\ sw = w
BY SidesParts, SideParts DEF Lim

LEMMA UpsertSaved ==
  ASSUME NEW e \in Seq(Devices0), NEW w \in Seq(Rules0), NEW m \in Modules0, NEW r \in LimRequests, NEW s, LimSaved(s, e, w, m)
  PROVE  \E x \in Seq(Devices0), y \in Seq(Rules0) : LimSaved(After(s, UpsertSpeedLimitRule(s.file, r)), x, y, m) /\ Fulfilled(x, y, r)
<1> DEFINE f == s.file
           p == BuildSpeedLimitWritePlan(f, r)
           c == buildSpeedLimitWriteCommands(r)
           q == p \o c
           g == LimApply("eqos")
           h == LimApply("firewall")
<1>1. s = Lim(e, w, m, e, w, m, e, w, m) /\ OneLimitEach(e) /\ RulesInPlace(w)
  BY DEF LimSaved
<1>2. f = Side(e, w, m)
  BY <1>1, SidesParts DEF Lim
<1>3. PICK fe \in Seq(Devices0), fw \in Seq(Rules0), x \in Seq(Devices0), y \in Seq(Rules0) :
        /\ After(s, q) = Lim(fe, fw, m, x, y, m, e, w, m)
        /\ OneLimitEach(x) /\ RulesInPlace(y) /\ Fulfilled(x, y, r)
  <2> DEFINE j == BuildSpeedLimitWritePlan(Side(e, w, m), r) \o buildSpeedLimitWriteCommands(r)
             s0 == Lim(e, w, m, e, w, m, e, w, m)
  <2>1. PICK fe \in Seq(Devices0), fw \in Seq(Rules0), x \in Seq(Devices0), y \in Seq(Rules0) :
        /\ After(s0, j) = Lim(fe, fw, m, x, y, m, e, w, m)
        /\ OneLimitEach(x) /\ RulesInPlace(y) /\ Fulfilled(x, y, r)
    BY <1>1, PlannedAndWritten
  <2>2. q = j
    <3> HIDE DEF f
    <3> QED BY <1>2
  <2>3. s0 = s
    BY <1>1
  <2> HIDE DEF q, j, s0
  <2> QED BY <2>1, <2>2, <2>3
<1>4. p \in Seq(LimCommands) /\ c \in Seq(LimCommands) /\ g \in Seq(LimCommands) /\ h \in Seq(LimCommands)
  <2>1. f \in LimSides
    BY <1>2 DEF Side, LimSides
  <2>2. "eqos" \in LimCfgs /\ "firewall" \in LimCfgs
    BY DEF LimCfgs
  <2> HIDE DEF f
  <2> QED BY <2>1, <2>2, PlanTyped, WriteTyped, LimApplyTyped
<1>5. UpsertSpeedLimitRule(f, r) = IF q = <<>> THEN <<>> ELSE (q \o g) \o h
  BY DEF UpsertSpeedLimitRule
<1>6. After(Lim(fe, fw, m, x, y, m, e, w, m), g) = Lim(x, fw, m, x, y, m, x, w, m)
      /\ After(After(Lim(fe, fw, m, x, y, m, e, w, m), g), h) = Lim(x, y, m, x, y, m, x, y, m)
  BY BothApplied
<1> HIDE DEF f, p, c, g, h
<1>7. q \in Seq(LimCommands)
  BY <1>4
<1> HIDE DEF q
<1>8. q \o g \in Seq(LimCommands)
  BY <1>4, <1>7
<1>9. CASE q = <<>>
  <2>1. After(s, q) = s
    BY <1>9, AfterNone
  <2>2. x = e /\ y = w
    <3>1. Lim(fe, fw, m, x, y, m, e, w, m) = Lim(e, w, m, e, w, m, e, w, m)
      BY <1>1, <1>3, <2>1
    <3> QED BY <3>1, LimAlike
  <2>3. After(s, UpsertSpeedLimitRule(f, r)) = s
    BY <1>5, <1>9, <2>1
  <2> QED BY <1>3, <2>2, <2>3 DEF f
<1>10. CASE q # <<>>
  <2>1. After(s, (q \o g) \o h) = After(After(s, q \o g), h)
    BY <1>4, <1>8, AfterJoined
  <2>2. After(s, q \o g) = After(After(s, q), g)
    BY <1>4, <1>7, AfterJoined
  <2>3. After(s, UpsertSpeedLimitRule(f, r)) = Lim(x, y, m, x, y, m, x, y, m)
    BY <1>3, <1>5, <1>6, <1>10, <2>1, <2>2
  <2> QED BY <1>3, <2>3 DEF LimSaved, f
<1> QED BY <1>9, <1>10

LEMMA ModuleFilled ==
  ASSUME NEW B, NEW C, NEW D, NEW E, NEW F, NEW r \in [enabled : B, up : C, down : D], NEW u \in E, NEW v \in F
  PROVE  [r EXCEPT !.up = u, !.down = v] \in [enabled : B, up : E, down : F]
OBVIOUS

LEMMA ModuleRequested ==
  ASSUME NEW b \in BOOLEAN, NEW n \in {0, 5}
  PROVE  \E m \in Modules0 : SetSpeedLimitModule([enabled |-> b, up |-> n, down |-> 0]) = <<ModuleCmd(m), LimCmd("commit", "eqos")>> \o LimApply("eqos")
<1> DEFINE r == [enabled |-> b, up |-> n, down |-> 0]
           m == [r EXCEPT !.up = IF @ = 0 THEN 200 ELSE @, !.down = IF @ = 0 THEN 2000 ELSE @]
<1> DEFINE u == IF n = 0 THEN 200 ELSE n
<1>1. m \in Modules0
  <2>1. u \in {200, 5}
    OBVIOUS
  <2> DEFINE B == BOOLEAN
             C == {0, 5}
             D == {0}
             E == {200, 5}
             F == {2000}
             v == 2000
  <2>2. r \in [enabled : B, up : C, down : D] /\ r.up = n /\ r.down = 0 /\ u \in E /\ v \in F
    BY <2>1
  <2> HIDE DEF r
  <2>3. m = [r EXCEPT !.up = u, !.down = v]
    BY <2>2
  <2> HIDE DEF u, m, v, B, C, D, E, F
  <2>4. m \in [enabled : B, up : E, down : F]
    BY <2>2, <2>3, ModuleFilled
  <2> QED BY <2>4 DEF Modules0, B, E, F
<1>2. SetSpeedLimitModule(r) = <<ModuleCmd(m), LimCmd("commit", "eqos")>> \o LimApply("eqos")
  BY DEF SetSpeedLimitModule, ApplyModuleConfig, ModuleCmd
<1> QED BY <1>1, <1>2

LEMMA ModuleTypedOf ==
  ASSUME NEW m \in Modules0
  PROVE  <<ModuleCmd(m), LimCmd("commit", "eqos")>> \in Seq(LimCommands) /\ LimApply("eqos") \in Seq(LimCommands)
<1> DEFINE c1 == ModuleCmd(m)
           c2 == LimCmd("commit", "eqos")
<1>1. "eqos" \in LimCfgs
  BY DEF LimCfgs
<1>2. c1 \in LimCommands /\ c2 \in LimCommands
  BY <1>1, LimCommandsAre
<1>3. LimApply("eqos") \in Seq(LimCommands)
  BY <1>1, LimApplyTyped
<1> HIDE DEF c1, c2
<1> QED BY <1>2, <1>3 DEF c1, c2

LEMMA ModuleSaved ==
  ASSUME NEW e \in Seq(Devices0), NEW w \in Seq(Rules0), NEW n \in Modules0, NEW m \in Modules0, NEW s, LimSaved(s, e, w, n)
  PROVE  LimSaved(After(s, <<ModuleCmd(m), LimCmd("commit", "eqos")>> \o LimApply("eqos")), e, w, m)
<1> DEFINE c1 == ModuleCmd(m)
           c2 == LimCmd("commit", "eqos")
           c3 == LimCmd("event", "eqos")
           s1 == Lim(e, w, n, e, w, m, e, w, n)
           s2 == Lim(e, w, m, e, w, m, e, w, n)
           s3 == Lim(e, w, m, e, w, m, e, w, m)
           a == <<c1, c2>>
           b == LimApply("eqos")
<1>1. s = Lim(e, w, n, e, w, n, e, w, n) /\ OneLimitEach(e) /\ RulesInPlace(w)
  BY DEF LimSaved
<1>2. s1 = ExecLimit(s, c1)
  BY <1>1, ModuleSet
<1>3. s2 = ExecLimit(s1, c2)
  BY CommitEqos
<1>4. s2 = ExecLimit(s2, c2)
  BY CommitEqos
<1>5. s3 = ExecLimit(s2, c3)
  BY EventEqos
<1>6. b = <<c2, c3>>
  BY DEF LimApply
<1>7. a \in Seq(LimCommands) /\ b \in Seq(LimCommands)
  BY ModuleTypedOf
<1> HIDE DEF c1, c2, c3, s1, s2, s3, b
<1>8. After(s, a) = s2
  BY <1>2, <1>3, AfterTwo
<1>9. After(s2, b) = s3
  BY <1>4, <1>5, <1>6, AfterTwo
<1> HIDE DEF a
<1>10. After(s, a \o b) = s3
  BY <1>7, <1>8, <1>9, AfterJoined
<1>11. s3 = Lim(e, w, m, e, w, m, e, w, m)
  BY DEF s3
<1> QED BY <1>1, <1>10, <1>11 DEF LimSaved, a, b, c1, c2
-----------------------------------------------------------------------------
(* The speed limits: the two lists                                         *)

ShownDevice(ip, mac, access) == [ip |-> ip, mac |-> mac, access |-> access]
Denied == FALSE

LEMMA ShownParts == \A ip, mac, v : ShownDevice(ip, mac, v).ip = ip /\ ShownDevice(ip, mac, v).mac = mac /\ ShownDevice(ip, mac, v).access = v
BY DEF ShownDevice

\* A neighbour table in which every address and every MAC occurs once.
OneToOne(arp) == \A b, c \in arp : (b[1] = c[1] \/ b[2] = c[2]) => b = c

LEMMA ArpsOneToOne ==
  ASSUME NEW arp \in {{<<"ip1", "AA">>, <<"ip2", "BB">>}, {<<"ip1", "BB">>, <<"ip2", "AA">>}, {<<"ip2", "AA">>}}
  PROVE  OneToOne(arp)
BY DEF OneToOne

LEMMA MacsOf ==
  ASSUME NEW arp, OneToOne(arp), NEW a \in arp
  PROVE  MacsAt(arp, a[1]) = {a[2]} /\ \A ip : MacsAt(arp, ip) = {a[2]} => ip = a[1]
<1>1. \A z \in MacsAt(arp, a[1]) : z = a[2]
  BY DEF MacsAt, OneToOne
<1>2. a[2] \in MacsAt(arp, a[1])
  BY DEF MacsAt
<1>3. ASSUME NEW ip, MacsAt(arp, ip) = {a[2]} PROVE ip = a[1]
  <2>1. a[2] \in MacsAt(arp, ip)
    BY <1>3
  <2>2. PICK b \in arp : b[1] = ip /\ b[2] = a[2]
    BY <2>1 DEF MacsAt
  <2> QED BY <2>2 DEF OneToOne
<1>4. MacsAt(arp, a[1]) = {a[2]}
  BY <1>1, <1>2
<1> QED BY <1>3, <1>4

\* The n-th limit comes first among those of its device.
FirstLimit(f, arp, n) == \A k \in 1 .. n - 1 : MacsAt(arp, f.eqos[k].ip) # MacsAt(arp, f.eqos[n].ip)
Reaches(f, arp, n) ==
  ~(MacsAt(arp, f.eqos[n].ip) # {} /\ MacsAt(arp, f.eqos[n].ip) \subseteq ReadBlocks(f) /\ FirstLimit(f, arp, n))
AsLimited(f, arp, n) == ShownDevice(f.eqos[n].ip, MacsAt(arp, f.eqos[n].ip), Reaches(f, arp, n))
AsBlocked(e) == ShownDevice(e[1], {e[2]}, Denied)
OnlyBlocked(f, arp, e) == e[2] \in ReadBlocks(f) /\ \A n \in DOMAIN f.eqos : MacsAt(arp, f.eqos[n].ip) # {e[2]}

LEMMA ListIs ==
  ASSUME NEW f, NEW arp
  PROVE  mergeLanSpeedLimitedDeviceLists(f, arp)
           = {AsLimited(f, arp, n) : n \in DOMAIN f.eqos} \union {AsBlocked(e) : e \in {b \in arp : OnlyBlocked(f, arp, b)}}
BY Zenon DEF mergeLanSpeedLimitedDeviceLists, AsLimited, AsBlocked, OnlyBlocked, Reaches, FirstLimit, ShownDevice, Denied

\* A device with a limit is listed with it, and without access if it is blocked.
LEMMA LimitedListed ==
  ASSUME NEW f, f.eqos \in Seq(Devices0), OneLimitEach(f.eqos), NEW arp, OneToOne(arp), NEW a \in arp, NEW n \in DOMAIN f.eqos, f.eqos[n].ip = a[1]
  PROVE  /\ {j \in mergeLanSpeedLimitedDeviceLists(f, arp) : j.mac = {a[2]}} = {AsLimited(f, arp, n)}
         /\ Reaches(f, arp, n) <=> a[2] \notin ReadBlocks(f)
<1> DEFINE macs(k) == MacsAt(arp, f.eqos[k].ip)
<1>1. macs(n) = {a[2]} /\ \A k \in DOMAIN f.eqos : macs(k) = {a[2]} => k = n
  <2>1. \A k \in DOMAIN f.eqos : macs(k) = {a[2]} => f.eqos[k].ip = a[1]
    BY MacsOf
  <2>2. macs(n) = {a[2]}
    BY MacsOf
  <2> QED BY <2>1, <2>2 DEF OneLimitEach
<1>2. AsLimited(f, arp, n).mac = {a[2]}
  BY <1>1, ShownParts DEF AsLimited
<1>3. \A k \in DOMAIN f.eqos : AsLimited(f, arp, k).mac = {a[2]} => k = n
  BY <1>1, ShownParts DEF AsLimited
<1>4. \A e \in arp : OnlyBlocked(f, arp, e) => AsBlocked(e).mac # {a[2]}
  <2> TAKE e \in arp
  <2> HAVE OnlyBlocked(f, arp, e)
  <2>1. {e[2]} # {a[2]}
    BY <1>1 DEF OnlyBlocked
  <2>2. AsBlocked(e).mac = {e[2]}
    BY ShownParts DEF AsBlocked
  <2> QED BY <2>1, <2>2
<1>5. {j \in mergeLanSpeedLimitedDeviceLists(f, arp) : j.mac = {a[2]}} = {AsLimited(f, arp, n)}
  BY <1>2, <1>3, <1>4, ListIs
<1>6. Reaches(f, arp, n) <=> a[2] \notin ReadBlocks(f)
  <2>1. FirstLimit(f, arp, n)
    <3> SUFFICES ASSUME NEW k \in 1 .. n - 1 PROVE macs(k) # macs(n)
      BY DEF FirstLimit
    <3>1. k \in DOMAIN f.eqos /\ k # n
      <4>1. Len(f.eqos) \in Nat /\ DOMAIN f.eqos = 1 .. Len(f.eqos)
        OBVIOUS
      <4>2. n \in 1 .. Len(f.eqos)
        BY <4>1
      <4> QED BY <4>1, <4>2
    <3> QED BY <1>1, <3>1
  <2> QED BY <1>1, <2>1 DEF Reaches
<1> QED BY <1>5, <1>6

\* A device without one is listed, without access, if it is blocked.
LEMMA BlockedListed ==
  ASSUME NEW f, NEW arp, OneToOne(arp), NEW a \in arp, \A n \in DOMAIN f.eqos : f.eqos[n].ip # a[1]
  PROVE  {j \in mergeLanSpeedLimitedDeviceLists(f, arp) : j.mac = {a[2]}} = IF a[2] \in ReadBlocks(f) THEN {AsBlocked(a)} ELSE {}
<1>1. \A k \in DOMAIN f.eqos : MacsAt(arp, f.eqos[k].ip) # {a[2]}
  BY MacsOf
<1>2. \A k \in DOMAIN f.eqos : AsLimited(f, arp, k).mac # {a[2]}
  BY <1>1, ShownParts DEF AsLimited
<1>3. AsBlocked(a).mac = {a[2]} /\ (OnlyBlocked(f, arp, a) <=> a[2] \in ReadBlocks(f))
  BY <1>1, ShownParts DEF AsBlocked, OnlyBlocked
<1>4. \A e \in arp : AsBlocked(e).mac = {a[2]} => e = a
  <2> TAKE e \in arp
  <2> HAVE AsBlocked(e).mac = {a[2]}
  <2>1. e[2] = a[2]
    BY ShownParts DEF AsBlocked
  <2> QED BY <2>1 DEF OneToOne
<1> QED BY <1>2, <1>3, <1>4, ListIs

LEMMA DeviceShown ==
  ASSUME NEW f, NEW a
  PROVE  /\ mergeLanDeviceSpeedLimit(f, a).enabled <=> (\E n \in DOMAIN f.eqos : f.eqos[n].ip = a[1]) \/ a[2] \in ReadBlocks(f)
         /\ mergeLanDeviceSpeedLimit(f, a).access <=> a[2] \notin ReadBlocks(f)
<1>1. a[1] \in DOMAIN buildBestEffortSpeedLimitMaps(f) <=> \E n \in DOMAIN f.eqos : f.eqos[n].ip = a[1]
  BY DEF buildBestEffortSpeedLimitMaps, Range
<1>2. mergeLanDeviceSpeedLimit(f, a).enabled <=> a[1] \in DOMAIN buildBestEffortSpeedLimitMaps(f) \/ a[2] \in ReadBlocks(f)
  BY DEF mergeLanDeviceSpeedLimit
<1>3. mergeLanDeviceSpeedLimit(f, a).access <=> a[2] \notin ReadBlocks(f)
  BY DEF mergeLanDeviceSpeedLimit
<1> QED BY <1>1, <1>2, <1>3
\* The two lists agree, and neither gives a blocked device access.
Agree(f, arp, a) ==
  LET listed == {j \in mergeLanSpeedLimitedDeviceLists(f, arp) : j.mac = {a[2]}}
  IN  /\ a[2] \in ReadBlocks(f) => {i.access : i \in listed} = {Denied} /\ ~mergeLanDeviceSpeedLimit(f, a).access
      /\ mergeLanDeviceSpeedLimit(f, a).enabled <=> listed # {}

LEMMA ListsAgree ==
  ASSUME NEW f, f.eqos \in Seq(Devices0), OneLimitEach(f.eqos), NEW arp, OneToOne(arp), NEW a \in arp
  PROVE  Agree(f, arp, a)
<1> DEFINE listed == {j \in mergeLanSpeedLimitedDeviceLists(f, arp) : j.mac = {a[2]}}
<1>1. /\ mergeLanDeviceSpeedLimit(f, a).enabled <=> (\E n \in DOMAIN f.eqos : f.eqos[n].ip = a[1]) \/ a[2] \in ReadBlocks(f)
      /\ mergeLanDeviceSpeedLimit(f, a).access <=> a[2] \notin ReadBlocks(f)
  BY DeviceShown
<1>2. CASE \E n \in DOMAIN f.eqos : f.eqos[n].ip = a[1]
  <2>1. PICK n \in DOMAIN f.eqos : f.eqos[n].ip = a[1]
    BY <1>2
  <2>2. listed = {AsLimited(f, arp, n)}
    BY <2>1, LimitedListed
  <2>3. Reaches(f, arp, n) <=> a[2] \notin ReadBlocks(f)
    BY <2>1, LimitedListed
  <2>4. AsLimited(f, arp, n).access = Reaches(f, arp, n)
    BY ShownParts DEF AsLimited
  <2>5. a[2] \in ReadBlocks(f) => AsLimited(f, arp, n).access = Denied
    BY <2>3, <2>4 DEF Denied, Reaches
  <2> HIDE DEF listed
  <2>6. a[2] \in ReadBlocks(f) => {i.access : i \in listed} = {Denied} /\ ~mergeLanDeviceSpeedLimit(f, a).access
    BY <1>1, <2>2, <2>5
  <2>7. mergeLanDeviceSpeedLimit(f, a).enabled <=> listed # {}
    BY <1>1, <1>2, <2>2
  <2> QED BY <2>6, <2>7 DEF Agree, listed
<1>3. CASE ~\E n \in DOMAIN f.eqos : f.eqos[n].ip = a[1]
  <2>1. listed = IF a[2] \in ReadBlocks(f) THEN {AsBlocked(a)} ELSE {}
    BY <1>3, BlockedListed
  <2>2. AsBlocked(a).access = Denied
    BY ShownParts DEF AsBlocked
  <2> HIDE DEF listed
  <2>3. a[2] \in ReadBlocks(f) => {i.access : i \in listed} = {Denied} /\ ~mergeLanDeviceSpeedLimit(f, a).access
    BY <1>1, <2>1, <2>2
  <2>4. mergeLanDeviceSpeedLimit(f, a).enabled <=> listed # {}
    BY <1>1, <1>3, <2>1
  <2> QED BY <2>3, <2>4 DEF Agree, listed
<1> QED BY <1>2, <1>3

LEMMA BlocksOf ==
  ASSUME NEW f, RulesInPlace(f.firewall)
  PROVE  \A mac \in LimMacs : mac \in ReadBlocks(f) <=> \E i \in DOMAIN f.firewall : f.firewall[i] = BlockRule(mac)
<1> DEFINE w == f.firewall
<1>1. \A i \in DOMAIN w : w[i] \in LimRules
  BY DEF RulesInPlace
<1>2. \A mac \in LimMacs : mac \in ReadBlocks(f) <=> \E i \in DOMAIN w : buildBlockedDeviceRule(w[i]) /\ w[i].mac = mac
  BY DEF ReadBlocks, Range
<1>3. \A r \in LimRules, mac \in LimMacs : (buildBlockedDeviceRule(r) /\ r.mac = mac) <=> r = BlockRule(mac)
  <2> TAKE r \in LimRules, mac \in LimMacs
  <2>1. buildBlockedDeviceRule(r) <=> r \in {BlockRule("AA"), BlockRule("BB")}
    BY LimRulesAre
  <2>2. mac \in {"AA", "BB"} /\ BlockRule("AA").mac = "AA" /\ BlockRule("BB").mac = "BB"
    BY LimRulesAre DEF LimMacs
  <2> QED BY <2>1, <2>2
<1> HIDE DEF w
<1>4. \A mac \in LimMacs : mac \in ReadBlocks(f) <=> \E i \in DOMAIN w : w[i] = BlockRule(mac)
  BY <1>1, <1>2, <1>3
<1> QED BY <1>4 DEF w

-----------------------------------------------------------------------------
(* The speed limits: the invariant                                         *)

\* While no request has been cut off, what is staged and what is in force are what the
\* file says: one limit for an address, one block for a MAC, the user's own rules in their
\* order, and the last form that was saved fulfilled.
LimShape ==
  \E x \in Seq(Devices0), y \in Seq(Rules0), m \in Modules0 :
    LimSaved(lim, x, y, m) /\ (limAsked.kind = "rule" => limAsked.r \in LimRequests /\ Fulfilled(x, y, limAsked.r))
LimInv ==
  /\ limCount \in 0 .. MaxLimitRequests /\ limUncut \in BOOLEAN /\ lim \in Lims
  /\ limUncut => LimShape

LEMMA LimSavedTyped ==
  ASSUME NEW x \in Seq(Devices0), NEW y \in Seq(Rules0), NEW m \in Modules0, NEW s, LimSaved(s, x, y, m)
  PROVE  s \in Lims /\ s.file = Side(x, y, m) /\ s.live = Side(x, y, m)
BY LimTyped, SidesParts DEF LimSaved, Lim

LEMMA FirstFiles ==
  /\ \A e \in {<<>>, <<[ip |-> "ip2", up |-> 1, down |-> 1], [ip |-> "ip1", up |-> 1, down |-> 1]>>} : e \in Seq(Devices0) /\ OneLimitEach(e)
  /\ \A w \in {<<OwnRule, OwnReject>>, <<OwnRule, BlockRule("BB"), BlockRule("AA"), OwnReject>>} : w \in Seq(Rules0) /\ RulesInPlace(w)
<1>1. <<>> \in Seq(Devices0) /\ OneLimitEach(<<>>)
  BY DEF OneLimitEach
<1>2. ASSUME NEW e, e = <<[ip |-> "ip2", up |-> 1, down |-> 1], [ip |-> "ip1", up |-> 1, down |-> 1]>> PROVE e \in Seq(Devices0) /\ OneLimitEach(e)
  <2> DEFINE a == [ip |-> "ip2", up |-> 1, down |-> 1]
             b == [ip |-> "ip1", up |-> 1, down |-> 1]
  <2>1. a \in Devices0 /\ b \in Devices0 /\ a.ip = "ip2" /\ b.ip = "ip1"
    BY DEF Devices0, LimIps
  <2>2. e = <<a, b>>
    BY <1>2
  <2> HIDE DEF a, b
  <2>3. e \in Seq(Devices0) /\ DOMAIN e = {1, 2} /\ e[1] = a /\ e[2] = b
    BY <2>1, <2>2
  <2> QED BY <2>1, <2>3 DEF OneLimitEach
<1>3. ASSUME NEW w, w = <<OwnRule, OwnReject>> PROVE w \in Seq(Rules0) /\ RulesInPlace(w)
  <2>1. OwnRule \in LimRules /\ OwnReject \in LimRules /\ OwnRule \in Rules0 /\ OwnReject \in Rules0 /\ OwnRule # OwnReject
    BY LimRulesAre DEF LimRules
  <2>2. w \in Seq(Rules0) /\ DOMAIN w = {1, 2} /\ w[1] = OwnRule /\ w[2] = OwnReject
    BY <1>3, <2>1
  <2> QED BY <2>1, <2>2 DEF RulesInPlace
<1>4. ASSUME NEW w, w = <<OwnRule, BlockRule("BB"), BlockRule("AA"), OwnReject>> PROVE w \in Seq(Rules0) /\ RulesInPlace(w)
  <2> DEFINE a == BlockRule("AA")
             b == BlockRule("BB")
  <2>1. /\ OwnRule \in LimRules /\ OwnReject \in LimRules /\ a \in LimRules /\ b \in LimRules
        /\ OwnRule # OwnReject /\ a # b /\ a # OwnRule /\ a # OwnReject /\ b # OwnRule /\ b # OwnReject
    BY LimRulesAre DEF LimRules, LimMacs
  <2>2. w = <<OwnRule, b, a, OwnReject>>
    BY <1>4
  <2> HIDE DEF a, b
  <2>3. w \in Seq(LimRules) /\ DOMAIN w = {1, 2, 3, 4} /\ w[1] = OwnRule /\ w[2] = b /\ w[3] = a /\ w[4] = OwnReject
    BY <2>1, <2>2
  <2>4. w \in Seq(Rules0)
    BY <2>3, LimRulesAre
  <2>5. RulesInPlace(w)
    BY <2>1, <2>3 DEF RulesInPlace
  <2> QED BY <2>4, <2>5
<1> QED BY <1>1, <1>2, <1>3, <1>4

LEMMA LimStart == LimInit => LimInv
<1> SUFFICES ASSUME LimInit PROVE LimInv
  OBVIOUS
<1>1. PICK e \in {<<>>, <<[ip |-> "ip2", up |-> 1, down |-> 1], [ip |-> "ip1", up |-> 1, down |-> 1]>>},
           w \in {<<OwnRule, OwnReject>>, <<OwnRule, BlockRule("BB"), BlockRule("AA"), OwnReject>>} :
        LET f == LimFile(e, w) IN lim = [file |-> f, staged |-> f, live |-> f]
  BY DEF LimInit
<1>2. limUncut = TRUE /\ limAsked = NoLimit /\ limCount = 0
  BY DEF LimInit
<1>3. e \in Seq(Devices0) /\ OneLimitEach(e) /\ w \in Seq(Rules0) /\ RulesInPlace(w)
  BY FirstFiles
<1> DEFINE m == [enabled |-> FALSE, up |-> 200, down |-> 2000]
<1>4. m \in Modules0
  BY DEF Modules0
<1>5. LimFile(e, w) = Side(e, w, m)
  BY DEF LimFile, Side
<1> HIDE DEF m
<1>6. LimSaved(lim, e, w, m)
  BY <1>1, <1>3, <1>5 DEF LimSaved, Lim, Sides
<1>7. lim \in Lims
  BY <1>3, <1>4, <1>6, LimSavedTyped
<1>8. limAsked.kind # "rule"
  BY <1>2 DEF NoLimit
<1>9. LimShape
  BY <1>3, <1>4, <1>6, <1>8 DEF LimShape
<1>10. limCount \in 0 .. MaxLimitRequests /\ limUncut \in BOOLEAN
  BY <1>2, LimAssumption
<1> QED BY <1>7, <1>9, <1>10 DEF LimInv

\* However far a request gets, and the rest if it gets to the end.
LEMMA Served0 ==
  ASSUME LimInv, NEW kind, NEW r, NEW cmds \in Seq(LimCommands), ServeLimit(kind, r, cmds)
  PROVE  /\ limCount' \in 0 .. MaxLimitRequests /\ limUncut' \in BOOLEAN /\ lim' \in Lims
         /\ limUncut' => limUncut /\ lim' = After(lim, cmds) /\ limAsked' = [kind |-> kind, r |-> r]
<1>1. limCount < MaxLimitRequests /\ limCount' = limCount + 1 /\ limCount \in 0 .. MaxLimitRequests /\ lim \in Lims
  BY DEF ServeLimit, LimInv
<1>2. limCount' \in 0 .. MaxLimitRequests
  BY <1>1, LimAssumption
<1>3. PICK k \in 0 .. Len(cmds) :
        /\ lim' = LimRun(lim, cmds)[k]
        /\ limUncut' = (limUncut /\ k = Len(cmds))
        /\ limAsked' = IF k = Len(cmds) THEN [kind |-> kind, r |-> r] ELSE NoLimit
  BY DEF ServeLimit
<1>4. lim' \in Lims
  BY <1>1, <1>3, LimRunTyped
<1>5. limUncut' \in BOOLEAN /\ (limUncut' => limUncut /\ k = Len(cmds))
  BY <1>3
<1>6. k = Len(cmds) => lim' = After(lim, cmds) /\ limAsked' = [kind |-> kind, r |-> r]
  BY <1>3 DEF After
<1> QED BY <1>2, <1>4, <1>5, <1>6

LEMMA FileTyped == \A s \in Lims : s.file \in LimSides
BY DEF Lims

LEMMA PostLimit == LimInv /\ PostLanSpeedLimitConfig => LimInv'
<1> SUFFICES ASSUME LimInv, PostLanSpeedLimitConfig PROVE LimInv'
  OBVIOUS
<1>1. PICK q \in LimitForms : ServeLimit("rule", [q EXCEPT !.mac = normalizeMAC(@)], UpsertSpeedLimitRule(lim.file, [q EXCEPT !.mac = normalizeMAC(@)]))
  BY DEF PostLanSpeedLimitConfig
<1> DEFINE r == [q EXCEPT !.mac = normalizeMAC(@)]
           cmds == UpsertSpeedLimitRule(lim.file, r)
<1>2. r \in LimRequests
  BY FormsAreRequests
<1> HIDE DEF r
<1>3. cmds \in Seq(LimCommands)
  BY <1>2, FileTyped, UpsertTyped DEF LimInv
<1>4. ServeLimit("rule", r, cmds)
  BY <1>1 DEF r
<1> HIDE DEF cmds
<1>5. /\ limCount' \in 0 .. MaxLimitRequests /\ limUncut' \in BOOLEAN /\ lim' \in Lims
      /\ limUncut' => limUncut /\ lim' = After(lim, cmds) /\ limAsked' = [kind |-> "rule", r |-> r]
  BY <1>3, <1>4, Served0
<1>6. ASSUME limUncut' PROVE LimShape'
  <2>1. PICK x \in Seq(Devices0), y \in Seq(Rules0), m \in Modules0 : LimSaved(lim, x, y, m)
    BY <1>5, <1>6 DEF LimInv, LimShape
  <2>2. PICK x2 \in Seq(Devices0), y2 \in Seq(Rules0) : LimSaved(lim', x2, y2, m) /\ Fulfilled(x2, y2, r)
    BY <1>2, <1>5, <1>6, <2>1, UpsertSaved DEF cmds
  <2>3. limAsked'.kind = "rule" /\ limAsked'.r = r
    BY <1>5, <1>6
  <2> QED BY <1>2, <2>2, <2>3 DEF LimShape
<1> QED BY <1>5, <1>6 DEF LimInv

LEMMA PostModule == LimInv /\ PostLanEnableSpeedLimit => LimInv'
<1> SUFFICES ASSUME LimInv, PostLanEnableSpeedLimit PROVE LimInv'
  OBVIOUS
<1>1. PICK b \in BOOLEAN, n \in {0, 5} : ServeLimit("module", [enabled |-> b, up |-> n, down |-> 0], SetSpeedLimitModule([enabled |-> b, up |-> n, down |-> 0]))
  BY DEF PostLanEnableSpeedLimit
<1> DEFINE r == [enabled |-> b, up |-> n, down |-> 0]
<1>2. PICK m \in Modules0 : SetSpeedLimitModule(r) = <<ModuleCmd(m), LimCmd("commit", "eqos")>> \o LimApply("eqos")
  BY ModuleRequested
<1> DEFINE a == <<ModuleCmd(m), LimCmd("commit", "eqos")>>
           c == LimApply("eqos")
           cmds == a \o c
<1>3. a \in Seq(LimCommands) /\ c \in Seq(LimCommands)
  BY ModuleTypedOf
<1>4. ServeLimit("module", r, cmds)
  BY <1>1, <1>2
<1> HIDE DEF a, c, r
<1>5. cmds \in Seq(LimCommands)
  BY <1>3
<1> HIDE DEF cmds
<1>6. /\ limCount' \in 0 .. MaxLimitRequests /\ limUncut' \in BOOLEAN /\ lim' \in Lims
      /\ limUncut' => limUncut /\ lim' = After(lim, cmds) /\ limAsked' = [kind |-> "module", r |-> r]
  BY <1>4, <1>5, Served0
<1>7. ASSUME limUncut' PROVE LimShape'
  <2>1. PICK x \in Seq(Devices0), y \in Seq(Rules0), n0 \in Modules0 : LimSaved(lim, x, y, n0)
    BY <1>6, <1>7 DEF LimInv, LimShape
  <2>2. LimSaved(lim', x, y, m)
    BY <1>6, <1>7, <2>1, ModuleSaved DEF cmds, a, c
  <2>3. limAsked'.kind # "rule"
    BY <1>6, <1>7
  <2> QED BY <2>2, <2>3 DEF LimShape
<1> QED BY <1>6, <1>7 DEF LimInv

LEMMA LimInductive == LimInv /\ [LimNext]_limVars => LimInv'
<1> SUFFICES ASSUME LimInv, [LimNext]_limVars PROVE LimInv'
  OBVIOUS
<1>1. CASE PostLanSpeedLimitConfig
  BY <1>1, PostLimit
<1>2. CASE PostLanEnableSpeedLimit
  BY <1>2, PostModule
<1>3. CASE UNCHANGED limVars
  BY <1>3 DEF limVars, LimInv, LimShape
<1> QED BY <1>1, <1>2, <1>3 DEF LimNext

LEMMA LimTypes == LimInv => LimTypeOK
<1> SUFFICES ASSUME LimInv PROVE LimTypeOK
  OBVIOUS
<1>1. limCount \in 0 .. MaxLimitRequests /\ limUncut \in BOOLEAN /\ lim \in Lims
  BY DEF LimInv
<1>2. \A side \in DOMAIN lim : lim[side] \in LimSides
  BY <1>1 DEF Lims
<1>3. ASSUME NEW side \in DOMAIN lim
      PROVE  /\ lim[side].module.up \in {200, 5} /\ lim[side].module.down = 2000
             /\ \A d \in Range(lim[side].eqos) : DOMAIN d = DOMAIN BlankDevice
             /\ \A r \in Range(lim[side].firewall) : DOMAIN r = DOMAIN BlankRule
  <2> DEFINE z == lim[side]
  <2>1. z.eqos \in Seq(Devices0) /\ z.firewall \in Seq(Rules0) /\ z.module \in Modules0
    BY <1>2 DEF LimSides
  <2> HIDE DEF z
  <2>2. \A d \in Range(z.eqos) : d \in Devices0
    BY <2>1 DEF Range
  <2>3. \A r \in Range(z.firewall) : r \in Rules0
    BY <2>1 DEF Range
  <2>4. \A d \in Devices0 : DOMAIN d = DOMAIN BlankDevice
    BY DEF Devices0, BlankDevice
  <2>5. \A r \in Rules0 : DOMAIN r = DOMAIN BlankRule
    BY DEF Rules0, BlankRule
  <2>6. z.module.up \in {200, 5} /\ z.module.down = 2000
    BY <2>1 DEF Modules0
  <2> QED BY <2>2, <2>3, <2>4, <2>5, <2>6 DEF z
<1> QED BY <1>1, <1>3 DEF LimTypeOK

LEMMA LimOwnRules == LimInv => OwnRulesKept
<1> SUFFICES ASSUME LimInv, limUncut PROVE OwnRulesKept
  BY DEF OwnRulesKept
<1>1. PICK x \in Seq(Devices0), y \in Seq(Rules0), n \in Modules0 : LimSaved(lim, x, y, n)
  BY DEF LimInv, LimShape
<1>2. lim.file.eqos = x /\ lim.file.firewall = y /\ OneLimitEach(x) /\ RulesInPlace(y)
  BY <1>1, LimSavedTyped, SideParts DEF LimSaved
<1>3. PICK j, k \in DOMAIN y : j < k /\ y[j] = OwnRule /\ y[k] = OwnReject
  BY <1>2 DEF RulesInPlace
<1>4. \A i \in DOMAIN y \ {j, k} : buildBlockedDeviceRule(y[i])
  <2> TAKE i \in DOMAIN y \ {j, k}
  <2>1. y[i] \in LimRules /\ y[i] # OwnRule /\ y[i] # OwnReject
    BY <1>2, <1>3 DEF RulesInPlace
  <2>2. y[i] \in {BlockRule("AA"), BlockRule("BB")}
    BY <2>1 DEF LimRules
  <2> QED BY <2>1, <2>2, LimRulesAre
<1>5. \A i, l \in DOMAIN y : y[i] = y[l] => i = l
  BY <1>2 DEF RulesInPlace
<1>6. \A i, l \in DOMAIN x : x[i].ip = x[l].ip => i = l
  BY <1>2 DEF OneLimitEach
<1> QED BY <1>2, <1>3, <1>4, <1>5, <1>6 DEF OwnRulesKept

LEMMA LimAsAsked == LimInv => LimitAsAsked
<1> SUFFICES ASSUME LimInv, limUncut, limAsked.kind = "rule" PROVE LimitAsAsked
  BY DEF LimitAsAsked
<1> DEFINE r == limAsked.r
<1>1. PICK x \in Seq(Devices0), y \in Seq(Rules0), n \in Modules0 : LimSaved(lim, x, y, n) /\ r \in LimRequests /\ Fulfilled(x, y, r)
  BY DEF LimInv, LimShape
<1>2. lim.live.eqos = x /\ lim.live.firewall = y /\ RulesInPlace(y)
  BY <1>1, LimSavedTyped, SideParts DEF LimSaved
<1> HIDE DEF r
<1>3. {d \in Range(lim.live.eqos) : d.ip = r.ip} = IF LimitAsked(r) THEN {DeviceAsked(r)} ELSE {}
  BY <1>1, <1>2 DEF Fulfilled
<1>4. r.mac # "none" => ((r.mac \in ReadBlocks(lim.live)) <=> BlockAsked(r))
  <2> HAVE r.mac # "none"
  <2>1. r.mac \in LimMacs
    BY <1>1 DEF LimRequests
  <2>2. (\E i \in DOMAIN y : y[i] = BlockRule(r.mac)) <=> BlockAsked(r)
    BY <1>1 DEF Fulfilled
  <2> QED BY <1>2, <2>1, <2>2, BlocksOf
<1> QED BY <1>3, <1>4 DEF LimitAsAsked, LimitAsked, BlockAsked, DeviceAsked, r

LEMMA LimShown == LimInv => BlockedIsShown
<1> SUFFICES ASSUME LimInv, limUncut,
                    NEW arp \in {{<<"ip1", "AA">>, <<"ip2", "BB">>}, {<<"ip1", "BB">>, <<"ip2", "AA">>}, {<<"ip2", "AA">>}},
                    NEW a \in arp
             PROVE  LET shown == mergeLanDeviceSpeedLimit(lim.file, a)
                        listed == {j \in mergeLanSpeedLimitedDeviceLists(lim.file, arp) : j.mac = {a[2]}}
                    IN  /\ a[2] \in ReadBlocks(lim.file) => {i.access : i \in listed} = {FALSE} /\ ~shown.access
                        /\ shown.enabled <=> listed # {}
  BY DEF BlockedIsShown
<1>1. PICK x \in Seq(Devices0), y \in Seq(Rules0), n \in Modules0 : LimSaved(lim, x, y, n)
  BY DEF LimInv, LimShape
<1>2. lim.file.eqos = x /\ OneLimitEach(x)
  BY <1>1, LimSavedTyped, SideParts DEF LimSaved
<1>3. lim.file.eqos \in Seq(Devices0) /\ OneLimitEach(lim.file.eqos) /\ OneToOne(arp)
  BY <1>2, ArpsOneToOne
<1>4. Agree(lim.file, arp, a)
  BY <1>3, ListsAgree
<1> QED BY <1>4, Zenon DEF Agree, Denied

\* The speed limits and the blocks: what was saved is in force, the user's own rules of
\* the firewall stay in place, and the two lists of devices agree about who is blocked.
THEOREM SpeedLimitsCorrect == SpeedLimitsSpec => []LimCorrect
<1>1. LimInv => LimCorrect
  BY LimTypes, LimOwnRules, LimAsAsked, LimShown DEF LimCorrect
<1> QED BY <1>1, LimStart, LimInductive, PTL DEF SpeedLimitsSpec
=============================================================================
